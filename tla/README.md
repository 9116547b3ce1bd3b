# Verification of shadow-ninja-monkey

The repository holds several attempts at a two-player ninja game: a C++ client
with a peer-to-peer network layer (`src/CPPNinjaMonkey`), a C# prototype for TCP
hole punching with its PHP mediator (`src/P2PConnect`, `src/punch`), a PHP and
JavaScript server whose pages rest on prototype and script.aculo.us
(`src/CPPNinjaMonkey/php`), a Unity game (`src/Spikes`) and several versions of a
two-dimensional shadow algorithm. This directory models the parts whose
behaviour depends on the order in which things happen, checks the models with
TLC and proves theorems about them with TLAPS. The C++ network layer comes
first: it is where several threads meet. The pages come second: there is one
thread, but timers, answers and the user reach it in any order. The shadow
calculation comes third: it is sequential and full of geometric edge cases.

## 1. The system

Paths are below `src/`; `C/` stands for `CPPNinjaMonkey/`, `S/` for
`CPPNinjaMonkey/php/snm/scriptaculous-1.8.2/`.

| Component | State | Operations | Interacts with | What makes it correct |
| --- | --- | --- | --- | --- |
| Call queue (`C/src/lib/framework/CallQueue.cpp`) | list of calls, cancel flag, a mutex and a condition | Enqueue, Dispatch (blocking or not), CancelBlockingCalls, WaitForPendingCalls (on or off the dispatching thread) | used by every other C++ component | calls run in order, once; waits end, and only after what they wait for; nobody sleeps through a notification |
| Dispatch thread (`DispatchThread.cpp`), auto-reset event (`AutoResetEvent.h`) | quit flag, thread; set flag | the loop, the destructor; Set, Wait | the call queue | the destructor ends wherever the thread is |
| Peer server (`C/src/lib/net/PeerServer.cpp`, `PeerServerSession.cpp`, `PeerServerConnectionListener.cpp`) | list of sessions and its mutex, session seed, a receiver thread and a socket per session, listener thread and socket | Start, Stop, InitiateSession, Send; accept; connect, receive; the handlers run by the dispatch thread | posts calls to the queue, calls back into the application | CONNECT first and DISCONNECT last; no session deleted while used; Stop ends, and ends everything |
| Packet marshaller (`NetworkPacketMarshaller.cpp`), sockets (`Socket.cpp`) | receive buffer, login flag, connected event | Send, Receive | sessions | the packets sent are the packets delivered |
| Game loop (`C/src/lib/game`), application (`C/src/launch/debug`) | entities, peers, movement vector, its own call queue | Run once a frame; peer joined, left, moved; input | polls its queue; starts and stops the server | knows exactly the peers that are there |
| Rendering, windows, input (`C/src/lib/render`, `C/src/lib/input`) | window, GL context, keys | draw, translate window messages | game loop | output only |
| JSON-RPC, HTTP (`JSONRPC.cpp`, `Neon.cpp`) | queued calls, worker | Call, Run | test program only | answers reach their callbacks |
| P2P client (`P2PConnect/Client.cs`), mediator (`punch/index.php`) | three kinds of sockets, four threads, the authenticated socket; one row per client | mediate, listen, connect twice, authenticate, dispose | two clients through the mediator, then directly | both clients choose the same connection; Dispose ends |
| Web server (`C/php/snm/*.php`, `*.inc`) | game and player tables, session | initPlayerSession | browsers | one running game |
| Requests of the page (`S/prototype.js` Ajax, `C/php/snm/javascript/rpc.js`) | transport and completion of each request, count of active ones, pending calls, the poll timer | request, respondToReadyState, update, start, stop, beginCall, endCall | server; callbacks that may throw | each call is answered once; a stopped updater is quiet; one polling loop |
| Events and field observers (`S/prototype.js` Event, PeriodicalExecuter, TimedObserver, EventObserver) | registry of wrappers, document.loaded; last value, timers | observe, stopObserving, fire; execute, stop | browser; callbacks that nest | registry and browser agree; the page hears of the last value |
| Effects (`S/effects.js`) | a queue with its interval; state, start and end of each effect; the element's style | add, remove, loop, cancel, toggle, setup, update, finish | callbacks that add and cancel effects | each effect finishes once; nothing of it stays in the style |
| Drag and drop, sortables (`S/dragdrop.js`) | active draggable, last active drop, delay timer, scrolling; order of lists | press, move, release, escape, destroy; onHover, onEnd, setSequence | effect queue; mouse and keys | one drag at a time; drops go to the innermost; no item is lost, changes are told |
| Controls (`S/controls.js`) | list of an autocompleter, its timer, focus; form, saving flag and loads of an in-place editor | keys, blur, answers; enter, submit, cancel, load | requests, effects | late answers do no harm; nothing typed is lost; saves end |
| Slider (`S/slider.js`) | values, active handle, drag | setValue, drag, disable, dispose | page | handles keep their order; changes are told |
| Test runner (`S/unittest.js`) | tests, current one, timer | runTests, wait, assertions, result | the tests | one setup and teardown each; the result arrives and is right |
| Network menu (`Spikes/Assets/NetworkScripts/ConnectGuiMasterServer.js`) | what the NAT test found, probe, timer | Update, Retest, StartServer, Connect, Disconnect | Unity's Network | the test ends; servers and joins follow it |
| Unity match (`Spikes/Assets/Scripts`, `Spikes/Assets/Scenes/LoadingScene`) | health, score, global state, per peer | hit, killed, won, respawn, connect, synchronise | the peer, by RPC and state synchronisation | one kill scores once; both peers agree |
| Shadow algorithm (`oak-does-javascript-and-canvas-tag`, ports elsewhere) | edges, points sorted by angle, a stack of edges | split, sort, add or remove an end point, build the light polygon | none | the polygon is what the light sees |

The hard behaviour is of two kinds. In the C++ part a call can be queued, taken,
running or dropped while its owner is being shut down; a receiver thread can be
anywhere when its session is stopped; a connection can end between any two
steps. On the pages a handler is never interrupted, but between handlers
everything may change: a timer fires after what it was for is over, an answer
comes late, a callback throws in the midst of a handler or calls back into the
component. `PROJECT.json` lists these hazards with the lines where they bite and
the properties that watch them.

## 2. The plan

Written, in this order:

1. `CallMailbox`, `CallQueue`, `MCCallQueue`, `CallQueueProofs`: the queue every
   other C++ component rests on.
2. `PeerServer`, `PeerServerProofs`: sessions, listener, threads and shutdown,
   over a FIFO of calls.
3. `Marshaller`, `MarshallerProofs`: framing over a byte stream.
4. `Shadow`, `ShadowScenes`, `MCShadow`, `ShadowProofs`: the angular sweep
   against a reference definition of visibility.
5. The page library, composed by `MCEvents` (`EffectQueue`, `Autocompleter`,
   `InPlaceEditor`, `FieldObservers`, `EventRegistry`, `TestRunner`, `Ajax`, and
   the network menu, `MasterServerGui`) with `EventsProofs`, and `MCWidgets`
   (`ElementEffects`, `DragDrop`, `Sortable`, `Slider`, and `Shadow`) with
   `PageProofs`, and `WidgetsProofs` over the composition.

Left, most important first:

6. `GameLoop`: the game's queue (polled), peers, movement input and the
   translator. Properties: the peers known to the game are those whose CONNECT
   was seen last; `assert(false)` in `HandlePeerLeft` is never reached.
7. `P2PClient`: two clients and the mediator, with agreement on a link as the
   abstract specification.
8. `NinjaMatch`: two Unity peers, RPCs and state synchronisation.
9. `GameDB`: concurrent `initPlayerSession`.

Every safety property that a passing run checks is proved, but for what section
5 lists under "Only model-checked".

## 3. The modules

### CallQueue and CallMailbox

Clients are the threads other than the dispatching one. A critical section of
`m_queueMutex` is one step (`Enqueue`, `DispatchTake`, `DispatchSleep`,
`CancelBlockingCalls`, ...), and so is each call of a batch. `queue` is
`m_queue`, `cancel` is `m_bCancelBlocking`, `quit` is `m_bQuit`, `event[c]` is
the `m_bSet` of the event client `c` waits on. `stack` is the dispatching
thread's stack of `Dispatch` batches (`queueCopy`, as far as it has not run)
and of `WaitForPendingCalls(true)` frames with their `bCompleted`: a call may
dispatch again. `dpc`, `wpc` and `opc` say where the dispatching thread's outer
loop, each client's wait and the destructor are. `ticket`, `posted`, `ran` and
`flushed` are history variables: calls are numbered by their place in the order
of `Enqueue`.

The constant `Looping` chooses between the two ways the program dispatches: a
`DispatchThread` with `Dispatch(true)`, and `GameLoop::Run` with `Dispatch()`
once a frame. `Garbage` is the set of values that the uninitialised
`bCompleted` can read: `{FALSE, TRUE}` is what C++ allows, `{FALSE}` what the
author meant. Condition variables wake up spuriously at any time.

The model has one dispatching thread per queue, as the code base does.
`quit` is written before the cancellation and read without a lock; the model
has one step for each access, which is what a volatile bool gives on the
compiler and processor the code is built for.

`CallMailbox` is the abstract specification: calls are accepted, delivered in
order, one by one, each once, and a wait returns only for a delivered call. The
property `MailboxSpec` and the theorem `ImplementsMailbox` say that `CallQueue`
implements it with `delivered <- ran`.

### PeerServer

`callq` is the queue of calls bound to the server's member functions; that a
FIFO is a sound abstraction of the queue is what `ImplementsMailbox` says.
`handler` is what the dispatch thread is doing inside a call that takes several
steps: creating a session and then starting it, sending to one session after
the other, joining a receiver thread. `sessions` and `lock` are the
`SessionManager`, `rpc[s]` is where the receiver thread of session `s` is,
`ready[s]` its `m_connectedEvent`, `sock[s]` its socket, `life[s]` whether the
object exists. `lpc`, `lsock`, `lquit` are the listener. `mpc` takes the main
thread through `Start`, the time the application is up, the three stages of
`Stop`, and the destructor. `seen[s]` is what the callback of the application
was told about `s`. Sockets block, fail when they are closed locally, and
return 0 for ever after an orderly close by the other end, as `recv` does.
`late` records whether `StopAll` met a session that was still being made.

A vector of packets is one of CONNECT, DISCONNECT, some data, or empty. A
session's Disconnect and the callback that follows a `READ_ERROR` are one step:
nothing that another thread does in between depends on the difference. A
failing `Start` is only asserted on by the application; both outcomes are there.

### Marshaller

Bytes carry the number of their packet and their place in it, so that a wrong
cut is visible. `Send` writes the byte order mark before the first packet and
may fail after any number of bytes. A turn of `Receive`'s loop is several steps:
`Read(n)` is its `recv`, which returns `n` bytes, each `CutPacket` a turn of the
inner loop, and `Deliver` the rest: the move of what remains and the callback.
`buffer` is what lies between `pPacketStart` (the start of `aBuf` outside the
inner loop) and the end of what was received, `received` is `receivedPackets`,
`delivered` is what the callback was given so far. The assertion on the byte
order mark ends the receiver in the state `asserted`: a first `recv` with fewer
than four bytes reaches it. Lengths that do not fit the buffer are excluded by
an assumption: the receiver asserts on them and the only packet the game sends
has eight bytes. `NetworkEndian::Swap` is the identity, since nothing in the
repository defines `BOOST_LITTLE_ENDIAN`.

### Shadow

`SplitEdges`, `sortEdgePoints`, `AddEdge`, `RemoveEdge` and `addPoint` are the
methods of the same names or purpose; a step (`Advance`) handles one end point
of one of the two scans. `OtherEnds` and `InnerEnds` are the end points that are
sorted, in the order in which they are collected, and `InsertedPoints` what the
sort makes of the first 0, 1, ... of them. Coordinates are integers and every
scene consists of axis-parallel rectangles, as on the pages, so an intersection
is an exact rational and no rounding hides or makes a case. `Array.sort` is the
insertion sort that browsers used for short arrays; it matters only where the
comparison is no order. `Lit` is the reference definition: the segment from the
light to a point crosses no edge. `ThrowsOnlyAligned` and `SortedUnlessAligned`
name the one case, `Aligned`, in which the code goes wrong: an end point
straight behind the light, seen from the nearest point, together with one on the
ray to it.

### The page library

In all of these modules a handler of the browser is one step, because nothing
interrupts it; what a page's callback does inside a handler (throw, cancel,
create, nest another event) is a choice of that step. The exceptions are
`EffectQueue`, where one call of `loop()` takes a step per visit of its array,
so that callbacks can change the array in between, and `EventRegistry` and
`FieldObservers`, where dispatches and callbacks nest and may let other events in.
`Lists` holds what they share, and `Shadow` with them: an array without some of
its elements, which is what `reject` and `without` of prototype return.

| Module | State and actions in the code's terms | What the environment may do |
| --- | --- | --- |
| `Ajax` | transports, `_complete`, `activeRequestCount`, `RPCManager.calls`, the PeriodicalUpdater's timer and decay; `CreateRequest` and `Complete...` are `request` and `respondToReadyState` | open or send throws, answers of four sorts in any order, the loading event after the answer, callbacks and updates that throw, stop and start at any time |
| `EventRegistry` | `Event.cache` and the browser's list of listeners, `document.loaded` | observe, stop, fire from handlers; the load event during `dom:loaded` |
| `FieldObservers` | the three kinds of observers of a field | silent edits, nested events, callbacks that throw, a timer between key and keyup |
| `EffectQueue` | `effects`, `interval`, `startOn`, `finishOn`, `state`, the index of `loop()` | create and cancel effects anywhere, of durations that include 0 |
| `ElementEffects` | the inline style: each thing has no inline value, the page's, what the style sheets give, or one of an effect; tables say what each of the combination effects writes when it is constructed, set up and updated, and what it puts back, as it was inline or as `getStyle` returned it; `_madePositioned`, `_overflow` | pages styled in different ways, any effect at any time, two at a time, cancels, toggles |
| `DragDrop` | `activeDraggable`, `_timeout`, `_lastPointer`, `last_active`, `_dragging`, the queue of settling effects | presses, moves, Escape, releases outside the page, callbacks that throw, elements and drops that are removed |
| `Sortable` | the children of each list, `lastValue` of the observers | setSequence, destroy and create during a drag; a press that Escape ends before it moves |
| `Slider` | `values`, `activeHandleIdx`, `active`, `dragging`, `event`, `disabled` | the page sets values during drags |
| `Autocompleter` | `changed`, `hasFocus`, `active`, `index`, timers, the fades of the list | answers in any order and number, blur at any time, also of a field that has no focus any more |
| `InPlaceEditor` | `_saving`, `_editing`, `_oldInnerHTML`, the form and its field, requests under way | answers in any order, failures with the default or the page's `onFailure`, empty texts, `htmlResponse` false, Escape while saving |
| `TestRunner` | tests with their counts, `currentTest`, the timer | setup, part or teardown throws, waits, or waits and throws; late assertions and waits |
| `MasterServerGui` | `probingPublicIP`, `doneTesting`, `filterNATHosts`, `Network.useNat` | any network, that changes between tests; retests, servers and joins at any time |

Some of what these components promise does not survive everything their
environment may do. The module then keeps a history variable that says what has
happened (`mishaps` in `DragDrop` and `FieldObservers`; `mixed`, `dropped` and
`appeared` in `ElementEffects`; `recreated` in `Sortable`; `raced` and
`reopened` in `Autocompleter`; `escaped`, `reopened` and `spoilt` in
`InPlaceEditor`; `threw` in `Ajax`; `late` and `waitedAside` in `TestRunner`;
`connected` in `MasterServerGui`, beside `incapable`, what its tests have found;
`reentered` in `EventRegistry`), and each property names exactly those it
excepts. The exceptions are real: without one, TLC finds a behaviour that needs
it.

`MCEvents` and `MCWidgets` instantiate these modules side by side. The
components share no state on the pages of this repository, so a behaviour is one
of one component, chosen by `component` at the start, and the variables of that
component take the slots `v1`, `v2`, ...; `Spec` of `MCEvents` carries over the
fairness each module states in its `FairSpec`. What a component promises is one
property, the conjunction of the named parts that its module explains:
`DragDropPromise` is `TypeOK`, `ActiveIsPressed`, `QuietWithoutDrag`,
`DragIsBusy`, `RestsAtDelta` and `DropIsInnermost`. What the components of
`MCEvents` must come to in the end is in two properties, after what they wait
for: `TimersEnd` (effects finish, typing is noticed, fields are told, the page is
loaded, the tests' result arrives) and `AnswersEnd` (saves, connection tests and
calls end). `Completer` is the instance of `Autocompleter`.

## 4. The runs

Every passing run explores its whole state space.

| Run | Instance | Question | Result |
| --- | --- | --- | --- |
| `CallQueueThread` | looping thread, 2 clients, 3 calls of kinds work and spawn, destructor at any time | order, promise of the waits, wakeups, liveness, refinement of `CallMailbox` | holds |
| `CallQueuePolled` | polled queue, 2 clients, 3 calls, the poller itself waits between frames | end of the waits in the game loop's use (what they promise is proved for every use) | holds |
| `CallQueueNested` | looping thread, 2 clients, 3 calls, which may themselves wait | no call lost or doubled, sentinels alive, waits and destructor end | holds |
| `CallQueueGarbage` | polled queue, 1 client, `bCompleted` may read true | does a wait on the dispatching thread flush? | refuted |
| `PeerServerSafe` | 1 initiated and 1 accepted session, 1 send, 1 data vector, 3 queued calls before a spinning receiver pauses, every failure | life cycle of sessions and pointers to them | holds |
| `PeerServerStop` | the same without data and with sockets that fail only when closed or reset | Stop ends and leaves nothing behind | holds when no session was being made |
| `PeerServerThreads` | 1 accepted session | "All threads have been shut down on Stop" | refuted |
| `PeerServerWait` | 1 initiated session whose connect may fail, 1 send | Stop's wait ends | refuted |
| `Marshaller` | packets of 0, 1 and 3 bytes, up to 4 of them, mark and header of 2 bytes, buffer of 5 | framing | holds |
| `Widgets` | 2 effects at a time of an element of 4 styled pages; 2 draggables, 2 nested drops, 3 places of the pointer; 3 items in 2 lists; 3 handles; 26 scenes with 81 lights | what is dragged, moved and lit | holds |
| `Events` | 3 effects; 3 keys and 3 entries; 3 edits of a form; 4 changes of a field; 2 handlers for 3 events; 2 tests with 2 waits; 3 requests; 6 networks and 2 retests | what timers, answers and events drive, and that it goes on | holds |
| `ShadowOrder` | the scenes of `Widgets` | "a sorted (counter-clockwise) list" | refuted |

### Bounds

`MaxCalls` bounds the calls posted from outside a call. Three calls are enough
for a batch of two while a third is queued, for a call between two sentinels,
and for two nested waits with something queued in between; two clients are
enough for one to post while the other waits. Calls posted by calls come on
top. For `PeerServer`, two sessions are enough for one to be created, to end or
to block while the other is being sent to or stopped; `MaxBacklog` only limits
how far a receiver that spins on a closed connection fills the queue, and it
stops that receiver before the others need the room. In `Marshaller` the sizes
are scaled down with their relations kept: the largest packet fills the buffer
exactly, the smallest has no data, several fit together, and a header can be
split.

Three effects are enough for `loop()` to skip one while another leaves and a
third is added; `CreateBy` lets all that are made by the page be made at one
instant, and chained ones later. The pages of `ElementEffects` (`StyledPages`)
are one without inline values and one with, each with what is static and blank
chosen so that every way to lose a value occurs; two effects are a toggle
against an effect of another queue, and `FollowMixed` is false since nothing is
said of a style once effects were mixed. In `DragDrop`, one draggable reverts
and takes effect at once, the other stays and is delayed, one drop is inside the
other and takes only one of them, and one place is at the edge that scrolls. In
`Sortable` three items give a middle one. In `Slider` three handles give one
with two neighbours, and a set of allowed values with a gap. In `Autocompleter`
three keys allow for typing, moving and choosing, and two blurs and two fades
(`MaxBlurs`, `MaxFades`) for a late one beside a fresh one; in `InPlaceEditor`
three openings of the form let a load of the first meet the form of the second
with a save in between, and one of the two texts is empty. Three requests are a
polling loop that meets its own late answer beside a call. The scenes of
`ShadowScenes` are all of up to three of five rectangles inside a box of ten by
ten, no two of which meet, but which hide each other and lie in line, so that
the aligned case occurs; the lights are all integer positions in the box, those
on the sides of rectangles and inside them included.

`CHECK_DEADLOCK FALSE` stands in the configurations where the system may really
stop: the destructor has run, `Stop` has returned, the connection has ended, the
bounds on what the user does are reached, the polygon is built. In the polled
run the loop never stops and deadlock is checked.

### Fairness

Weak fairness is assumed of threads that can run: the dispatching thread, a
client inside a wait, the destructor, the main thread inside `Stop`, each
receiver. This is what the operating system's scheduler gives a thread that is
not blocked, and calls return by themselves. Blocking socket calls are assumed
to return only when the socket has been closed locally, and `connect` to
succeed or fail; nothing is assumed of the other end, of data arriving, of
accepts, or of the decisions to post, wait, send or stop. In `Marshaller` only
`recv` with something to return is fair.

On the pages, timers that are set fire, events that are pending are dispatched,
and a request ends, if only because the browser gives it up. Time goes on
however often the interval of an effect queue fires: that is strong fairness,
since the passing of time is not enabled in the midst of a handler. Nothing is
assumed of the user. In the network menu Unity calls `Update` every frame and
`Network.TestConnection` comes to an answer.

### What the refuted statements mean

* `WaitForPendingCalls(true)` reads `bCompleted` before writing it
  (`CallQueue.cpp:94`; run `CallQueueGarbage`).
* A session requested or accepted just before `Stop` starts after `StopAll`
  (`PeerServer.cpp:180`; run `PeerServerThreads`). This is the `late` of
  `CleanStop` and `StopTerminates`, and the only exception they need while
  sockets fail only when closed or reset. The CONNECT call of such a session may
  also still be queued when `Stop` returns.
* Sending to a session that never connects blocks the dispatch thread, and
  with it `Stop`, for ever (`NetworkPacketMarshaller.cpp:106`; run
  `PeerServerWait`).
* End points in line with the light on both of its sides are not sorted, and a
  method of null may be called (`EdgeSorter.js:58`, `EdgeStack.js:28`; run
  `ShadowOrder`).

Six more follow from the same modules with other constants, and have no
configuration of their own:

* `WaitForPendingCalls(true)` inside a dispatched call misses the rest of the
  batch it is in (`CallQueue.cpp:99`): `FlushKeepsPromise` of `MCCallQueue` fails
  with one client, `Ops = {"work", "flush"}`, `Looping = TRUE`,
  `Garbage = {FALSE}`.
* A listener whose accept has failed once is never stopped
  (`PeerServerConnectionListener.cpp:45`): `StopEndsThreads` fails with
  `ListenerMayFail = TRUE` and no connection accepted after that.
* A `Disconnect` before the socket exists has no effect, and `Stop` joins a
  thread that may never end (`PeerServerSession.cpp:52`):
  `DisconnectStopsReceiver` fails under `FairSpec` with `MaxInitiated = 1` and
  the other bounds 0.
* `queue: 'end'` is said to "start effect after last queued effect has finished"
  (`effects.js:191`), but `loop()` runs its index over an array that `remove`
  replaces, so a visit may be skipped and a later effect start first:
  `EndStartsAfterOthers` of `EffectQueue` fails with `Effects = {1, 2, 3}`, all
  five queues, durations 0 and 2 and `CreateBy = 2`.
* "Do not display NAT enabled games if we cannot do NAT punchthrough"
  (`ConnectGuiMasterServer.js:170`), but only the test that finds so at once filters
  them, not the one that ends still blocked after its probe of NAT (line 110):
  `JoinsPossible` of `MasterServerGui` fails under its `Spec` with the networks of
  `Events.cfg` and `MaxRetests = 2`.
* "NAT functionality is enabled in case a server is started" (line 84), but joining
  a game sets `Network.useNat` to what its host wants (line 197), and a server that
  is started afterwards takes it over: `ServersHaveNat` fails there too.
  `StartUsesTest` excepts it as `connected`.

What the code does and no document speaks about is written into the properties
as exceptions, see section 3. The most noteworthy: an exception of an Updater's
`onComplete` leaves `activeRequestCount` too high for ever
(`prototype.js:1318`); a call of `setValue` for handle 0 moves the handle that
was active last (`slider.js:131`); Escape while saving leaves "Saving..." as the
text (`controls.js:618`), and so do a failed save, or the destruction, of an
editor whose text was empty (`controls.js:584` and 613 test the old text itself)
and a save with `htmlResponse` false whose page writes nothing
(`controls.js:638`); Escape after a press that has not moved calls `onUpdate`
again for the lists that the last drag had changed (`dragdrop.js:445`, 589);
`RPCManager.endCall` throws each time, so `calls` only grows (`rpc.js:51`);
Escape during a drag leaves the scroll timer behind (`dragdrop.js:445`). Of the
page's inline style an effect may lose what is blank when it is written back (an
opacity of 1, `auto` for overflow and offsets), the opacity once the element has
appeared (`prototype.js:1936`), and an inline `position: static` with the
offsets beside it (`prototype.js:1984`); and it may leave inline what the style
sheets gave (`effects.js:501`, 511, 567, 644, 691; `prototype.js:2005`), so a
later change of the sheets has no effect.

## 5. The proofs

The theorems hold for every value of the constants that the modules' named
assumptions allow: any clients, sessions, calls, packets, sizes, elements and
values. Assumptions beyond those are named below. Only `WidgetsProofs` is about
one choice of constants, that of `MCWidgets`. `QueueFacts` holds the facts about
sequences (append, take the first, concatenate, remove and insert in the middle)
that the proofs share, and induction: the library's theorems of induction take a
predicate, which the provers cannot instantiate, but that a set of numbers with a
member has a least one (`LeastOf`, from the well-foundedness of a relation) is a
statement about sets. `NatInd` and `SeqInd` are induction over a set of numbers
or of sequences, and with them follows what the recursive function `Lefts` of
`Lists` computes.

### CallQueue, calls that do not wait: CallQueueProofs, first part

* `TypeCorrect`: `Spec => []TypeOK`.
* `RunsInOrder`: `Spec => []InOrder`, when no dispatched call waits for pending
  calls (`"flush" \notin Ops`).
* `WaitFlushes`: `Spec => []FlushKeepsPromise`, when moreover `bCompleted`
  starts as false (`Garbage = {FALSE}`).
* `ImplementsMailbox`: `Spec => MailboxSpec` under the same assumptions.

The assumptions are necessary. Without the second, the run `CallQueueGarbage` is
the counterexample; without the first, a wait made by a call that is itself
running (`Ops = {"work", "flush"}` in `MCCallQueue`) is one.

`InOrder` alone is not inductive, because it says nothing of calls that have
yet to run. `OrderInv` strengthens it: the stack has one of the few shapes that
non-nested dispatching allows (`Shape`), and what has run, the rest of the
batch and the queue, one after the other, carry the numbers 1, 2, ... up to
`posted` (`Numbered`). Each action moves an element from the front of one part
to the end of the previous one or appends at the end. `PromiseInv` adds that an
event that is set, or a `bCompleted` that is true, belongs to a sentinel that
has run (`Promise`); with `OrderInv` everything before it has run too, since
numbers run in order. The refinement uses the same invariants: a run of a call
is a delivery, the return of a wait is `Flushed`, every other step stutters.

### CallQueue, calls that wait and dispatch again: CallQueueProofs, second part

When a call waits, the stack grows without a bound and the order of `Enqueue` is
lost: a nested `Dispatch` runs later calls while the rest of an earlier batch
still lies below it. What is left is proved for every nesting:

* `CallsOnce`: `Spec => []ExactlyOnce`, with no further assumption.
* `NoNotificationMissed`: `Spec => []NoMissedNotify`, with no further assumption.
* `SentinelsStayAlive`: `Spec => []SentinelsAlive`, when `Garbage = {FALSE}`. With
  `TRUE` a wait may return at once and leave its sentinel behind.

`ExactlyOnce` counts places, and a count cannot be followed through a step;
`Placed` says where they are. The queue holds the last numbers in order
(`QueueNumbered`); of the numbers before, each is in one place, run or in one
batch at any depth of the stack (`Once`); a frame of a wait holds no calls
(`FlushEmpty`). `NoMissedNotify` speaks only of threads that sleep. `Waiting`
follows the signal from `Enqueue` on: a signal that has not run belongs to a
client that is waiting for it and whose event is unset (`SignalsDue`), a client
whose event is unset has such a signal (`Awaited`); `DispatcherIdle` says that
the dispatching thread sleeps only at the bottom of its stack, with nothing
queued. `Marks` is the same for the sentinels of `WaitForPendingCalls(true)`:
the frame of a sentinel that has not run is on the stack with `bCompleted` false,
so it has not returned.

### PeerServer: PeerServerProofs

* `PeerTypes`: `Spec => []TypeOK`. It includes that no session number beyond
  those of the bounds is used, for which `Counted` relates `m_nSessionIDSeed` to
  the creations that are still queued.
* `LifecycleKept`: `Spec => []PeerLifecycle`, CONNECT first and once,
  DISCONNECT last and once.
* `DeletedAreQuiet`: `Spec => []DeletedSessionsQuiet`: no receiver thread runs and
  nothing is queued for a session that `StopAndDeleteSession` or the destructor has
  deleted. A destructor whose `Stop` met a session that was being made is excepted:
  that is the refuted `StopEndsThreads`.
* `TargetsAreLive`: `Spec => []SendTargetsLive`.
* `StopEndsSessions`: when `Stop` has returned, no receiver thread runs and every
  call is dispatched, unless a session was being made when `StopAll` looked.
* `StopIsClean`: `Spec => []CleanStop`, when `listen` and `accept` do not fail by
  themselves (`~ListenerMayFail`): a listener that failed keeps its thread. As
  `CleanStop` says, it is about a `Stop` that met no session being made (`~late`).

None of these is inductive: that a session is deleted quietly depends on what
is queued. `SafeInv` says of each session what is queued for it and where its
threads are. `Objects`: the live objects are those in `m_sessions` and the one
being joined. `Messages`: a queued receive belongs to a listed session, it is a
CONNECT exactly when nothing of the session came before it, and nothing follows
a DISCONNECT, so `StopSession` meets each session once. `Flushing`: where the
sentinel of `Stop` is. `StopInv` adds `Closed` and `Stopped`: once `StopAll`
has looked, and no session was being made then (`~late`), a receiver that may
still read is one it has yet to join, and nothing is queued behind the
sentinel. This lasts beyond `Stop`, for the destructor deletes what is left in
`m_sessions` without looking at its threads.

### Marshaller: MarshallerProofs

* `StreamTypes`: `Spec => []TypeOK`.
* `PacketsStayIntact`: `Spec => []PacketsIntact`.
* `AlwaysRoom`: `Spec => []RoomToRead`.

The assumptions are those of `Marshaller`: sizes are positive and no packet is
longer than the buffer. `PacketsIntact` looks at what has been delivered, and
says nothing of bytes that are still under way. `StreamInv` does: the bytes in
`buffer` and `wire` are one stream (`Stream`), whatever a `Read` moves from one to
the other. Wherever a packet starts in it, its bytes follow, and behind its last
one the next packet starts (`Framed`); the stream starts with the packet that
`Receive` expects, and, while the connection is up, ends where the next `Send`
goes on (`EndsBefore`). `Send` extends such a stream, also when it stops in the
middle of the mark or of a packet and closes the connection; `CutPacket` takes
the first packet off. `AlwaysRoom` follows since what is left when the inner loop
ends is less than a packet.

### DragDrop: PageProofs, first part

* `ActiveWhilePressed`: `Spec => []ActiveIsPressed`.
* `QuietAfterDrags`: `Spec => []QuietWithoutDrag`.
* `DragsSettle`: `Spec => [](DragIsBusy /\ RestsAtDelta)`.
* `InnermostTakesDrop`: `Spec => DropsOnInnermost`.

For any draggables, drops and points on the page. The assumption `Page` says that
`None` and 0 are not elements or points, and that drops are nested as elements
of a document are: of any drops, one contains none of the others. Without that
`findDeepestChild` has no answer.

The properties hold as long as certain mishaps have not happened (a release that
was lost, a callback that threw, an element destroyed in its drag), and each
excuses some of them only. `DragInv` therefore has one part for each set of
excuses. `Pressed`: at most one draggable is active or about to be, and only it
is dragged. `Settles`: at most one drag has effects left, and the element is at
its delta or the first of these takes it there. `Hovers`: what is hovered over is
the innermost drop under the pointer. `Quiet`: only what is dragged is raised.
What makes the parts inductive is what survives a callback that threw in the
middle of `finishDrag`: `_dragging` of the element stays true with no effect
left that would reset it, so no further drag begins (`Stuck`), and the state
left behind does no harm to the properties that this mishap does not excuse.

### Sortable: PageProofs, second part

* `ItemsStayInLists`: `Sort!Spec => [](Sort!TypeOK /\ Sort!ItemsKept /\ Sort!HoverPlaces)`.
* `ChangedListsAreTold`: `Sort!Spec => Sort!TellsChangedLists`.

`Sortable` is the other half of `dragdrop.js`; its module is instantiated as
`Sort` next to that of `DragDrop`. For any lists and finitely many items
(`Elements`). `ItemsKept` counts the lists of an item; `EachInOne` names the one.
What `removeChild` and `insertBefore` do to a list is stated by lemmas about
sequences without repetitions (`Taken`, `PutIn`): which items are left, and who
follows whom (`Follows`), which is what `nextSibling` reads. `StartKnown` says
that an observer that saw a drag begin remembers its list of that time, so the
comparison when the drag ends is with the start of the same drag. It goes on to say
so between drags, where a press that Escape ends compares again; `ToldDiffer` keeps
that whoever was told differs.

### ElementEffects: PageProofs, third part

* `StyleIsRestored`: `Style!Spec => [](Style!TypeOK /\ Style!RestIsWhole)`.
* `ShownAsAsked`: `Style!Spec => []Style!RestIsAsAsked`.
* `TogglesInTurn`: `Style!Spec => []Style!TogglesTakeTurns`.

`ElementEffects` is instantiated as `Style`. For any number of effects at a time
and any pages, of which `PageFacts` assumes only that the values named as blank are
of things that have such values. The first two speak of an element at rest.
`StyleInv` speaks of one effect under way: until two effects have been mixed there
is at most one; each thing has a value it may keep (`Kept`), or was made clipping
or positioned and not undone, or is among those the effect's phase may have written
(`Writes`, `Makes`); what the effect remembers may be kept too; and it is on the
way to what the accepted effect set out to. What was made positioned is static on
the page itself, so undoing it loses no more than `Loses` says (`MadeRight`). The
lemma `PartsTidyUp` goes through the tables: whatever an effect leaves written, its
next part takes over, and an effect without a next part leaves nothing.

### Slider: PageProofs, fourth part

* `HandlesStayInOrder`: `Sliding!Spec => []Sliding!HandlesInOrder`.
* `ChangesAreReported`: `Sliding!Spec => []Sliding!ReportedUnlessDragging`.
* `AskedHandleMoves`: `Sliding!Spec => Sliding!SetsAskedHandle`.

`Slider` is instantiated as `Sliding`. For any number of handles and any whole
numbers as values. The assumption `Options` says only that a slider has a handle
and every list of allowed values has a member, without which `getNearestValue`
has nothing to return. The order of the handles rests on one fact about that
function: the allowed value nearest to what was asked stays on the side of each
neighbour on which the asked value was cut off, provided the neighbour stands at
an allowed value. That there is a nearest value at all is the minimum of a set of
distances (`LeastOf`). `SliderInv` adds to the properties that every handle
stands at an allowed value and that a slider drags only while it is active, from
which a release is known to report the last value.

### Shadow: ShadowProofs

* `SweepPromise`: `Spec => [](TypeOK /\ SortedUnlessAligned /\ ThrowsOnlyAligned)`.
* `StackPromise`: `Spec => []StackSorted`, when the rectangles are apart
  (`RectanglesApart`).

`Scenery` is all that the first theorem assumes: any lists of rectangles with
integer corners, which may meet, overlap or reach out of the scene, and any lights
strictly inside the scene. The sides of the scene are edges like the others, so
that some edge is always visible. `RectanglesApart` says that every rectangle lies
strictly inside the scene and no two of a scene meet, as in the scenes of
`Shadows001.html` and `Shadows002.html`. Where two edges cross, their order along
the ray changes at a point that is no end point, and the stack does not notice.

`Before` is what the comparison of the sort decides. It is transitive on points of
which none is at the light and which are not aligned (`Clear`), and only there;
so the insertion sort, followed point by point with `NatInd`, keeps its list in
order, and the ends of the cut edge belong first and last. `SweepInv` says that an
edge on the stack is there once and is `Open`: the sweep is between its two ends,
in the first scan or, for an edge whose last end comes before its first one, from
the first scan into the second. The ray to the current point then meets it, since
both of its ends are on the sides they should be (`OpenMeets`), and no comparison
finds null.

That the stack is sorted is not kept by a sweep on its own: the ray moves under
it. `Nearer` compares two distances along one ray, and `FixedOrder` says when its
outcome is the same on every ray that meets both edges: when a line along an axis
separates the two and the light is on one side of it (`Shields`), or when a line
separates them strictly (`Aside`). The visible sides of one rectangle, the sides
of the scene, the two parts of the cut edge and the sides of rectangles that do not
meet are all so (`SceneFixed`). `StackInv` adds this (`Placed`) and the order on the
current ray (`NearestFirst`) to `SweepInv`: the order carries over to the next
ray, and a new edge is put in front of the first that it is not behind.

### The composition of widgets: WidgetsProofs

* `EffectsKeepPromise`: `Spec => []ElementEffectsPromise`.
* `SliderKeepsPromise`: `Spec => SliderPromise`.
* `DragDropKeepsPromise`: `Spec => DragDropPromise`.
* `SortableKeepsPromise`: `Spec => SortablePromise`.
* `ShadowKeepsPromise`: `Spec => []ShadowPromise`.

`Spec` is that of `MCWidgets`, and the five promises are properties of its run.
The module instantiates the proof modules with the constants and variables of
`MCWidgets`; the constants satisfy the assumptions, each operator of the
instances is that of the run (the lemmas named `Same...`), the pages of
`StyledPages` satisfy `PageFacts` (`PagesOfRun`), and `WidgetsInv` says
that whichever component runs is in a state its invariant allows. `LightScenes`
shows that the scenes of `ShadowScenes` are `Scenery` and their rectangles apart.

### The composition of events: EventsProofs

* `EffectQueueKeepsPromise`: `Spec => []EffectQueuePromise`.
* `AutocompleterKeepsPromise`: `Spec => []AutocompleterPromise`.
* `InPlaceEditorKeepsPromise`: `Spec => InPlaceEditorPromise`.
* `FieldObserversKeepPromise`: `Spec => []FieldObserversPromise`.
* `EventRegistryKeepsPromise`: `Spec => EventRegistryPromise`.
* `TestRunnerKeepsPromise`: `Spec => []TestRunnerPromise`.
* `MasterServerGuiKeepsPromise`: `Spec => MasterServerGuiPromise`.
* `AjaxKeepsPromise`: `Spec => AjaxPromise`.

`Spec` is that of `MCEvents` and its constants are any that `BoundsAssumption`
allows: finite sets, positive intervals, placeholders that nobody enters as a
text, the six networks that `Network.TestConnection` tells apart. The fairness
in `Spec` is not used. `DrivenMoves` says that a step of `Spec` is one of the
component that was chosen; each component then has an invariant of its own.

* `EffectsInv`: `Orderly` holds of a queue as a value, also between the parts of a
  handler, since `add`, `cancel` and `loop` call one another. Besides the promise it
  says which instants an effect may have, and that what was put behind a queued
  effect is due after it. That an effect is in the queue once needs that every
  effect that is added is a new one.
* `AutoInv`: an active autocompleter shows its list or is about to, and after a
  choice no timer and no answer is left that could show it again.
* `EditorInv`: the form, the saving text and the two flags are in one of the
  combinations `EditorModes`; at most one save and one load are under way; a
  saving text can be kept as the text from before only once the user has escaped
  from a save, or an end of it left the text (`spoilt`). `EntryKept` follows
  from `OneLoad`: once the user has typed, no load is under way.
* `FieldInv`: who holds the last value, the observer, the callback that runs or
  the timer, for each of the three kinds of observers, until what `Excused` names
  for that kind has happened.
* `RegistryInv`: registry and browser agree per event; `OneOfEach` lifts that to
  handlers; a page whose `dom:loaded` was fired is loaded or has the dispatch that
  declares it on its stack (`LoadedSoon`). `RegistryMatches` compares two lists
  without some wrappers, and is kept since leaving out commutes with leaving out.
* `RunnerInv`: the tests before the current one are set up and torn down once,
  those behind it not at all, but for tests whose teardown waited; what was logged
  is what the counts say until something comes late, and then no more is claimed.
* `GuiInv`: the probe is the one the script waits for, and what is on record about
  the last answer (`useNat`) agrees with the network unless a game was joined since.
  What `JoinsPossible` and `ServersHaveNat` claim of joins and servers is refuted,
  so nothing is proved of it.
* `RequestInv`: requests are numbered as they are created, each is in one of a few
  states (`RequestStates`), and of the updater's only the last can still be heard
  of (`LastUpdater`), whence `ContentIsNewer` and `StoppedStays`. The count of
  active requests is followed through the cardinalities of the sets that
  `CountsOpenRequests` adds.

### Only model-checked

`PolygonIsLit`, that the polygon is what the light sees. It is about the polygon as
a whole, the parity of how often a way crosses its border, and does not except the
aligned case, in which there is no order of the end points to argue from; what is
proved is what the polygon is built from, the order of the sweep and of the stack.
The refuted statements, whose counterexamples TLC finds, and all liveness
properties stay with TLC too: the latter need fairness and ENABLED, which are
beyond the prover.

## 6. Not modelled

* Rendering, the splines, the other menus, tracing and plain data: no state
  whose order matters.
* Of the page library: the string, array, DOM and selector helpers of
  prototype; synchronous requests; `Effect.Morph`, `Transform`, `Tween`,
  `ScrollTo`; sortable trees, ghosting, snapping and constraints of drags;
  `Autocompleter.Local`, tokens within a field, answers without a list;
  `submitOnBlur` of the in-place editors; the logger's markup of the test runner.
* Of an element's inline style: the value of `display`, of which only none or not
  is modelled; bottom and right, which are cleared with top and left; an overflow
  that is hidden before an effect makes it so.
* Of the bytes on the wire: a packet's type, which is taken unchecked
  (`NetworkPacketMarshaller.cpp:78`, `PeerServer.cpp:244`), is always one the
  program sends; the overlapping `memcpy` of what remains in the buffer
  (`NetworkPacketMarshaller.cpp:89`) is the move the compiler makes of it.
* Other third-party code: neon, jQuery, QUnit, Unity assets.
* Memory allocation failing, and the operating system's reuse of handles.
* What section 2 lists as left. Hazards there that no property covers yet: the
  two connections of `P2PConnect/Client.cs:357`, `Dispose` joining a thread that
  waits without a timeout (`Client.cs:47`), the mediator's answer from an earlier
  session (`punch/index.php:52`), a kill that scores twice
  (`NinjaBehaviour.cs:113`), key repeat in `GameLoop.cpp:135`, a null server in
  `App.cpp:114`, and two games created at once (`gamedb.inc:116`).
* Two threads in one `Dispatch(true)` (`CallQueue.cpp:56`): no code here does it.
* The receiver's flood of empty vectors after an orderly close
  (`NetworkPacketMarshaller.cpp:52`) is in `PeerServer` as `ReadEof`, capped by
  `MaxBacklog`; nothing says what should happen, so no property does.

## 7. Reading the modules

A definition whose comment starts with "Faulty:" is not part of a model: it is
a variant of the definition below it with a plausible bug, used to confirm that
a property would notice. `PROJECT.json` pairs each property of a passing run with
such a variant, and its `map` gives the source lines of each definition.
