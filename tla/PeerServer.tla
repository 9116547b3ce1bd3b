------------------------------ MODULE PeerServer ------------------------------
(***************************************************************************)
(* CPPNinjaMonkey's PeerServer with its sessions, its connection listener   *)
(* and the application that starts it, uses it and shuts it down.           *)
(*                                                                         *)
(* Four kinds of threads meet here:                                         *)
(*   the application's main thread (Start, Send, InitiateSession, Stop),     *)
(*   the dispatch thread, which runs the calls of m_callQueue in order,      *)
(*   the listener thread, which accepts connections, and                    *)
(*   one receiver thread per session, which connects and reads.             *)
(*                                                                         *)
(* m_callQueue is a FIFO of calls here; that the real one behaves so is what *)
(* module CallQueue shows.  The callback into the application appends to     *)
(* seen.  Sockets and the remote peers are external.                        *)
(***************************************************************************)
EXTENDS Naturals, FiniteSets, SequencesExt

CONSTANTS
    MaxInitiated,   \* bound: calls of InitiateSession
    MaxAccepted,    \* bound: connections from remote peers
    MaxSends,       \* bound: calls of Send
    MaxData,        \* bound: packet vectors a session receives
    MaxBacklog,     \* bound: queue length a spinning receiver stops at
    ConnectMayFail, \* whether Socket::Connect may fail by itself
    ListenerMayFail \* whether listen() and accept() may fail by themselves

ASSUME BoundsAssumption ==
    /\ {MaxInitiated, MaxAccepted, MaxSends, MaxData, MaxBacklog} \subseteq Nat
    /\ {ConnectMayFail, ListenerMayFail} \subseteq BOOLEAN

Sessions == 1 .. (MaxInitiated + MaxAccepted)
Broadcast == 0

VARIABLES
    callq,     \* m_callQueue
    handler,   \* the call in progress on the dispatch thread
    sessions,  \* m_sessions, in the order of Add
    lock,      \* who holds m_sessionsMutex across steps
    seed,      \* m_nSessionIDSeed
    life,      \* each session object: none, live, deleted
    sock,      \* its m_socket: invalid, connecting, connected
    remote,    \* the other end: up, closed (orderly)
    rpc,       \* its receiver thread
    ready,     \* m_bSet of its m_connectedEvent
    login,     \* its m_bLoginSent
    lpc,       \* the listener thread
    lsock,     \* whether m_listenerSocket is open
    lquit,     \* m_bQuit of the listener
    mpc,       \* the main thread: before Start, up, in Stop, after it
    stopping,  \* the sessions StopAll has yet to stop
    completed, \* m_bSet of the completedEvent of Stop's wait
    seen,      \* what the application was told about each session, in order
    used,      \* how often each bounded action has happened
    received,  \* how many packet vectors each session has received
    late       \* history: StopAll found a session that was still being made

sessionVars == <<sessions, seed, life>>
socketVars == <<sock, remote, rpc>>
eventVars == <<ready, login>>
listenerVars == <<lpc, lsock, lquit>>
mainVars == <<mpc, lock, stopping, completed, late>>
vars == <<callq, handler, sessionVars, socketVars, eventVars, listenerVars,
          mainVars, seen, used, received>>

Packets == {"CONNECT", "DISCONNECT", "DATA", "EMPTY"}

(* A queued call: the bound member function and the arguments that matter.   *)
Call ==
    [op : {"connect", "accept", "signal"}, s : {0}, packets : {"EMPTY"}]
    \cup [op : {"send"}, s : Sessions \cup {Broadcast}, packets : {"DATA"}]
    \cup [op : {"receive"}, s : Sessions, packets : Packets]

NewSession(how) == [op |-> how, s |-> 0, packets |-> "EMPTY"]
Signal == [op |-> "signal", s |-> 0, packets |-> "EMPTY"]
Outgoing(s) == [op |-> "send", s |-> s, packets |-> "DATA"]

(* Faulty: the callback is not bound to the number of its session.           *)
IncomingUnbound(s, packets) ==
    [op |-> "receive", s |-> Broadcast, packets |-> packets]

Incoming(s, packets) == [op |-> "receive", s |-> s, packets |-> packets]

(* What the dispatch thread is doing: nothing, about to start the session it *)
(* created, sending to a list of sessions, or joining a receiver thread.     *)
Handler ==
    [at : {"idle"}, s : {0}, rest : {<< >>}]
    \cup [at : {"startConnect", "startAccept", "join"}, s : Sessions,
          rest : {<< >>}]
    \cup [at : {"send"}, s : {0}, rest : Seq(Sessions)]

Idle == [at |-> "idle", s |-> 0, rest |-> << >>]

TypeOK ==
    /\ callq \in Seq(Call)
    /\ handler \in Handler
    /\ sessions \in Seq(Sessions)
    /\ lock \in {"free", "main"}
    /\ seed \in 0 .. Cardinality(Sessions)
    /\ life \in [Sessions -> {"none", "live", "deleted"}]
    /\ sock \in [Sessions -> {"invalid", "connecting", "connected"}]
    /\ remote \in [Sessions -> {"up", "closed"}]
    /\ rpc \in [Sessions -> {"none", "connect", "connecting", "receive",
                             "reading", "ending", "ended"}]
    /\ ready \in [Sessions -> BOOLEAN]
    /\ login \in [Sessions -> BOOLEAN]
    /\ lpc \in {"none", "accepting", "ended"}
    /\ lsock \in BOOLEAN
    /\ lquit \in BOOLEAN
    /\ mpc \in {"down", "up", "joinListener", "stopAll", "stopNext",
                "joinSession", "flush", "wait", "stopped", "gone"}
    /\ stopping \in Seq(Sessions)
    /\ completed \in BOOLEAN
    /\ seen \in [Sessions -> Seq(Packets)]
    /\ used \in [{"initiate", "accept", "send"} -> Nat]
    /\ received \in [Sessions -> 0 .. MaxData]
    /\ late \in BOOLEAN

Init ==
    /\ callq = << >>
    /\ handler = Idle
    /\ sessions = << >>
    /\ lock = "free"
    /\ seed = 0
    /\ life = [s \in Sessions |-> "none"]
    /\ sock = [s \in Sessions |-> "invalid"]
    /\ remote = [s \in Sessions |-> "up"]
    /\ rpc = [s \in Sessions |-> "none"]
    /\ ready = [s \in Sessions |-> FALSE]
    /\ login = [s \in Sessions |-> FALSE]
    /\ lpc = "none"
    /\ lsock = FALSE
    /\ lquit = FALSE
    /\ mpc = "down"
    /\ stopping = << >>
    /\ completed = FALSE
    /\ seen = [s \in Sessions |-> << >>]
    /\ used = [a \in {"initiate", "accept", "send"} |-> 0]
    /\ received = [s \in Sessions |-> 0]
    /\ late = FALSE

Use(action) == used' = [used EXCEPT ![action] = @ + 1]
Enqueue(call) == callq' = Append(callq, call)

(* Socket::Disconnect of a session.                                         *)
Disconnect(s) == sock' = [sock EXCEPT ![s] = "invalid"]

-----------------------------------------------------------------------------
(* The main thread while the application runs.                             *)

(* Start: Listen, then the listener thread.  A failure is only asserted on.  *)
Start ==
    /\ mpc = "down"
    /\ mpc' = "up"
    /\ \/ lsock' = TRUE /\ lpc' = "accepting"
       \/ ListenerMayFail /\ UNCHANGED <<lsock, lpc>>
    /\ UNCHANGED <<callq, handler, sessionVars, socketVars, eventVars, lquit,
                   lock, stopping, completed, late, seen, used, received>>

InitiateSession ==
    /\ mpc = "up"
    /\ used["initiate"] < MaxInitiated
    /\ Use("initiate")
    /\ Enqueue(NewSession("connect"))
    /\ UNCHANGED <<handler, sessionVars, socketVars, eventVars, listenerVars,
                   mainVars, seen, received>>

Send(s) ==
    /\ mpc = "up"
    /\ used["send"] < MaxSends
    /\ Use("send")
    /\ Enqueue(Outgoing(s))
    /\ UNCHANGED <<handler, sessionVars, socketVars, eventVars, listenerVars,
                   mainVars, seen, received>>

-----------------------------------------------------------------------------
(* The listener thread: AcceptIncomingConnections.                         *)
Accept ==
    /\ lpc = "accepting"
    /\ lsock
    /\ used["accept"] < MaxAccepted
    /\ Use("accept")
    /\ Enqueue(NewSession("accept"))
    /\ UNCHANGED <<handler, sessionVars, socketVars, eventVars, listenerVars,
                   mainVars, seen, received>>

(* A failing accept disconnects the socket; the loop then tests m_bQuit.     *)
AcceptFails ==
    /\ lpc = "accepting"
    /\ ~lsock \/ ListenerMayFail
    /\ lsock' = FALSE
    /\ lpc' = IF lquit THEN "ended" ELSE "accepting"
    /\ UNCHANGED <<callq, handler, sessionVars, socketVars, eventVars, lquit,
                   mainVars, seen, used, received>>

-----------------------------------------------------------------------------
(* The receiver thread of session s: ConnectAndReceive, then the marshaller. *)

(* Socket::Connect creates the socket ...                                  *)
ConnectBegin(s) ==
    /\ rpc[s] = "connect"
    /\ sock' = [sock EXCEPT ![s] = "connecting"]
    /\ rpc' = [rpc EXCEPT ![s] = "connecting"]
    /\ UNCHANGED <<callq, handler, sessionVars, remote, eventVars,
                   listenerVars, mainVars, seen, used, received>>

(* ... connects it (perhaps to see it closed by Stop at once) ...           *)
ConnectSucceeds(s) ==
    /\ rpc[s] = "connecting"
    /\ sock' = [sock EXCEPT ![s] = IF @ = "connecting" THEN "connected" ELSE @]
    /\ rpc' = [rpc EXCEPT ![s] = "receive"]
    /\ UNCHANGED <<callq, handler, sessionVars, remote, eventVars,
                   listenerVars, mainVars, seen, used, received>>

(* ... or fails: the session is told that it is disconnected.               *)
ConnectFails(s) ==
    /\ rpc[s] = "connecting"
    /\ sock[s] = "invalid" \/ ConnectMayFail
    /\ Disconnect(s)
    /\ rpc' = [rpc EXCEPT ![s] = "ending"]
    /\ Enqueue(Incoming(s, "DISCONNECT"))
    /\ UNCHANGED <<handler, sessionVars, remote, eventVars, listenerVars,
                   mainVars, seen, used, received>>

(* NetworkPacketMarshaller::Receive sets m_connectedEvent.                  *)
ReceiveBegin(s) ==
    /\ rpc[s] = "receive"
    /\ ready' = [ready EXCEPT ![s] = TRUE]
    /\ rpc' = [rpc EXCEPT ![s] = "reading"]
    /\ UNCHANGED <<callq, handler, sessionVars, sock, remote, login,
                   listenerVars, mainVars, seen, used, received>>

ReadData(s) ==
    /\ rpc[s] = "reading"
    /\ sock[s] = "connected"
    /\ remote[s] = "up"
    /\ received[s] < MaxData
    /\ received' = [received EXCEPT ![s] = @ + 1]
    /\ Enqueue(Incoming(s, "DATA"))
    /\ UNCHANGED <<handler, sessionVars, socketVars, eventVars, listenerVars,
                   mainVars, seen, used>>

(* After an orderly close by the other end recv returns 0 each time, which   *)
(* is no READ_ERROR: an empty vector of packets is delivered, and so on.     *)
ReadEof(s) ==
    /\ rpc[s] = "reading"
    /\ sock[s] = "connected"
    /\ remote[s] = "closed"
    /\ Len(callq) < MaxBacklog
    /\ Enqueue(Incoming(s, "EMPTY"))
    /\ UNCHANGED <<handler, sessionVars, socketVars, eventVars, listenerVars,
                   mainVars, seen, used, received>>

(* Faulty: the thread ends without a DISCONNECT packet.                     *)
ReadErrorSilent(s) ==
    /\ rpc[s] = "reading"
    /\ Disconnect(s)
    /\ rpc' = [rpc EXCEPT ![s] = "ending"]
    /\ UNCHANGED <<callq, handler, sessionVars, remote, eventVars,
                   listenerVars, mainVars, seen, used, received>>

(* READ_ERROR: this end was disconnected, or the connection was reset, be    *)
(* it after the other end has closed it.                                     *)
ReadError(s) ==
    /\ rpc[s] = "reading"
    /\ Disconnect(s)
    /\ rpc' = [rpc EXCEPT ![s] = "ending"]
    /\ Enqueue(Incoming(s, "DISCONNECT"))
    /\ UNCHANGED <<handler, sessionVars, remote, eventVars, listenerVars,
                   mainVars, seen, used, received>>

(* The thread's function returns after the last callback.                   *)
ReceiverEnds(s) ==
    /\ rpc[s] = "ending"
    /\ rpc' = [rpc EXCEPT ![s] = "ended"]
    /\ UNCHANGED <<callq, handler, sessionVars, sock, remote, eventVars,
                   listenerVars, mainVars, seen, used, received>>

(* External: the other end closes the connection in an orderly way.         *)
RemoteCloses(s) ==
    /\ sock[s] = "connected"
    /\ remote[s] = "up"
    /\ remote' = [remote EXCEPT ![s] = "closed"]
    /\ UNCHANGED <<callq, handler, sessionVars, sock, rpc, eventVars,
                   listenerVars, mainVars, seen, used, received>>

-----------------------------------------------------------------------------
(* The dispatch thread.                                                    *)
Calls(op) ==
    /\ mpc # "gone"
    /\ handler = Idle
    /\ callq # << >>
    /\ Head(callq).op = op

(* An accepted session only receives, an initiated one connects first.      *)
StartAs(how) == IF how = "accept" THEN "receive" ELSE "connect"

StartAt(how) == IF how = "accept" THEN "startAccept" ELSE "startConnect"

(* Faulty: the receiver is started before CONNECT is enqueued.              *)
CreateStarted(how) ==
    /\ Calls(how)
    /\ lock = "free"
    /\ LET s == seed + 1 IN
          /\ seed' = s
          /\ life' = [life EXCEPT ![s] = "live"]
          /\ sock' = [sock EXCEPT ![s] =
                          IF how = "accept" THEN "connected" ELSE @]
          /\ sessions' = Append(sessions, s)
          /\ handler' = [at |-> StartAt(how), s |-> s, rest |-> << >>]
          /\ rpc' = [rpc EXCEPT ![s] = StartAs(how)]
    /\ callq' = Tail(callq)
    /\ UNCHANGED <<remote, eventVars, listenerVars, mainVars, seen, used,
                   received>>

(* CreateSession up to Add: the session object exists, its thread does not.  *)
CreateSession(how) ==
    /\ Calls(how)
    /\ lock = "free"
    /\ LET s == seed + 1 IN
          /\ seed' = s
          /\ life' = [life EXCEPT ![s] = "live"]
          /\ sock' = [sock EXCEPT ![s] =
                          IF how = "accept" THEN "connected" ELSE @]
          /\ sessions' = Append(sessions, s)
          /\ handler' = [at |-> StartAt(how), s |-> s, rest |-> << >>]
    /\ callq' = Tail(callq)
    /\ UNCHANGED <<remote, rpc, eventVars, listenerVars, mainVars, seen, used,
                   received>>

(* The CONNECT pseudo-packet is enqueued, then the thread is started.        *)
StartSession(how) ==
    /\ mpc # "gone"
    /\ handler.at = StartAt(how)
    /\ Enqueue(Incoming(handler.s, "CONNECT"))
    /\ rpc' = [rpc EXCEPT ![handler.s] = StartAs(how)]
    /\ handler' = Idle
    /\ UNCHANGED <<sessionVars, sock, remote, eventVars, listenerVars,
                   mainVars, seen, used, received>>

Known(s) == \E i \in DOMAIN sessions : sessions[i] = s

(* HandleOutgoingPackets finds the sessions it sends to ...                 *)
Targets(to) ==
    IF to = Broadcast THEN sessions ELSE IF Known(to) THEN <<to>> ELSE << >>

SendingTo(rest) ==
    IF rest = << >> THEN Idle ELSE [at |-> "send", s |-> 0, rest |-> rest]

HandleOutgoingPackets ==
    /\ Calls("send")
    /\ lock = "free"
    /\ handler' = SendingTo(Targets(Head(callq).s))
    /\ callq' = Tail(callq)
    /\ UNCHANGED <<sessionVars, socketVars, eventVars, listenerVars, mainVars,
                   seen, used, received>>

(* ... and sends to each: the first Send of a session waits until it is      *)
(* connected.  A write that fails disconnects the socket.                   *)
SendToNext ==
    /\ mpc # "gone"
    /\ handler.at = "send"
    /\ LET s == Head(handler.rest) IN
          /\ login[s] \/ ready[s]
          /\ ready' = [ready EXCEPT ![s] = @ /\ login[s]]
          /\ login' = [login EXCEPT ![s] = TRUE]
          /\ \/ sock[s] = "connected" /\ UNCHANGED sock
             \/ Disconnect(s)
    /\ handler' = SendingTo(Tail(handler.rest))
    /\ UNCHANGED <<callq, sessionVars, remote, rpc, listenerVars, mainVars,
                   seen, used, received>>

Tell(s, packets) ==
    seen' = [seen EXCEPT ![s] =
                IF packets = "EMPTY" THEN @ ELSE Append(@, packets)]

(* HandleIncomingPackets of packets that end no session.                    *)
HandleIncomingPackets ==
    /\ Calls("receive")
    /\ LET s == Head(callq).s
           packets == Head(callq).packets
       IN  /\ packets = "DISCONNECT" => lock = "free" /\ ~Known(s)
           /\ Tell(s, packets)
    /\ callq' = Tail(callq)
    /\ UNCHANGED <<handler, sessionVars, socketVars, eventVars, listenerVars,
                   mainVars, used, received>>

(* StopAndDeleteSession: out of m_sessions, disconnected ...                *)
StopSession ==
    /\ Calls("receive")
    /\ Head(callq).packets = "DISCONNECT"
    /\ lock = "free"
    /\ LET s == Head(callq).s IN
          /\ \E i \in DOMAIN sessions :
                sessions[i] = s /\ sessions' = RemoveAt(sessions, i)
          /\ Disconnect(s)
          /\ handler' = [at |-> "join", s |-> s, rest |-> << >>]
    /\ callq' = Tail(callq)
    /\ UNCHANGED <<seed, life, remote, rpc, eventVars, listenerVars, mainVars,
                   seen, used, received>>

(* join() returns for a thread that ended, or that was never started.       *)
Joinable(s) == rpc[s] \in {"none", "ended"}

(* Faulty: the receiver thread is not joined.                               *)
DeleteUnjoined ==
    /\ mpc # "gone"
    /\ handler.at = "join"
    /\ life' = [life EXCEPT ![handler.s] = "deleted"]
    /\ Tell(handler.s, "DISCONNECT")
    /\ handler' = Idle
    /\ UNCHANGED <<callq, sessions, seed, socketVars, eventVars, listenerVars,
                   mainVars, used, received>>

(* ... joined, deleted, and the application is told.                        *)
DeleteSession ==
    /\ mpc # "gone"
    /\ handler.at = "join"
    /\ Joinable(handler.s)
    /\ life' = [life EXCEPT ![handler.s] = "deleted"]
    /\ Tell(handler.s, "DISCONNECT")
    /\ handler' = Idle
    /\ UNCHANGED <<callq, sessions, seed, socketVars, eventVars, listenerVars,
                   mainVars, used, received>>

(* The sentinel of WaitForPendingCalls.                                     *)
RunSignal ==
    /\ Calls("signal")
    /\ completed' = TRUE
    /\ callq' = Tail(callq)
    /\ UNCHANGED <<handler, sessionVars, socketVars, eventVars, listenerVars,
                   mpc, lock, stopping, late, seen, used, received>>

-----------------------------------------------------------------------------
(* The main thread: App::ShutdownNetwork calls Stop(false).                 *)

(* Faulty: the listener thread is not joined.                               *)
ListenerNotJoined ==
    /\ mpc = "up"
    /\ mpc' = "stopAll"
    /\ lquit' = (lquit \/ lsock)
    /\ lsock' = FALSE
    /\ UNCHANGED <<callq, handler, sessionVars, socketVars, eventVars, lpc,
                   lock, stopping, completed, late, seen, used, received>>

(* 1) Stop accepting new sessions: nothing is done for a closed listener ... *)
StopListener ==
    /\ mpc = "up"
    /\ mpc' = IF lsock THEN "joinListener" ELSE "stopAll"
    /\ lquit' = (lquit \/ lsock)
    /\ lsock' = FALSE
    /\ UNCHANGED <<callq, handler, sessionVars, socketVars, eventVars, lpc,
                   lock, stopping, completed, late, seen, used, received>>

(* ... else its thread is joined.                                          *)
JoinListener ==
    /\ mpc = "joinListener"
    /\ lpc = "ended"
    /\ mpc' = "stopAll"
    /\ UNCHANGED <<callq, handler, sessionVars, socketVars, eventVars,
                   listenerVars, lock, stopping, completed, late, seen, used,
                   received>>

(* A session is on its way that StopAll cannot stop: requested, not started, *)
(* or without a connection, whose m_connectedEvent may then never be set.    *)
BeingMade ==
    \/ \E i \in DOMAIN callq : callq[i].op \in {"connect", "accept"}
    \/ handler.at \in {"startConnect", "startAccept"}
    \/ \E s \in Sessions : rpc[s] \in {"connect", "connecting"}

(* 2) Stop existing sessions from receiving, holding m_sessionsMutex: ...    *)
StopAll ==
    /\ mpc = "stopAll"
    /\ lock' = "main"
    /\ stopping' = sessions
    /\ mpc' = "stopNext"
    /\ late' = BeingMade
    /\ UNCHANGED <<callq, handler, sessionVars, socketVars, eventVars,
                   listenerVars, completed, seen, used, received>>

(* Faulty: the session is joined without Disconnect.                        *)
JoinConnected ==
    /\ mpc = "stopNext"
    /\ stopping # << >>
    /\ mpc' = "joinSession"
    /\ UNCHANGED <<callq, handler, sessionVars, sock, remote, rpc, eventVars,
                   listenerVars, lock, stopping, completed, late, seen, used,
                   received>>

(* ... disconnect the next one ...                                         *)
StopNext ==
    /\ mpc = "stopNext"
    /\ stopping # << >>
    /\ Disconnect(Head(stopping))
    /\ mpc' = "joinSession"
    /\ UNCHANGED <<callq, handler, sessionVars, remote, rpc, eventVars,
                   listenerVars, lock, stopping, completed, late, seen, used,
                   received>>

(* ... and join its receiver thread.                                       *)
JoinSession ==
    /\ mpc = "joinSession"
    /\ Joinable(Head(stopping))
    /\ stopping' = Tail(stopping)
    /\ mpc' = "stopNext"
    /\ UNCHANGED <<callq, handler, sessionVars, socketVars, eventVars,
                   listenerVars, lock, completed, late, seen, used, received>>

AllStopped ==
    /\ mpc = "stopNext"
    /\ stopping = << >>
    /\ lock' = "free"
    /\ mpc' = "flush"
    /\ UNCHANGED <<callq, handler, sessionVars, socketVars, eventVars,
                   listenerVars, stopping, completed, late, seen, used,
                   received>>

(* Faulty: the calls still queued are not waited for.                       *)
FlushNothing ==
    /\ mpc = "flush"
    /\ mpc' = "stopped"
    /\ UNCHANGED <<callq, handler, sessionVars, socketVars, eventVars,
                   listenerVars, lock, stopping, completed, late, seen, used, received>>

(* 3) Wait until all queued calls have been dispatched: WaitForPendingCalls. *)
Flush ==
    /\ mpc = "flush"
    /\ Enqueue(Signal)
    /\ mpc' = "wait"
    /\ UNCHANGED <<handler, sessionVars, socketVars, eventVars, listenerVars,
                   lock, stopping, completed, late, seen, used, received>>

StopReturns ==
    /\ mpc = "wait"
    /\ completed
    /\ mpc' = "stopped"
    /\ UNCHANGED <<callq, handler, sessionVars, socketVars, eventVars,
                   listenerVars, lock, stopping, completed, late, seen, used,
                   received>>

(* ~PeerServerImpl deletes the listener and every session still listed.      *)
Destroy ==
    /\ mpc = "stopped"
    /\ life' = [s \in Sessions |-> IF Known(s) THEN "deleted" ELSE life[s]]
    /\ sessions' = << >>
    /\ mpc' = "gone"
    /\ UNCHANGED <<callq, handler, seed, socketVars, eventVars, listenerVars,
                   lock, stopping, completed, late, seen, used, received>>

-----------------------------------------------------------------------------
Dispatch ==
    \/ \E how \in {"connect", "accept"} :
          CreateSession(how) \/ StartSession(how)
    \/ HandleOutgoingPackets \/ SendToNext
    \/ HandleIncomingPackets \/ StopSession \/ DeleteSession
    \/ RunSignal

Receiver(s) ==
    \/ ConnectBegin(s) \/ ConnectSucceeds(s) \/ ConnectFails(s)
    \/ ReceiveBegin(s) \/ ReadData(s) \/ ReadEof(s) \/ ReadError(s)
    \/ ReceiverEnds(s)

(* Once Stop has been called, the main thread goes through it.              *)
Stop ==
    \/ JoinListener \/ StopAll \/ StopNext \/ JoinSession \/ AllStopped
    \/ Flush \/ StopReturns \/ Destroy

Next ==
    \/ Start \/ InitiateSession
    \/ \E s \in {Broadcast} \cup 1 .. seed : Send(s)
    \/ StopListener \/ Stop
    \/ Accept \/ AcceptFails
    \/ Dispatch
    \/ \E s \in Sessions : Receiver(s) \/ RemoteCloses(s)

Spec == Init /\ [][Next]_vars

(* Threads are scheduled, and blocking socket calls return once the socket   *)
(* is closed: connect() ends, accept() and recv() fail.                     *)
Fairness ==
    /\ WF_vars(Dispatch)
    /\ WF_vars(Stop)
    /\ WF_vars(AcceptFails /\ ~lsock)
    /\ \A s \in Sessions :
          /\ WF_vars(ConnectBegin(s))
          /\ WF_vars(ConnectSucceeds(s) \/ ConnectFails(s))
          /\ WF_vars(ReceiveBegin(s))
          /\ WF_vars(ReceiverEnds(s))
          /\ WF_vars(ReadError(s) /\ sock[s] = "invalid")

FairSpec == Spec /\ Fairness

-----------------------------------------------------------------------------
(* The application hears CONNECT first and once, and DISCONNECT last and     *)
(* once: GameLoop::HandlePeerLeft asserts that it knows who leaves.  The     *)
(* pseudo-packet is enqueued by the dispatch thread, the rest by a thread    *)
(* that it starts afterwards.                                              *)
PeerLifecycle ==
    \A s \in Sessions : \A i \in DOMAIN seen[s] :
        /\ (seen[s][i] = "CONNECT") = (i = 1)
        /\ seen[s][i] = "DISCONNECT" => i = Len(seen[s])

(* A session is deleted, by StopAndDeleteSession or by the destructor, only  *)
(* when its receiver thread, which uses its socket and marshaller, does not  *)
(* run, and when nothing is queued for it; but for a destructor whose Stop   *)
(* met a session that was being made (StopEndsThreads).                      *)
DeletedSessionsQuiet ==
    \A s \in Sessions : life[s] = "deleted" /\ ~(mpc = "gone" /\ late) =>
        /\ Joinable(s)
        /\ \A i \in DOMAIN callq : callq[i].op = "receive" => callq[i].s # s

(* The session pointers HandleOutgoingPackets copied from m_sessions stay    *)
(* valid while it sends: "safe because HandleOutgoingPackets and             *)
(* StopAndDeleteSession runs on the same thread".                           *)
SendTargetsLive ==
    \A i \in DOMAIN handler.rest : life[handler.rest[i]] = "live"

ThreadsEnded == lpc # "accepting" /\ \A s \in Sessions : Joinable(s)
CallsDispatched == callq = << >> /\ handler = Idle

(* When Stop returns, everything has stopped, provided no session was being  *)
(* made when it came to StopAll: what the destructor then relies on.        *)
CleanStop == mpc = "stopped" /\ ~late => ThreadsEnded /\ CallsDispatched

(* Stop returns, under the same condition: StopAll joins receivers while it  *)
(* holds m_sessionsMutex, which the dispatch thread needs to go on.         *)
StopTerminates == (mpc \notin {"down", "up"}) ~> (mpc = "gone" \/ late)

(* A session whose receiver gave up is removed and deleted, unless Stop came *)
(* at a bad moment.                                                        *)
EndedSessionsDeleted ==
    \A s \in Sessions : (rpc[s] = "ended") ~> (life[s] = "deleted" \/ late)

(* "All threads have been shut down on Stop" (~PeerServerImpl).              *)
StopEndsThreads == mpc = "stopped" => ThreadsEnded

(* "Wait until all queued calls have been dispatched" (Stop, step 3) ends:   *)
(* nothing but the dispatch thread can end it.                              *)
StopWaitEnds == (mpc = "wait") ~> (mpc = "stopped")

(* "Calling disconnect will cause the marshaller to stop"                    *)
(* (PeerServerSession::Stop): the receiver thread StopAll joins then ends.   *)
(* It need not when Disconnect comes before the socket exists; no            *)
(* configuration lists this one, see README.md.                              *)
DisconnectStopsReceiver == (mpc = "joinSession") ~> (mpc = "stopNext")
=============================================================================
