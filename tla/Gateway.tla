------------------------------ MODULE Gateway ------------------------------
(***************************************************************************)
(* gateway.py, class BticinoGateway: the local command and event sessions  *)
(* of one config entry and every asyncio task that touches them.           *)
(*                                                                         *)
(* The program is single-threaded asyncio: what runs between two awaits is *)
(* one step.  An action is the code from one await to the next, whichever  *)
(* methods it runs through; a program counter names the await at which a   *)
(* task is suspended.  The tasks are                                       *)
(*   - the config entry (setup, then async_close),                         *)
(*   - the senders: callers of async_send (entities, services, scans),     *)
(*   - the command reconnect loop, "recovery",                             *)
(*   - the event loop.                                                     *)
(* Frames, their dispatch to listeners and the lengths of the timers are   *)
(* abstracted; that a timer fires is kept.                                 *)
(***************************************************************************)
EXTENDS Integers, Sequences, SequencesExt

CONSTANTS
    Senders,        \* callers of async_send
    Cancellable,    \* those whose task may be cancelled (entity.py:83-86)
    Sessions,       \* OWNCommandSession objects
    NoSession,      \* the None of _command_session
    NoTask,         \* the lock has no holder
    MaxAbandoned    \* bound: replies left on the stream by cancelled senders

Recovery == "recovery"
Entry == "entry"
Tasks == Senders \union {Recovery}

ASSUME ConstantsAssumption ==
    /\ {Recovery, Entry} \intersect Senders = {}
    /\ Recovery # Entry
    /\ Cancellable \subseteq Senders
    /\ NoSession \notin Sessions
    /\ NoTask \notin Tasks
    /\ MaxAbandoned \in Nat

VARIABLES
    entry,              \* await of async_setup_entry / async_close
    closing,            \* _closing
    commandSession,     \* _command_session
    commandConnected,   \* _command_connected
    eventSession,       \* _event_session is not None
    eventConnected,     \* _event_connected
    eventLoop,          \* await of _event_loop
    pc,                 \* await of every other task
    sess,               \* the session each task holds in a local variable
    holder,             \* task inside _command_lock
    waiters,            \* FIFO of tasks waiting for _command_lock
    unread,             \* senders whose reply the stream still owes, oldest first
    open                \* command sessions constructed and not closed

command == <<commandSession, commandConnected>>
event   == <<eventSession, eventConnected, eventLoop>>
lock    == <<holder, waiters>>
wire    == <<unread, open>>
vars    == <<entry, closing, command, event, pc, sess, lock, wire>>

EntryStates == {"new", "cmdConnect", "cmdFail", "evtConnect", "evtFail", "abort",
                "loaded", "joinRecovery", "joinEvent", "closeCmd", "closeEvt",
                "closed"}
LoopStates  == {"none", "start", "read", "dropping", "sleep", "connect",
                "connFail", "finalClose", "done"}
TaskStates  == {"idle", "start", "sleep", "lock", "connect", "connFail",
                "exchange", "dropping"}

\* Awaits that lie inside "async with self._command_lock".
InLock == {"connect", "connFail", "exchange", "dropping"}

Init ==
    /\ entry = "new"
    /\ closing = FALSE
    /\ commandSession = NoSession /\ commandConnected = FALSE
    /\ eventSession = FALSE /\ eventConnected = FALSE /\ eventLoop = "none"
    /\ pc = [t \in Tasks |-> "idle"]
    /\ sess = [t \in Tasks \union {Entry} |-> NoSession]
    /\ holder = NoTask /\ waiters = <<>>
    /\ unread = <<>> /\ open = {}

----------------------------------------------------------------------------
(* Helpers shared by the handlers.                                         *)

\* Variant: without the test of _closing.
StartRecoveryUnlessDown(states, eventUp) ==
    IF ~eventUp \/ states[Recovery] # "idle"
    THEN states
    ELSE [states EXCEPT ![Recovery] = "start"]

\* _start_command_recovery, given the program counters its caller leaves and
\* whether the event channel is up.  The new task first runs at a later step.
StartRecovery(states, eventUp) ==
    IF closing \/ ~eventUp \/ states[Recovery] # "idle"
    THEN states
    ELSE [states EXCEPT ![Recovery] = "start"]

\* Session objects not in use: OWNCommandSession(...) constructs one of them.
Fresh == Sessions \ (open \union {commandSession})

\* The await of session.connect() in _connect_command_session.
BeginConnect(t) ==
    \E x \in Fresh :
        /\ sess' = [sess EXCEPT ![t] = x]
        /\ open' = open \union {x}

\* Variant: the result of connect() is stored for the session.
InstallResult(t) ==
    /\ commandSession' = TRUE
    /\ commandConnected' = TRUE

\* The tail of _connect_command_session: the session is installed.
Install(t) ==
    /\ commandSession' = sess[t]
    /\ commandConnected' = TRUE

\* Variant: the flag is left to the caller.
DetachCommandOnly ==
    /\ commandSession' = NoSession
    /\ UNCHANGED commandConnected

\* _close_command_session up to the await of _safe_close.
DetachCommand ==
    /\ commandSession' = NoSession
    /\ commandConnected' = FALSE

\* _close_event_session up to the await of _safe_close.
DetachEvent ==
    /\ eventSession' = FALSE
    /\ eventConnected' = FALSE

\* The await of _safe_close(session) is over.
Closed(t) ==
    /\ open' = open \ {sess[t]}
    /\ sess' = [sess EXCEPT ![t] = NoSession]

LockFree == holder = NoTask /\ waiters = <<>>

\* The lock is free and t is the oldest task waiting for it.
Granted(t) ==
    /\ pc[t] = "lock"
    /\ holder = NoTask
    /\ waiters # <<>> /\ Head(waiters) = t
    /\ waiters' = Tail(waiters)

\* A cancelled waiter leaves asyncio.Lock's queue.
LeaveQueue(t) ==
    \E i \in 1..Len(waiters) :
        waiters[i] = t /\ waiters' = RemoveAt(waiters, i)

----------------------------------------------------------------------------
(* The config entry: async_connect, then async_close.                      *)

\* async_setup_entry: async_connect starts with the command session.
Setup ==
    /\ entry = "new"
    /\ entry' = "cmdConnect"
    /\ BeginConnect(Entry)
    /\ UNCHANGED <<closing, command, event, pc, lock, unread>>

SetupCommandConnected ==
    /\ entry = "cmdConnect"
    /\ entry' = "evtConnect"
    /\ Install(Entry)
    /\ sess' = [sess EXCEPT ![Entry] = NoSession]
    /\ UNCHANGED <<closing, event, pc, lock, wire>>

EntryGoes(from, to) ==
    /\ entry = from /\ entry' = to
    /\ UNCHANGED <<closing, command, event, pc, sess, lock, wire>>

\* Timeout, refusal or error: the new session is closed, then the entry.
SetupCommandFailed == EntryGoes("cmdConnect", "cmdFail")
SetupEventFailed == EntryGoes("evtConnect", "evtFail")

SetupEventConnected ==
    /\ entry = "evtConnect"
    /\ entry' = "loaded"
    /\ eventSession' = TRUE /\ eventConnected' = TRUE
    /\ eventLoop' = "start"
    /\ UNCHANGED <<closing, command, pc, sess, lock, wire>>

\* async_connect's except clause: the command session is closed again.
SetupUndo ==
    /\ entry = "evtFail"
    /\ entry' = "abort"
    /\ sess' = [sess EXCEPT ![Entry] = commandSession]
    /\ DetachCommand
    /\ UNCHANGED <<closing, event, pc, lock, wire>>

\* The exception reaches async_setup_entry, whose async_close finds neither
\* task nor session and runs through without an await.
SetupAborted ==
    /\ entry \in {"cmdFail", "abort"}
    /\ entry' = "closed"
    /\ closing' = TRUE
    /\ Closed(Entry)
    /\ UNCHANGED <<command, event, pc, lock, unread>>

\* async_close from here on, up to its next await.
CloseEventChannel ==
    /\ DetachEvent
    /\ entry' = IF eventSession THEN "closeEvt" ELSE "closed"

CloseChannels ==
    /\ DetachCommand
    /\ IF commandSession # NoSession
       THEN /\ entry' = "closeCmd"
            /\ sess' = [sess EXCEPT ![Entry] = commandSession]
            /\ UNCHANGED <<eventSession, eventConnected>>
       ELSE CloseEventChannel /\ UNCHANGED sess

\* async_close (unload, or a failing platform setup) cancels the reconnect
\* loop and then the event loop, each only if it is not done, and awaits it.
Unload ==
    /\ entry = "loaded"
    /\ closing' = TRUE
    /\ entry' = IF pc[Recovery] # "idle" THEN "joinRecovery" ELSE "joinEvent"
    /\ UNCHANGED <<command, event, pc, sess, lock, wire>>

RecoveryJoined ==
    /\ entry = "joinRecovery" /\ pc[Recovery] = "idle"
    /\ IF eventLoop # "done"
       THEN /\ entry' = "joinEvent"
            /\ UNCHANGED <<command, event, sess>>
       ELSE CloseChannels /\ UNCHANGED eventLoop
    /\ UNCHANGED <<closing, pc, lock, wire>>

EventLoopJoined ==
    /\ entry = "joinEvent" /\ eventLoop = "done"
    /\ CloseChannels
    /\ UNCHANGED <<closing, eventLoop, pc, lock, wire>>

CommandClosed ==
    /\ entry = "closeCmd"
    /\ Closed(Entry)
    /\ CloseEventChannel
    /\ UNCHANGED <<closing, command, eventLoop, pc, lock, unread>>

EventClosed == EntryGoes("closeEvt", "closed")

----------------------------------------------------------------------------
(* async_send.                                                             *)

\* The frame goes out on session x: the stream owes one more reply.
WriteFrame(s, x) ==
    /\ sess' = [sess EXCEPT ![s] = x]
    /\ unread' = Append(unread, s)

\* The body of "async with self._command_lock", up to its first await.
Body(s) ==
    /\ holder' = s
    /\ IF commandSession = NoSession
       THEN /\ BeginConnect(s)
            /\ pc' = [pc EXCEPT ![s] = "connect"]
            /\ UNCHANGED unread
       ELSE /\ WriteFrame(s, commandSession)
            /\ pc' = [pc EXCEPT ![s] = "exchange"]
            /\ UNCHANGED open

\* async_send leaves the lock, by return or by exception.
Leave(s) ==
    /\ holder' = NoTask
    /\ UNCHANGED waiters

\* A frame is sent while the entry is loaded; a later call raises at once.
Send(s) ==
    /\ entry = "loaded" /\ pc[s] = "idle"
    /\ \/ /\ LockFree
          /\ Body(s)
          /\ UNCHANGED waiters
       \/ /\ ~LockFree
          /\ waiters' = Append(waiters, s)
          /\ pc' = [pc EXCEPT ![s] = "lock"]
          /\ UNCHANGED <<sess, holder, wire>>
    /\ UNCHANGED <<entry, closing, command, event>>

\* Variant: _closing is tested before the lock only.
SendGrantedUntested(s) ==
    /\ Granted(s)
    /\ Body(s)
    /\ UNCHANGED <<entry, closing, command, event>>

\* The lock is handed over: _closing is tested a second time.
SendGranted(s) ==
    /\ Granted(s)
    /\ IF closing
       THEN /\ pc' = [pc EXCEPT ![s] = "idle"]
            /\ UNCHANGED <<sess, holder, wire>>
       ELSE Body(s)
    /\ UNCHANGED <<entry, closing, command, event>>

\* The connection is up and the frame follows; _closing is not tested again.
SendConnected(s) ==
    /\ pc[s] = "connect"
    /\ Install(s)
    /\ unread' = <<s>>
    /\ pc' = [pc EXCEPT ![s] = "exchange"]
    /\ UNCHANGED <<entry, closing, event, sess, lock, open>>

SendConnectFailed(s) ==
    /\ pc[s] = "connect"
    /\ pc' = [pc EXCEPT ![s] = "connFail"]
    /\ UNCHANGED <<entry, closing, command, event, sess, lock, wire>>

\* The failed connection is closed; async_send starts the reconnect loop.
SendConnectAborted(s) ==
    /\ pc[s] = "connFail"
    /\ Closed(s)
    /\ commandConnected' = FALSE
    /\ pc' = StartRecovery([pc EXCEPT ![s] = "idle"], eventConnected)
    /\ Leave(s)
    /\ UNCHANGED <<entry, closing, commandSession, event, unread>>

\* ACK or NACK: the oldest reply the stream owes is taken for this sender's.
SendReply(s) ==
    /\ pc[s] = "exchange"
    /\ unread # <<>>
    /\ unread' = Tail(unread)
    /\ sess' = [sess EXCEPT ![s] = NoSession]
    /\ pc' = [pc EXCEPT ![s] = "idle"]
    /\ Leave(s)
    /\ UNCHANGED <<entry, closing, command, event, open>>

\* Variant: a timeout leaves the session in place.
SendFailKeepsSession(s) ==
    /\ pc[s] = "exchange"
    /\ sess' = [sess EXCEPT ![s] = NoSession]
    /\ pc' = [pc EXCEPT ![s] = "idle"]
    /\ Leave(s)
    /\ UNCHANGED <<entry, closing, command, event, wire>>

\* Timeout, lost connection or unexpected signalling: the session is dropped.
\* Nothing is awaited when async_close has already taken it.
SendFail(s) ==
    /\ pc[s] = "exchange"
    /\ DetachCommand
    /\ unread' = <<>>
    /\ sess' = [sess EXCEPT ![s] = commandSession]
    /\ IF commandSession # NoSession
       THEN /\ pc' = [pc EXCEPT ![s] = "dropping"]
            /\ UNCHANGED lock
       ELSE /\ pc' = StartRecovery([pc EXCEPT ![s] = "idle"], eventConnected)
            /\ Leave(s)
    /\ UNCHANGED <<entry, closing, event, open>>

\* Variant: the reconnect loop is not started.
SendDroppedOnly(s) ==
    /\ pc[s] = "dropping"
    /\ Closed(s)
    /\ pc' = [pc EXCEPT ![s] = "idle"]
    /\ Leave(s)
    /\ UNCHANGED <<entry, closing, command, event, unread>>

SendDropped(s) ==
    /\ pc[s] = "dropping"
    /\ Closed(s)
    /\ pc' = StartRecovery([pc EXCEPT ![s] = "idle"], eventConnected)
    /\ Leave(s)
    /\ UNCHANGED <<entry, closing, command, event, unread>>

\* Bounds on what cancelled tasks leave behind: MaxAbandoned unread replies, and
\* always one session object for the next connection.
WithinBounds(s) ==
    /\ pc[s] = "exchange" => Len(unread) <= MaxAbandoned
    /\ pc[s] \in {"connect", "connFail", "dropping"} => Fresh # {}

\* The task is cancelled at its await.  CancelledError passes every handler:
\* the session being opened or closed is abandoned, a reply stays unread and
\* the reconnect loop is not started.
SendCancel(s) ==
    /\ s \in Cancellable
    /\ WithinBounds(s)
    /\ \/ /\ pc[s] = "lock"
          /\ LeaveQueue(s)
          /\ UNCHANGED holder
       \/ /\ pc[s] \in InLock
          /\ Leave(s)
    /\ sess' = [sess EXCEPT ![s] = NoSession]
    /\ pc' = [pc EXCEPT ![s] = "idle"]
    /\ UNCHANGED <<entry, closing, command, event, wire>>

----------------------------------------------------------------------------
(* _command_reconnect_loop.                                                *)

\* Variant: the loop connects outside the lock.
RecoveryWakeUnlocked ==
    /\ pc[Recovery] \in {"start", "sleep"}
    /\ entry # "joinRecovery"
    /\ IF closing \/ ~eventConnected \/ commandSession # NoSession
       THEN /\ pc' = [pc EXCEPT ![Recovery] = "idle"]
            /\ UNCHANGED <<sess, open>>
       ELSE /\ BeginConnect(Recovery)
            /\ pc' = [pc EXCEPT ![Recovery] = "connect"]
    /\ UNCHANGED <<entry, closing, command, event, unread, lock>>

\* The loop's test, then the lock.
RecoveryWake ==
    /\ pc[Recovery] \in {"start", "sleep"}
    /\ entry # "joinRecovery"
    /\ IF closing \/ ~eventConnected \/ commandSession # NoSession
       THEN /\ pc' = [pc EXCEPT ![Recovery] = "idle"]
            /\ UNCHANGED <<sess, lock, open>>
       ELSE IF LockFree
       THEN /\ holder' = Recovery
            /\ BeginConnect(Recovery)
            /\ pc' = [pc EXCEPT ![Recovery] = "connect"]
            /\ UNCHANGED waiters
       ELSE /\ waiters' = Append(waiters, Recovery)
            /\ pc' = [pc EXCEPT ![Recovery] = "lock"]
            /\ UNCHANGED <<sess, holder, open>>
    /\ UNCHANGED <<entry, closing, command, event, unread>>

\* Variant: the session is not tested inside the lock.
RecoveryGrantedUntested ==
    /\ Granted(Recovery)
    /\ entry # "joinRecovery"
    /\ holder' = Recovery
    /\ BeginConnect(Recovery)
    /\ pc' = [pc EXCEPT ![Recovery] = "connect"]
    /\ UNCHANGED <<entry, closing, command, event, unread>>

\* Inside the lock only the session is tested again.
RecoveryGranted ==
    /\ Granted(Recovery)
    /\ entry # "joinRecovery"
    /\ IF commandSession = NoSession
       THEN /\ holder' = Recovery
            /\ BeginConnect(Recovery)
            /\ pc' = [pc EXCEPT ![Recovery] = "connect"]
       ELSE /\ pc' = [pc EXCEPT ![Recovery] = "idle"]
            /\ UNCHANGED <<sess, holder, open>>
    /\ UNCHANGED <<entry, closing, command, event, unread>>

RecoveryConnected ==
    /\ pc[Recovery] = "connect"
    /\ entry # "joinRecovery"
    /\ Install(Recovery)
    /\ unread' = <<>>
    /\ sess' = [sess EXCEPT ![Recovery] = NoSession]
    /\ pc' = [pc EXCEPT ![Recovery] = "idle"]
    /\ Leave(Recovery)
    /\ UNCHANGED <<entry, closing, event, open>>

RecoveryConnectFailed ==
    /\ pc[Recovery] = "connect"
    /\ entry # "joinRecovery"
    /\ pc' = [pc EXCEPT ![Recovery] = "connFail"]
    /\ UNCHANGED <<entry, closing, command, event, sess, lock, wire>>

\* Variant: the loop sleeps inside the lock.
RecoverySleepsInLock ==
    /\ pc[Recovery] = "connFail"
    /\ entry # "joinRecovery"
    /\ Closed(Recovery)
    /\ commandConnected' = FALSE
    /\ pc' = [pc EXCEPT ![Recovery] = "sleep"]
    /\ UNCHANGED <<entry, closing, commandSession, event, unread, lock>>

RecoveryConnectAborted ==
    /\ pc[Recovery] = "connFail"
    /\ entry # "joinRecovery"
    /\ Closed(Recovery)
    /\ commandConnected' = FALSE
    /\ pc' = [pc EXCEPT ![Recovery] = "sleep"]
    /\ Leave(Recovery)
    /\ UNCHANGED <<entry, closing, commandSession, event, unread>>

\* async_close has cancelled the loop: it ends at whatever it awaited.
RecoveryCancelled ==
    /\ entry = "joinRecovery" /\ pc[Recovery] # "idle"
    /\ \/ pc[Recovery] = "lock" /\ LeaveQueue(Recovery) /\ UNCHANGED holder
       \/ pc[Recovery] \in InLock /\ Leave(Recovery)
       \/ pc[Recovery] \in {"start", "sleep"} /\ UNCHANGED lock
    /\ sess' = [sess EXCEPT ![Recovery] = NoSession]
    /\ pc' = [pc EXCEPT ![Recovery] = "idle"]
    /\ UNCHANGED <<entry, closing, command, event, wire>>

----------------------------------------------------------------------------
(* _event_loop.  Once async_close has cancelled it (entry = "joinEvent")   *)
(* only EventCancelled and EventFinal remain.                              *)

EventStep == entry # "joinEvent"

EventGoes(from, to) ==
    /\ eventLoop = from /\ eventLoop' = to
    /\ UNCHANGED <<entry, closing, command, eventSession, eventConnected, pc,
                   sess, lock, wire>>

\* The finally clause, up to the await that closes the session.
EventFinally ==
    /\ DetachEvent
    /\ eventLoop' = IF eventSession THEN "finalClose" ELSE "done"

EventStart ==
    /\ eventLoop = "start" /\ EventStep
    /\ IF closing
       THEN EventFinally
       ELSE eventLoop' = "read" /\ UNCHANGED <<eventSession, eventConnected>>
    /\ UNCHANGED <<entry, closing, command, pc, sess, lock, wire>>

\* A frame arrives (its dispatch is abstracted); the loop ends when closing.
EventFrame ==
    /\ eventLoop = "read" /\ EventStep
    /\ closing
    /\ EventFinally
    /\ UNCHANGED <<entry, closing, command, pc, sess, lock, wire>>

\* The stream breaks or the worker fails: both handlers drop the session.
EventLost ==
    /\ eventLoop = "read" /\ EventStep
    /\ DetachEvent
    /\ eventLoop' = "dropping"
    /\ UNCHANGED <<entry, closing, command, pc, sess, lock, wire>>

EventDropped == EventStep /\ EventGoes("dropping", "sleep")
EventWake == EventStep /\ EventGoes("sleep", IF closing THEN "done" ELSE "connect")

\* Variant: a missing command session is left to the senders.
EventConnectedOnly ==
    /\ eventLoop = "connect" /\ EventStep
    /\ ~closing
    /\ eventLoop' = "read"
    /\ eventSession' = TRUE /\ eventConnected' = TRUE
    /\ UNCHANGED <<entry, closing, command, pc, sess, lock, wire>>

\* Connected: a missing command session starts the reconnect loop; the frame
\* loop begins unless async_close has meanwhile set _closing.
EventConnected ==
    /\ eventLoop = "connect" /\ EventStep
    /\ IF closing
       THEN /\ eventLoop' = "finalClose"
            /\ UNCHANGED <<eventSession, eventConnected, pc>>
       ELSE /\ eventLoop' = "read"
            /\ eventSession' = TRUE /\ eventConnected' = TRUE
            /\ pc' = IF commandSession = NoSession
                     THEN StartRecovery(pc, TRUE)
                     ELSE pc
    /\ UNCHANGED <<entry, closing, command, sess, lock, wire>>

EventConnectFailed == EventStep /\ EventGoes("connect", "connFail")

\* Variant: the worker ends with its first failed reconnection.
EventWorkerDies == EventStep /\ EventGoes("connFail", "done")

EventConnectAborted == EventStep /\ EventGoes("connFail", "sleep")

EventFinal == EventGoes("finalClose", "done")

\* Variant: CancelledError is handled as a lost connection.
EventCancelSwallowed ==
    /\ entry = "joinEvent"
    /\ eventLoop \in LoopStates \ {"finalClose", "none", "done"}
    /\ DetachEvent
    /\ eventLoop' = "sleep"
    /\ UNCHANGED <<entry, closing, command, pc, sess, lock, wire>>

\* CancelledError at the await: at a read the finally clause still closes the
\* session; before the first step of the task no code of it runs at all.
EventCancelled ==
    /\ entry = "joinEvent"
    /\ \/ eventLoop = "read" /\ EventFinally
       \/ /\ eventLoop \in LoopStates \ {"read", "finalClose", "none", "done"}
          /\ eventLoop' = "done"
          /\ UNCHANGED <<eventSession, eventConnected>>
    /\ UNCHANGED <<entry, closing, command, pc, sess, lock, wire>>

----------------------------------------------------------------------------
SetupStep ==
    \/ Setup \/ SetupCommandConnected \/ SetupCommandFailed
    \/ SetupEventConnected \/ SetupEventFailed \/ SetupUndo \/ SetupAborted

CloseStep ==
    RecoveryJoined \/ EventLoopJoined \/ CommandClosed \/ EventClosed

SendStep(s) ==
    \/ SendGranted(s)
    \/ SendConnected(s) \/ SendConnectFailed(s) \/ SendConnectAborted(s)
    \/ SendReply(s) \/ SendFail(s) \/ SendDropped(s)

RecoveryStep ==
    \/ RecoveryWake \/ RecoveryGranted
    \/ RecoveryConnected \/ RecoveryConnectFailed \/ RecoveryConnectAborted
    \/ RecoveryCancelled

\* What the gateway device does to the event stream.
EventStreamStep == EventFrame \/ EventLost

EventLoopStep ==
    \/ EventStart \/ EventDropped \/ EventWake
    \/ EventConnected \/ EventConnectFailed \/ EventConnectAborted
    \/ EventFinal \/ EventCancelled

\* The entry is unloaded and every caller has returned.
Terminated ==
    /\ entry = "closed"
    /\ \A t \in Tasks : pc[t] = "idle"
    /\ UNCHANGED vars

Next ==
    \/ SetupStep \/ Unload \/ CloseStep
    \/ \E s \in Senders : Send(s) \/ SendStep(s) \/ SendCancel(s)
    \/ RecoveryStep
    \/ EventLoopStep \/ EventStreamStep
    \/ Terminated

Spec == Init /\ [][Next]_vars

(* Fairness.  Every await of this code but the read of an event is bounded *)
(* by asyncio.timeout or asyncio.sleep, so a suspended task is resumed:    *)
(* weak fairness of each task's steps.  No call is ever forced (Setup,     *)
(* Send, Unload, cancellation) and no frame or loss of the event stream.   *)
(* NetworkRecovers says that a connection attempted again and again        *)
(* succeeds in the end; it is an assumption about the gateway device.      *)
TaskFairness ==
    /\ WF_vars(CloseStep)
    /\ \A s \in Senders : WF_vars(SendStep(s))
    /\ WF_vars(RecoveryStep)
    /\ WF_vars(EventLoopStep)

NetworkRecovers ==
    /\ SF_vars(RecoveryConnected)
    /\ SF_vars(EventConnected)

FairSpec == Spec /\ TaskFairness /\ NetworkRecovers

----------------------------------------------------------------------------
(* Properties.                                                             *)

TypeOK ==
    /\ entry \in EntryStates
    /\ closing \in BOOLEAN
    /\ commandSession \in Sessions \union {NoSession}
    /\ commandConnected \in BOOLEAN
    /\ eventSession \in BOOLEAN /\ eventConnected \in BOOLEAN
    /\ eventLoop \in LoopStates
    /\ pc \in [Tasks -> TaskStates]
    /\ sess \in [Tasks \union {Entry} -> Sessions \union {NoSession}]
    /\ holder \in Tasks \union {NoTask}
    /\ waiters \in Seq(Tasks)
    /\ unread \in Seq(Senders)
    /\ open \subseteq Sessions

\* The connection flags entities and diagnostics read agree with the session
\* objects async_send and the loops use, at every await of every task.
ChannelFlagsAgree ==
    /\ commandConnected <=> commandSession # NoSession
    /\ eventConnected <=> eventSession

\* A sender awaiting its reply uses the installed session, unless async_close
\* has taken it away: nobody replaces the session under a running exchange.
ExchangeOnInstalledSession ==
    \A s \in Senders : pc[s] = "exchange" =>
        \/ sess[s] = commandSession
        \/ closing /\ commandSession = NoSession

\* async_send returns the reply to its own frame: the next reply on the stream
\* belongs to the sender that reads it (discovery.py:270 relies on it).
OwnReply ==
    \A s \in Senders : pc[s] = "exchange" /\ unread # <<>> => Head(unread) = s

\* Until async_close runs, every command connection that is open is the
\* installed one or in the hands of the task that is opening or closing it.
NoOrphanSession ==
    ~closing => open \subseteq {commandSession} \union {sess[t] : t \in DOMAIN sess}

\* With the event channel up and no command session, some task is bound to
\* try again: the reconnect loop, or a sender that will start it.
RecoveryArmed ==
    entry = "loaded" /\ eventConnected /\ commandSession = NoSession =>
        \/ pc[Recovery] # "idle"
        \/ \E s \in Senders : pc[s] \in {"connect", "connFail", "dropping"}

\* When async_close has returned, no task it owns is left to run and the event
\* channel is gone, whatever the senders still do.
CloseStopsTasks ==
    entry = "closed" =>
        pc[Recovery] = "idle" /\ eventLoop \in {"none", "done"} /\ ~eventConnected

\* Once _closing is set nobody constructs another command session.
NoConnectAfterClosing == [][closing => open' \subseteq open]_vars

\* async_close leaves no installed command session and no "connected" flag
\* (tests/test_gateway.py:70-73 after async_close).
ClosedReleasesSession ==
    entry = "closed" => commandSession = NoSession /\ ~commandConnected

\* Every async_send returns or raises, whatever the gateway device does.
SendTerminates == \A s \in Senders : pc[s] # "idle" ~> pc[s] = "idle"

\* A lost command channel comes back while the event channel stays up.
CommandRecovers ==
    eventConnected /\ commandSession = NoSession
        ~> commandConnected \/ ~eventConnected \/ closing

\* A lost event channel comes back.
EventRecovers == entry = "loaded" /\ ~eventConnected ~> eventConnected \/ closing

\* async_close terminates at whatever point the other tasks are.
UnloadCompletes == closing ~> entry = "closed"

\* async_send keeps the promise of CommandChannel: at every step the sender
\* inside an exchange, the replies owed and the channel's state change the way
\* that specification allows.
Channel == INSTANCE CommandChannel WITH
    up <- commandConnected,
    current <- IF holder \in Senders /\ pc[holder] = "exchange" THEN holder ELSE NoTask,
    owed <- {unread[i] : i \in DOMAIN unread}

ImplementsChannel == Channel!Spec
=============================================================================
