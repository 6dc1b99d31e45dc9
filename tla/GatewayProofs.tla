---------------------------- MODULE GatewayProofs ----------------------------
(***************************************************************************)
(* Proofs about Gateway for any set of senders, cancellable or not, and    *)
(* any set of session objects.                                             *)
(*                                                                         *)
(* The inductive invariant IndInv strengthens the safety invariants with   *)
(* who is inside the lock (LockInv), what a task inside it may rely on     *)
(* (ConnectInv, ExchangeInv) and what has already stopped at each stage of *)
(* the entry's life (SetupInv, ClosingInv).                                *)
(***************************************************************************)
EXTENDS Gateway, SequenceTheorems, TLAPS

SetupStates == {"new", "cmdConnect", "cmdFail", "evtConnect", "evtFail", "abort"}
CloseStates == {"joinRecovery", "joinEvent", "closeCmd", "closeEvt", "closed"}

\* The holder of the lock is the one task at an await inside it.
LockInv == \A t \in Tasks : pc[t] \in InLock <=> holder = t

\* A task that opens or drops a session does so while there is none installed.
ConnectInv ==
    \A t \in Tasks :
        /\ pc[t] \in {"connect", "connFail", "dropping"} => commandSession = NoSession
        /\ pc[t] = "connect" => sess[t] \in Sessions

\* Before the entry is loaded only the entry itself touches the sessions.
SetupInv ==
    /\ entry \in SetupStates =>
        /\ \A t \in Tasks : pc[t] = "idle"
        /\ eventLoop = "none" /\ ~eventSession
    /\ entry \in {"new", "cmdConnect", "cmdFail"} => commandSession = NoSession
    /\ entry = "cmdConnect" => sess[Entry] \in Sessions

\* async_close sets _closing and stops one thing after the other.
ClosingInv ==
    /\ closing <=> entry \in CloseStates
    /\ entry \in CloseStates \ {"joinRecovery"} => pc[Recovery] = "idle"
    /\ entry \in {"closeCmd", "closeEvt", "closed"} => eventLoop \in {"none", "done"}
    /\ entry \in {"closeEvt", "closed"} => ~eventConnected

IndInv ==
    /\ TypeOK
    /\ LockInv
    /\ ChannelFlagsAgree
    /\ ConnectInv
    /\ ExchangeOnInstalledSession
    /\ SetupInv
    /\ ClosingInv

\* Without cancelled senders the stream owes exactly the running exchange.
ReplyInv ==
    /\ \A s \in Senders : pc[s] = "exchange" => unread = <<s>>
    /\ (\A s \in Senders : pc[s] # "exchange") => unread = <<>>

----------------------------------------------------------------------------
(* Typing.                                                                 *)

\* The tasks are told apart by the assumptions on the constants.
LEMMA TaskFacts ==
    /\ Recovery \in Tasks /\ Senders \subseteq Tasks /\ Recovery \notin Senders
    /\ Entry \notin Tasks /\ NoTask \notin Tasks /\ NoSession \notin Sessions
  BY ConstantsAssumption DEF Tasks, Recovery, Entry

\* A waiter that leaves the queue leaves a queue of the others.
LEMMA RemoveAtType ==
    ASSUME NEW S, NEW q \in Seq(S), NEW i \in 1..Len(q)
    PROVE  RemoveAt(q, i) \in Seq(S)
<1>1. SubSeq(q, 1, i - 1) \in Seq(S)
  BY SubSeqProperties
<1>2. SubSeq(q, i + 1, Len(q)) \in Seq(S)
  BY SubSeqProperties
<1> QED
  BY <1>1, <1>2, ConcatProperties DEF RemoveAt

\* The empty queue has every type.
LEMMA EmptySeqType == ASSUME NEW S PROVE <<>> \in Seq(S)
  OBVIOUS

\* What Append, Head and Tail do to the type and the members of a queue.
LEMMA SeqFacts ==
    ASSUME NEW S, NEW q \in Seq(S), NEW x \in S
    PROVE  /\ <<x>> \in Seq(S) /\ Append(q, x) \in Seq(S)
           /\ q # <<>> => Tail(q) \in Seq(S)
  OBVIOUS

\* One group of steps at a time, and under it one variable at a time.
LEMMA TypeStep == TypeOK /\ [Next]_vars => TypeOK'
<1> SUFFICES ASSUME TypeOK, [Next]_vars
             PROVE  TypeOK'
  OBVIOUS
<1> DEFINE Held == [Tasks \union {Entry} -> Sessions \union {NoSession}]
<1>1. CASE SetupStep \/ Unload \/ CloseStep
  <2> USE <1>1, TaskFacts DEF TypeOK, SetupStep, Setup, SetupCommandConnected,
      SetupCommandFailed, SetupEventConnected, SetupEventFailed, SetupUndo,
      SetupAborted, Unload, CloseStep, RecoveryJoined, EventLoopJoined,
      CommandClosed, EventClosed, CloseChannels, CloseEventChannel, EntryGoes,
      BeginConnect, Fresh, Install, DetachCommand, DetachEvent, Closed,
      command, event, lock, wire
  <2>1. entry' \in EntryStates /\ closing' \in BOOLEAN
    BY DEF EntryStates
  <2>2. commandSession' \in Sessions \union {NoSession} /\ commandConnected' \in BOOLEAN
    OBVIOUS
  <2>3. eventSession' \in BOOLEAN /\ eventConnected' \in BOOLEAN
    OBVIOUS
  <2>4. eventLoop' \in LoopStates
    BY DEF LoopStates
  <2>5. sess' \in Held
    OBVIOUS
  <2>6. open' \subseteq Sessions
    OBVIOUS
  <2>7. UNCHANGED <<pc, holder, waiters, unread>>
    OBVIOUS
  <2> QED
    BY ONLY TypeOK, <2>1, <2>2, <2>3, <2>4, <2>5, <2>6, <2>7 DEF TypeOK
<1>2. ASSUME NEW s \in Senders, Send(s) \/ SendStep(s) \/ SendCancel(s)
      PROVE  TypeOK'
  <2> USE <1>2, TaskFacts DEF TypeOK, Send, SendStep, SendCancel,
      SendGranted, SendConnected, SendConnectFailed, SendConnectAborted,
      SendReply, SendFail, SendDropped, Body, BeginConnect, Fresh, WriteFrame,
      Install, DetachCommand, Closed, Leave, Granted, command, event, lock, wire
  <2>1. UNCHANGED <<entry, closing, eventSession, eventConnected, eventLoop>>
    OBVIOUS
  <2>2. commandSession' \in Sessions \union {NoSession} /\ commandConnected' \in BOOLEAN
    OBVIOUS
  <2>3. pc' \in [Tasks -> TaskStates]
    BY DEF TaskStates, StartRecovery
  <2>4. sess' \in Held
    OBVIOUS
  <2>5. holder' \in Tasks \union {NoTask}
    OBVIOUS
  <2>6. waiters' \in Seq(Tasks)
    <3>1. \/ waiters' = waiters \/ waiters' = Append(waiters, s)
          \/ waiters # <<>> /\ waiters' = Tail(waiters)
          \/ \E i \in 1..Len(waiters) : waiters' = RemoveAt(waiters, i)
      BY DEF LeaveQueue, LockFree
    <3>2. s \in Tasks /\ waiters \in Seq(Tasks)
      OBVIOUS
    <3> QED
      BY ONLY <3>1, <3>2, SeqFacts, RemoveAtType
  <2>7. unread' \in Seq(Senders)
    <3>1. \/ unread' \in {unread, Append(unread, s), <<s>>, <<>>}
          \/ unread # <<>> /\ unread' = Tail(unread)
      OBVIOUS
    <3>2. s \in Senders /\ unread \in Seq(Senders)
      OBVIOUS
    <3> QED
      BY ONLY <3>1, <3>2, SeqFacts, EmptySeqType
  <2>8. open' \subseteq Sessions
    OBVIOUS
  <2> QED
    BY ONLY TypeOK, <2>1, <2>2, <2>3, <2>4, <2>5, <2>6, <2>7, <2>8 DEF TypeOK
<1>3. CASE RecoveryStep
  <2> USE <1>3, TaskFacts DEF TypeOK, RecoveryStep, RecoveryWake,
      RecoveryGranted, RecoveryConnected, RecoveryConnectFailed,
      RecoveryConnectAborted, RecoveryCancelled, BeginConnect, Fresh, Install,
      Closed, Leave, Granted, command, event, lock, wire
  <2>1. UNCHANGED <<entry, closing, eventSession, eventConnected, eventLoop>>
    OBVIOUS
  <2>2. commandSession' \in Sessions \union {NoSession} /\ commandConnected' \in BOOLEAN
    OBVIOUS
  <2>3. pc' \in [Tasks -> TaskStates]
    BY DEF TaskStates
  <2>4. sess' \in Held
    OBVIOUS
  <2>5. holder' \in Tasks \union {NoTask}
    OBVIOUS
  <2>6. waiters' \in Seq(Tasks)
    <3>1. \/ waiters' = waiters \/ waiters' = Append(waiters, Recovery)
          \/ waiters # <<>> /\ waiters' = Tail(waiters)
          \/ \E i \in 1..Len(waiters) : waiters' = RemoveAt(waiters, i)
      BY DEF LeaveQueue, LockFree
    <3>2. Recovery \in Tasks /\ waiters \in Seq(Tasks)
      OBVIOUS
    <3> QED
      BY ONLY <3>1, <3>2, SeqFacts, RemoveAtType
  <2>7. unread' \in Seq(Senders)
    <3>1. unread' \in {unread, <<>>}
      OBVIOUS
    <3>2. unread \in Seq(Senders)
      OBVIOUS
    <3> QED
      BY ONLY <3>1, <3>2, EmptySeqType
  <2>8. open' \subseteq Sessions
    OBVIOUS
  <2> QED
    BY ONLY TypeOK, <2>1, <2>2, <2>3, <2>4, <2>5, <2>6, <2>7, <2>8 DEF TypeOK
<1>4. CASE EventLoopStep \/ EventStreamStep
  <2> USE <1>4, TaskFacts DEF TypeOK, EventLoopStep, EventStreamStep, EventStart,
      EventFrame, EventLost, EventDropped, EventWake, EventConnected,
      EventConnectFailed, EventConnectAborted, EventFinal, EventCancelled,
      EventGoes, EventFinally, DetachEvent, command, lock, wire
  <2>1. eventSession' \in BOOLEAN /\ eventConnected' \in BOOLEAN
    OBVIOUS
  <2>2. eventLoop' \in LoopStates
    BY DEF LoopStates
  <2>3. pc' \in [Tasks -> TaskStates]
    BY DEF TaskStates, StartRecovery
  <2>4. UNCHANGED <<entry, closing, commandSession, commandConnected, sess, holder,
                    waiters, unread, open>>
    OBVIOUS
  <2> QED
    BY ONLY TypeOK, <2>1, <2>2, <2>3, <2>4 DEF TypeOK
<1>5. CASE Terminated \/ UNCHANGED vars
  BY <1>5 DEF Terminated, vars, TypeOK, command, event, lock, wire
<1> QED
  BY <1>1, <1>2, <1>3, <1>4, <1>5 DEF Next

\* Before async_setup_entry every variable has its type.
LEMMA TypeInit == Init => TypeOK
<1>1. <<>> \in Seq(Tasks) /\ <<>> \in Seq(Senders)
  BY EmptySeqType
<1> QED
  BY <1>1, TaskFacts DEF Init, TypeOK, EntryStates, LoopStates, TaskStates

\* Every variable keeps its type, for any senders and session objects.
THEOREM TypeCorrect == Spec => []TypeOK
  BY TypeInit, TypeStep, PTL DEF Spec

----------------------------------------------------------------------------
(* The inductive invariant.                                                *)

\* The inductive invariant holds before async_setup_entry.
LEMMA IndInit == Init => IndInv
<1> SUFFICES ASSUME Init, TypeOK
             PROVE  IndInv
  BY TypeInit
<1> USE TaskFacts DEF Init, TypeOK
<1>1. LockInv
  BY DEF LockInv, InLock
<1>2. ChannelFlagsAgree
  BY DEF ChannelFlagsAgree
<1>3. ConnectInv /\ ExchangeOnInstalledSession
  BY DEF ConnectInv, ExchangeOnInstalledSession
<1>4. SetupInv /\ ClosingInv
  BY DEF SetupInv, ClosingInv, SetupStates, CloseStates
<1> QED
  BY <1>1, <1>2, <1>3, <1>4 DEF IndInv

\* Every step of every task preserves it: one group of steps at a time.
LEMMA IndStep == IndInv /\ [Next]_vars => IndInv'
<1> SUFFICES ASSUME IndInv, [Next]_vars
             PROVE  IndInv'
  OBVIOUS
<1>0. TypeOK'
  BY TypeStep DEF IndInv
<1>1. CASE SetupStep \/ Unload \/ CloseStep
  <2> USE <1>1, TaskFacts DEF IndInv, TypeOK, SetupStep, Setup,
      SetupCommandConnected, SetupCommandFailed, SetupEventConnected,
      SetupEventFailed, SetupUndo, SetupAborted, Unload, CloseStep,
      RecoveryJoined, EventLoopJoined, CommandClosed, EventClosed,
      CloseChannels, CloseEventChannel, EntryGoes, BeginConnect, Fresh,
      Install, DetachCommand, DetachEvent, Closed, command, event, lock, wire
  <2>1. LockInv'
    BY DEF LockInv
  <2>2. ChannelFlagsAgree'
    BY DEF ChannelFlagsAgree, SetupInv
  <2>3. ConnectInv'
    BY DEF ConnectInv, SetupInv, SetupStates
  <2>4. ExchangeOnInstalledSession'
    BY DEF ExchangeOnInstalledSession, SetupInv, SetupStates, ClosingInv, CloseStates
  <2>5. SetupInv'
    BY DEF SetupInv, SetupStates
  <2>6. ClosingInv'
    BY DEF ClosingInv, CloseStates, SetupInv, SetupStates, ChannelFlagsAgree
  <2> QED
    BY ONLY <1>0, <2>1, <2>2, <2>3, <2>4, <2>5, <2>6 DEF IndInv
<1>2. ASSUME NEW s \in Senders, Send(s) \/ SendStep(s) \/ SendCancel(s)
      PROVE  IndInv'
  <2> USE <1>2, TaskFacts DEF IndInv, TypeOK, Send, SendStep, SendCancel,
      SendGranted, SendConnected, SendConnectFailed, SendConnectAborted,
      SendReply, SendFail, SendDropped, Body, BeginConnect, Fresh, WriteFrame,
      Install, DetachCommand, Closed, Leave, Granted, LockFree, StartRecovery,
      command, event, lock, wire
  <2>1. LockInv'
    BY DEF LockInv, InLock
  <2>2. ChannelFlagsAgree'
    BY DEF ChannelFlagsAgree, ConnectInv
  <2>3. ConnectInv'
    BY DEF ConnectInv, LockInv, InLock
  <2>4. ExchangeOnInstalledSession'
    BY DEF ExchangeOnInstalledSession, LockInv, InLock
  <2>5. SetupInv'
    BY DEF SetupInv, SetupStates, InLock
  <2>6. ClosingInv'
    BY DEF ClosingInv, CloseStates
  <2> QED
    BY ONLY <1>0, <2>1, <2>2, <2>3, <2>4, <2>5, <2>6 DEF IndInv
<1>3. CASE RecoveryStep
  <2> USE <1>3, TaskFacts DEF IndInv, TypeOK, RecoveryStep, RecoveryWake,
      RecoveryGranted, RecoveryConnected, RecoveryConnectFailed,
      RecoveryConnectAborted, RecoveryCancelled, BeginConnect, Fresh, Install,
      Closed, Leave, Granted, LockFree, command, event, lock, wire
  <2>1. LockInv'
    BY DEF LockInv, InLock
  <2>2. ChannelFlagsAgree'
    BY DEF ChannelFlagsAgree, ConnectInv
  <2>3. ConnectInv'
    BY DEF ConnectInv, LockInv, InLock
  <2>4. ExchangeOnInstalledSession'
    BY DEF ExchangeOnInstalledSession, LockInv, InLock
  <2>5. SetupInv'
    BY DEF SetupInv, SetupStates, InLock
  <2>6. ClosingInv'
    BY DEF ClosingInv, CloseStates
  <2> QED
    BY ONLY <1>0, <2>1, <2>2, <2>3, <2>4, <2>5, <2>6 DEF IndInv
<1>4. CASE EventLoopStep \/ EventStreamStep
  <2> USE <1>4, TaskFacts DEF IndInv, TypeOK, EventLoopStep, EventStreamStep,
      EventStart, EventFrame, EventLost, EventDropped, EventWake, EventConnected,
      EventConnectFailed, EventConnectAborted, EventFinal, EventCancelled,
      EventGoes, EventFinally, DetachEvent, StartRecovery, command, lock, wire
  <2>1. LockInv'
    BY DEF LockInv, InLock
  <2>2. ChannelFlagsAgree'
    BY DEF ChannelFlagsAgree
  <2>3. ConnectInv'
    BY DEF ConnectInv
  <2>4. ExchangeOnInstalledSession'
    BY DEF ExchangeOnInstalledSession
  <2>5. SetupInv'
    BY DEF SetupInv, SetupStates, LoopStates
  <2>6. ClosingInv'
    BY DEF ClosingInv, CloseStates, LoopStates
  <2> QED
    BY ONLY <1>0, <2>1, <2>2, <2>3, <2>4, <2>5, <2>6 DEF IndInv
<1>5. CASE Terminated \/ UNCHANGED vars
  BY <1>5 DEF Terminated, vars, IndInv, TypeOK, LockInv, ChannelFlagsAgree,
     ConnectInv, ExchangeOnInstalledSession, SetupInv, ClosingInv, command,
     event, lock, wire
<1> QED
  BY <1>1, <1>2, <1>3, <1>4, <1>5 DEF Next

\* The inductive invariant, from which the safety theorems below follow: who is
\* inside _command_lock, which sessions the tasks hold at their awaits, and what
\* async_close has ended.
THEOREM Invariance == Spec => []IndInv
  BY IndInit, IndStep, PTL DEF Spec

----------------------------------------------------------------------------
(* What follows from the inductive invariant.                              *)

\* At every await the flags agree with the session objects.
THEOREM FlagsAgree == Spec => []ChannelFlagsAgree
  BY Invariance, PTL DEF IndInv

\* No session is replaced under a running exchange.
THEOREM ExchangeStable == Spec => []ExchangeOnInstalledSession
  BY Invariance, PTL DEF IndInv

\* When async_close has returned, the tasks the gateway owns are done.
THEOREM CloseIsFinal == Spec => []CloseStopsTasks
<1>1. IndInv => CloseStopsTasks
  BY DEF IndInv, ClosingInv, CloseStates, CloseStopsTasks
<1> QED
  BY <1>1, Invariance, PTL

\* Once _closing is set no task constructs another command session.
THEOREM NoLateConnect == Spec => NoConnectAfterClosing
<1>1. IndInv /\ [Next]_vars => [closing => open' \subseteq open]_vars
  <2> SUFFICES ASSUME IndInv, [Next]_vars, closing
               PROVE  open' \subseteq open
    BY DEF vars
  <2> USE TaskFacts DEF IndInv, ClosingInv, CloseStates, command, event, lock, wire
  <2>1. CASE SetupStep \/ Unload \/ CloseStep
    BY <2>1 DEF SetupStep, Setup, SetupCommandConnected, SetupCommandFailed,
       SetupEventConnected, SetupEventFailed, SetupUndo, SetupAborted, Unload,
       CloseStep, RecoveryJoined, EventLoopJoined, CommandClosed, EventClosed,
       EntryGoes, Closed
  <2>2. ASSUME NEW s \in Senders, Send(s) \/ SendStep(s) \/ SendCancel(s)
        PROVE  open' \subseteq open
    BY <2>2 DEF Send, SendStep, SendCancel, SendGranted, SendConnected,
       SendConnectFailed, SendConnectAborted, SendReply, SendFail, SendDropped,
       Closed
  <2>3. CASE RecoveryStep
    BY <2>3 DEF RecoveryStep, RecoveryWake, RecoveryGranted, Granted,
       RecoveryConnected, RecoveryConnectFailed, RecoveryConnectAborted,
       RecoveryCancelled, Closed
  <2>4. CASE EventLoopStep \/ EventStreamStep
    BY <2>4 DEF EventLoopStep, EventStreamStep, EventStart, EventFrame, EventLost,
       EventDropped, EventWake, EventConnected, EventConnectFailed,
       EventConnectAborted, EventFinal, EventCancelled, EventGoes
  <2>5. CASE Terminated \/ UNCHANGED vars
    BY <2>5 DEF Terminated, vars
  <2> QED
    BY <2>1, <2>2, <2>3, <2>4, <2>5 DEF Next
<1> QED
  BY <1>1, Invariance, PTL DEF Spec, NoConnectAfterClosing

----------------------------------------------------------------------------
(* Without cancelled callers: own replies, and the abstract channel.       *)

\* Without cancelled senders a step leaves the stream with the replies owed to
\* the running exchange and no other.
LEMMA ReplyStep ==
    ASSUME Cancellable = {}
    PROVE  IndInv /\ ReplyInv /\ [Next]_vars => ReplyInv'
<1> SUFFICES ASSUME IndInv, ReplyInv, [Next]_vars
             PROVE  ReplyInv'
  OBVIOUS
<1> USE TaskFacts DEF IndInv, TypeOK, ReplyInv, command, event, lock, wire
<1>1. CASE SetupStep \/ Unload \/ CloseStep
  BY <1>1 DEF SetupStep, Setup, SetupCommandConnected, SetupCommandFailed,
     SetupEventConnected, SetupEventFailed, SetupUndo, SetupAborted, Unload,
     CloseStep, RecoveryJoined, EventLoopJoined, CommandClosed, EventClosed,
     EntryGoes
<1>2. ASSUME NEW s \in Senders, Send(s) \/ SendStep(s) \/ SendCancel(s)
      PROVE  ReplyInv'
  <2>1. \A r \in Senders : pc[r] \in InLock <=> holder = r
    BY DEF LockInv
  <2>2. ASSUME holder = NoTask, Body(s) PROVE ReplyInv'
    <3>1. \A r \in Senders : pc[r] # "exchange"
      BY <2>1, <2>2 DEF InLock
    <3>2. Append(<<>>, s) = <<s>>
      OBVIOUS
    <3> QED
      BY <1>2, <2>2, <3>1, <3>2 DEF Body, BeginConnect, WriteFrame
  <2>3. CASE Send(s) \/ SendGranted(s)
    <3>1. CASE Body(s)
      BY <2>2, <2>3, <3>1 DEF Send, SendGranted, Granted, LockFree
    <3>2. CASE ~Body(s)
      <4>1. /\ unread' = unread
            /\ \E p \in {"lock", "idle"} : pc' = [pc EXCEPT ![s] = p]
            /\ pc[s] # "exchange"
        BY <2>3, <3>2 DEF Send, SendGranted, Granted
      <4> QED
        BY <4>1
    <3> QED
      BY <3>1, <3>2
  <2>4. CASE SendConnected(s) \/ SendConnectFailed(s) \/ SendConnectAborted(s)
    BY <2>1, <2>4 DEF SendConnected, SendConnectFailed, SendConnectAborted,
       StartRecovery, InLock
  <2>5. CASE SendReply(s) \/ SendFail(s) \/ SendDropped(s)
    BY <2>1, <2>5 DEF SendReply, SendFail, SendDropped, StartRecovery, InLock
  <2> QED
    BY <1>2, <2>3, <2>4, <2>5 DEF SendStep, SendCancel
<1>3. CASE RecoveryStep
  BY <1>3 DEF RecoveryStep, RecoveryWake, RecoveryGranted, RecoveryConnected,
     RecoveryConnectFailed, RecoveryConnectAborted, RecoveryCancelled, LockInv, InLock
<1>4. CASE EventLoopStep \/ EventStreamStep
  BY <1>4 DEF EventLoopStep, EventStreamStep, EventStart, EventFrame, EventLost,
     EventDropped, EventWake, EventConnected, EventConnectFailed,
     EventConnectAborted, EventFinal, EventCancelled, EventGoes, StartRecovery
<1>5. CASE Terminated \/ UNCHANGED vars
  BY <1>5 DEF Terminated, vars
<1> QED
  BY <1>1, <1>2, <1>3, <1>4, <1>5 DEF Next

\* So it does in every reachable state.
LEMMA ReplyInvariance ==
    ASSUME Cancellable = {}
    PROVE  Spec => []ReplyInv
<1>1. Init => ReplyInv
  BY TaskFacts DEF Init, ReplyInv
<1> QED
  BY <1>1, ReplyStep, Invariance, PTL DEF Spec

\* If no caller is ever cancelled, the next reply on the stream belongs to the
\* caller that reads it.
THEOREM RepliesAreOwn ==
    ASSUME Cancellable = {}
    PROVE  Spec => []OwnReply
<1>1. ReplyInv => OwnReply
  BY DEF ReplyInv, OwnReply
<1> QED
  BY <1>1, ReplyInvariance, PTL

\* The two mapped variables of CommandChannel that are not a variable here.
Current == IF holder \in Senders /\ pc[holder] = "exchange" THEN holder ELSE NoTask
Owed == {unread[i] : i \in DOMAIN unread}

Mapped ==
    /\ \A s \in Senders : pc[s] = "exchange" => Current = s /\ Owed = {s}
    /\ (\A s \in Senders : pc[s] # "exchange") => Current = NoTask /\ Owed = {}

\* The values the refinement mapping takes.
LEMMA MappedValues == IndInv /\ ReplyInv => Mapped
<1> SUFFICES ASSUME TypeOK, LockInv, ReplyInv
             PROVE  Mapped
  BY DEF IndInv
<1>1. ASSUME NEW s \in Senders, pc[s] = "exchange"
      PROVE  Current = s /\ Owed = {s}
  <2>1. holder = s /\ unread = <<s>>
    BY <1>1, TaskFacts DEF LockInv, InLock, ReplyInv
  <2> QED
    BY <1>1, <2>1 DEF Current, Owed
<1>2. ASSUME \A s \in Senders : pc[s] # "exchange"
      PROVE  Current = NoTask /\ Owed = {}
  BY <1>2 DEF Current, Owed, ReplyInv
<1> QED
  BY <1>1, <1>2 DEF Mapped

\* Each step of the gateway maps to a step of CommandChannel or to a stutter.
LEMMA RefineStep ==
    ASSUME Cancellable = {},
           IndInv, IndInv', ReplyInv, ReplyInv', [Next]_vars
    PROVE  [Channel!Next]_(Channel!channel)
<1> USE TaskFacts DEF IndInv, TypeOK, command, event, lock, wire
<1>0. Mapped /\ Mapped'
  BY MappedValues, PTL
<1>1. ASSUME commandConnected' = commandConnected,
             \A r \in Senders : pc[r] = "exchange" <=> pc'[r] = "exchange"
      PROVE  UNCHANGED Channel!channel
  BY <1>0, <1>1 DEF Mapped, Channel!channel, Current, Owed
<1>2. ASSUME NEW s \in Senders, commandConnected',
             \A r \in Senders : pc[r] # "exchange", pc'[s] = "exchange"
      PROVE  Channel!Next
  <2>1. Current = NoTask /\ Owed = {} /\ Current' = s /\ Owed' = {s}
    BY <1>0, <1>2 DEF Mapped
  <2> QED
    BY <1>2, <2>1 DEF Channel!Next, Channel!Begin, Current, Owed
<1>3. ASSUME NEW s \in Senders, pc[s] = "exchange",
             \A r \in Senders : pc'[r] # "exchange",
             commandConnected' \in {commandConnected, FALSE}
      PROVE  Channel!Next
  <2>1. Current = s /\ Owed = {s} /\ Current' = NoTask /\ Owed' = {}
    BY <1>0, <1>3 DEF Mapped
  <2> QED
    BY <1>3, <2>1 DEF Channel!Next, Channel!Reply, Channel!Fail, Current, Owed
<1>4. CASE SetupStep \/ Unload \/ CloseStep
  <2>1. UNCHANGED <<Current, Owed>>
    BY <1>4 DEF Current, Owed, SetupStep, Setup, SetupCommandConnected,
       SetupCommandFailed, SetupEventConnected, SetupEventFailed, SetupUndo,
       SetupAborted, Unload, CloseStep, RecoveryJoined, EventLoopJoined,
       CommandClosed, EventClosed, EntryGoes
  <2>2. CASE SetupCommandConnected
    <3>1. Current = NoTask
      BY <2>2, <1>0 DEF SetupCommandConnected, SetupInv, SetupStates, Mapped
    <3>2. ~commandConnected /\ commandConnected'
      BY <2>2 DEF SetupCommandConnected, Install, SetupInv, ChannelFlagsAgree
    <3> QED
      BY <2>1, <3>1, <3>2 DEF Channel!Next, Channel!Connect, Current, Owed
  <2>3. CASE ~SetupCommandConnected
    <3>1. commandConnected' \in {commandConnected, FALSE}
      BY <1>4, <2>3 DEF SetupStep, Setup, SetupCommandFailed, SetupEventConnected,
         SetupEventFailed, SetupUndo, SetupAborted, Unload, CloseStep,
         RecoveryJoined, EventLoopJoined, CommandClosed, EventClosed,
         CloseChannels, CloseEventChannel, EntryGoes, DetachCommand
    <3> QED
      BY <2>1, <3>1 DEF Channel!Next, Channel!Disconnect, Channel!channel, Current, Owed
  <2> QED
    BY <2>2, <2>3
<1>5. ASSUME NEW s \in Senders, Send(s) \/ SendStep(s) \/ SendCancel(s)
      PROVE  [Channel!Next]_(Channel!channel)
  <2>1. \A r \in Senders : pc[r] \in InLock <=> holder = r
    BY DEF LockInv
  <2>2. \A r \in Senders : r # s => (pc[r] = "exchange" <=> pc'[r] = "exchange")
    BY <1>5 DEF Send, SendStep, SendCancel, SendGranted, SendConnected,
       SendConnectFailed, SendConnectAborted, SendReply, SendFail, SendDropped,
       Body, StartRecovery
  <2>3. CASE pc'[s] = "exchange"
    <3>1. commandConnected' /\ pc[s] # "exchange"
      BY <1>5, <2>3 DEF Send, SendStep, SendCancel, SendGranted, Granted,
         SendConnected, SendConnectFailed, SendConnectAborted, SendReply,
         SendFail, SendDropped, Body, Install, StartRecovery, ChannelFlagsAgree
    <3>2. holder \in {NoTask, s}
      BY <1>5, <2>1, <2>3 DEF Send, SendStep, SendCancel, SendGranted, Granted,
         LockFree, SendConnected, SendConnectFailed, SendConnectAborted,
         SendReply, SendFail, SendDropped, InLock, StartRecovery
    <3>3. \A r \in Senders : pc[r] # "exchange"
      BY <2>1, <3>1, <3>2 DEF InLock
    <3> QED
      BY <1>2, <2>3, <3>1, <3>3
  <2>4. CASE pc'[s] # "exchange" /\ pc[s] = "exchange"
    <3>1. \A r \in Senders : pc'[r] # "exchange"
      BY <2>1, <2>2, <2>4 DEF InLock
    <3>2. commandConnected' \in {commandConnected, FALSE}
      BY <1>5, <2>4 DEF Send, SendStep, SendCancel, SendGranted, Granted,
         SendConnected, SendConnectFailed, SendConnectAborted, SendReply,
         SendFail, SendDropped, DetachCommand
    <3> QED
      BY <1>3, <2>4, <3>1, <3>2
  <2>5. CASE pc'[s] # "exchange" /\ pc[s] # "exchange"
    <3>1. commandConnected' = commandConnected
      BY <1>5, <2>5 DEF Send, SendStep, SendCancel, SendGranted, Granted,
         SendConnected, SendConnectFailed, SendConnectAborted, SendReply,
         SendFail, SendDropped, ConnectInv, ChannelFlagsAgree
    <3> QED
      BY <1>1, <2>2, <2>5, <3>1
  <2> QED
    BY <2>3, <2>4, <2>5
<1>6. CASE RecoveryStep
  <2>1. \A r \in Senders : pc[r] = "exchange" <=> pc'[r] = "exchange"
    BY <1>6 DEF RecoveryStep, RecoveryWake, RecoveryGranted, RecoveryConnected,
       RecoveryConnectFailed, RecoveryConnectAborted, RecoveryCancelled
  <2>2. CASE RecoveryConnected
    <3>1. ~commandConnected /\ commandConnected'
      BY <2>2 DEF RecoveryConnected, Install, ConnectInv, ChannelFlagsAgree
    <3>2. \A r \in Senders : pc[r] # "exchange"
      BY <2>2 DEF RecoveryConnected, LockInv, InLock
    <3>3. Current = NoTask /\ Owed = {} /\ Current' = NoTask /\ Owed' = {}
      BY <1>0, <2>1, <3>2 DEF Mapped
    <3> QED
      BY <3>1, <3>3 DEF Channel!Next, Channel!Connect, Current, Owed
  <2>3. CASE ~RecoveryConnected
    <3>1. commandConnected' = commandConnected
      BY <1>6, <2>3 DEF RecoveryStep, RecoveryWake, RecoveryGranted,
         RecoveryConnectFailed, RecoveryConnectAborted, RecoveryCancelled,
         ConnectInv, ChannelFlagsAgree
    <3> QED
      BY <1>1, <2>1, <3>1
  <2> QED
    BY <2>2, <2>3
<1>7. CASE EventLoopStep \/ EventStreamStep \/ Terminated \/ UNCHANGED vars
  <2>1. /\ commandConnected' = commandConnected
        /\ \A r \in Senders : pc[r] = "exchange" <=> pc'[r] = "exchange"
    BY <1>7 DEF EventLoopStep, EventStreamStep, EventStart, EventFrame, EventLost,
       EventDropped, EventWake, EventConnected, EventConnectFailed,
       EventConnectAborted, EventFinal, EventCancelled, EventGoes, StartRecovery,
       Terminated, vars
  <2> QED
    BY <1>1, <2>1
<1> QED
  BY <1>4, <1>5, <1>6, <1>7 DEF Next

\* If no caller is ever cancelled, the gateway is a CommandChannel: every step
\* of it is one of that specification's or leaves the mapped state alone.
THEOREM Refinement ==
    ASSUME Cancellable = {}
    PROVE  Spec => ImplementsChannel
<1>1. Init => Channel!Init
  BY TaskFacts DEF Init, Channel!Init
<1> QED
  BY <1>1, RefineStep, Invariance, ReplyInvariance, PTL
     DEF Spec, ImplementsChannel, Channel!Spec

----------------------------------------------------------------------------
(* No open connection is left behind, and a missing command session has a  *)
(* task that will look for another, when no sender is cancelled.           *)

\* A task that neither opens, uses nor drops a session holds none; async_connect holds
\* one while it opens one or takes one back, and has installed one when it goes on to the
\* event channel.
HandsInv ==
    /\ \A t \in Tasks : pc[t] \in {"idle", "start", "sleep", "lock"} => sess[t] = NoSession
    /\ entry \in {"new", "evtConnect", "evtFail", "loaded"} => sess[Entry] = NoSession
    /\ entry = "evtConnect" => commandSession # NoSession

\* NoOrphanSession and RecoveryArmed with what they rest on.
LastingInv == HandsInv /\ NoOrphanSession /\ RecoveryArmed

\* The steps of the entry.
LEMMA EntryLasting ==
  ASSUME IndInv, LastingInv, SetupStep \/ Unload \/ CloseStep
  PROVE  LastingInv'
<1> USE TaskFacts DEF IndInv, TypeOK, LastingInv, SetupStep, Setup,
    SetupCommandConnected, SetupCommandFailed, SetupEventConnected,
    SetupEventFailed, SetupUndo, SetupAborted, Unload, CloseStep,
    RecoveryJoined, EventLoopJoined, CommandClosed, EventClosed,
    CloseChannels, CloseEventChannel, EntryGoes, BeginConnect, Fresh,
    Install, DetachCommand, DetachEvent, Closed, command, event, lock, wire
<1>1. HandsInv'
  BY DEF HandsInv, SetupInv, SetupStates
<1>2. NoOrphanSession'
  BY DEF HandsInv, NoOrphanSession, SetupInv, SetupStates, ClosingInv, CloseStates
<1>3. RecoveryArmed'
  BY DEF HandsInv, RecoveryArmed, SetupInv, SetupStates, ClosingInv, CloseStates
<1> QED
  BY ONLY <1>1, <1>2, <1>3 DEF LastingInv

\* The steps of a sender that is not cancelled.
LEMMA SenderLasting ==
  ASSUME IndInv, LastingInv, NEW s \in Senders, Send(s) \/ SendStep(s)
  PROVE  LastingInv'
<1> USE TaskFacts DEF IndInv, TypeOK, LastingInv, Send, SendStep,
    SendGranted, SendConnected, SendConnectFailed, SendConnectAborted,
    SendReply, SendFail, SendDropped, Body, BeginConnect, Fresh, WriteFrame,
    Install, DetachCommand, Closed, Leave, Granted, LockFree, StartRecovery,
    command, event, lock, wire
<1>1. HandsInv'
  <2>1. \A t \in Tasks : pc'[t] \in {"idle", "start", "sleep", "lock"} => sess'[t] = NoSession
    <3>1. CASE Send(s) \/ SendGranted(s)
      BY <3>1 DEF HandsInv
    <3>2. CASE SendConnected(s) \/ SendConnectFailed(s) \/ SendReply(s)
      BY <3>2 DEF HandsInv
    <3>3. CASE SendConnectAborted(s)
      BY <3>3 DEF HandsInv
    <3>4. CASE SendFail(s) \/ SendDropped(s)
      BY <3>4 DEF HandsInv
    <3> QED
      BY <3>1, <3>2, <3>3, <3>4
  <2>2. UNCHANGED <<entry, sess[Entry]>>
    OBVIOUS
  <2>3. entry # "evtConnect"
    BY DEF SetupInv, SetupStates
  <2> QED
    BY ONLY <2>1, <2>2, <2>3, HandsInv DEF HandsInv
<1>2. NoOrphanSession'
  BY DEF HandsInv, NoOrphanSession, ConnectInv, ExchangeOnInstalledSession, ClosingInv
<1>3. RecoveryArmed'
  <2> USE DEF RecoveryArmed
  <2>1. CASE Send(s) \/ SendGranted(s)
    BY <2>1
  <2>2. CASE SendConnected(s)
    BY <2>2 DEF ConnectInv
  <2>3. CASE SendConnectFailed(s)
    BY <2>3
  <2>4. CASE SendReply(s)
    BY <2>4
  <2>5. CASE SendConnectAborted(s) \/ SendDropped(s)
    BY <2>5 DEF ClosingInv, CloseStates
  <2>6. CASE SendFail(s)
    BY <2>6 DEF ClosingInv, CloseStates
  <2> QED
    BY <2>1, <2>2, <2>3, <2>4, <2>5, <2>6
<1> QED
  BY ONLY <1>1, <1>2, <1>3 DEF LastingInv

\* Those of the reconnect loop.
LEMMA RecoveryLasting ==
  ASSUME IndInv, LastingInv, RecoveryStep
  PROVE  LastingInv'
<1> USE TaskFacts DEF IndInv, TypeOK, LastingInv, RecoveryStep, RecoveryWake,
    RecoveryGranted, RecoveryConnected, RecoveryConnectFailed,
    RecoveryConnectAborted, RecoveryCancelled, BeginConnect, Fresh, Install,
    Closed, Leave, Granted, LockFree, command, event, lock, wire
<1>1. HandsInv'
  <2>1. \A t \in Tasks : pc'[t] \in {"idle", "start", "sleep", "lock"} => sess'[t] = NoSession
    BY DEF HandsInv
  <2>2. UNCHANGED <<entry, sess[Entry]>>
    OBVIOUS
  <2>3. entry = "evtConnect" => commandSession' # NoSession
    BY DEF HandsInv, ConnectInv
  <2> QED
    BY ONLY <2>1, <2>2, <2>3, HandsInv DEF HandsInv
<1>2. NoOrphanSession'
  BY DEF HandsInv, NoOrphanSession, ConnectInv, ClosingInv, CloseStates
<1>3. RecoveryArmed'
  <2> USE DEF RecoveryArmed
  <2>1. CASE RecoveryWake \/ RecoveryGranted
    BY <2>1 DEF ClosingInv, CloseStates
  <2>2. CASE RecoveryConnected
    BY <2>2 DEF ConnectInv
  <2>3. CASE RecoveryConnectFailed \/ RecoveryConnectAborted
    BY <2>3
  <2>4. CASE RecoveryCancelled
    BY <2>4
  <2> QED
    BY <2>1, <2>2, <2>3, <2>4
<1> QED
  BY ONLY <1>1, <1>2, <1>3 DEF LastingInv

\* And those of the event loop, which starts a recovery that is missing.
LEMMA EventLasting ==
  ASSUME IndInv, LastingInv, EventLoopStep \/ EventStreamStep
  PROVE  LastingInv'
<1> USE TaskFacts DEF IndInv, TypeOK, LastingInv, EventLoopStep, EventStreamStep,
    EventStart, EventFrame, EventLost, EventDropped, EventWake, EventConnected,
    EventConnectFailed, EventConnectAborted, EventFinal, EventCancelled, EventGoes,
    EventFinally, DetachEvent, StartRecovery, command, event, lock, wire
<1>1. HandsInv'
  BY DEF HandsInv
<1>2. NoOrphanSession'
  BY DEF NoOrphanSession
<1>3. RecoveryArmed'
  BY DEF RecoveryArmed, ClosingInv, CloseStates
<1> QED
  BY ONLY <1>1, <1>2, <1>3 DEF LastingInv

\* Without cancelled senders every step keeps the invariant.
LEMMA LastingStep ==
  ASSUME Cancellable = {}
  PROVE  IndInv /\ LastingInv /\ [Next]_vars => LastingInv'
<1> SUFFICES ASSUME IndInv, LastingInv, [Next]_vars PROVE LastingInv'
  OBVIOUS
<1>1. \A s \in Senders : ~SendCancel(s)
  BY DEF SendCancel
<1>2. CASE Terminated \/ UNCHANGED vars
  BY <1>2 DEF Terminated, vars, command, event, lock, wire, LastingInv, HandsInv,
     NoOrphanSession, RecoveryArmed
<1> QED
  BY <1>1, <1>2, EntryLasting, SenderLasting, RecoveryLasting, EventLasting DEF Next

\* So it does in every reachable state.
LEMMA LastingInvariance ==
  ASSUME Cancellable = {}
  PROVE  Spec => []LastingInv
<1>1. Init => LastingInv
  BY TaskFacts DEF Init, LastingInv, HandsInv, NoOrphanSession, RecoveryArmed
<1> QED
  BY <1>1, LastingStep, Invariance, PTL DEF Spec

\* If no caller is ever cancelled, every command connection that is open before the entry
\* is unloaded is the installed one or held by the task that opens or closes it.
THEOREM NoConnectionLost ==
  ASSUME Cancellable = {}
  PROVE  Spec => []NoOrphanSession
<1>1. LastingInv => NoOrphanSession
  BY DEF LastingInv
<1> QED
  BY <1>1, LastingInvariance, PTL

\* If no caller is ever cancelled, a command channel that is down while the event channel
\* is up always has a task that will bring it back.
THEOREM RecoveryIsArmed ==
  ASSUME Cancellable = {}
  PROVE  Spec => []RecoveryArmed
<1>1. LastingInv => RecoveryArmed
  BY DEF LastingInv
<1> QED
  BY <1>1, LastingInvariance, PTL
=============================================================================
