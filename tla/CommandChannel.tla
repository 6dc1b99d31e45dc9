--------------------------- MODULE CommandChannel ---------------------------
(***************************************************************************)
(* What async_send promises its callers, whatever connects, fails and      *)
(* reconnects below it: one exchange at a time, each on a stream that owes *)
(* nothing to an earlier exchange; an exchange ends with the reply to its  *)
(* own frame, or with an error after which the old stream is never used    *)
(* again, so that no later caller can meet a late reply.                   *)
(***************************************************************************)
CONSTANTS Senders, NoTask

VARIABLES
    up,         \* a command session is installed
    current,    \* the sender whose exchange is running
    owed        \* the senders whose replies the stream still owes

channel == <<up, current, owed>>

Init == up = FALSE /\ current = NoTask /\ owed = {}

\* A session is installed with no frame written yet (setup, reconnect loop).
Connect ==
    /\ ~up /\ current = NoTask
    /\ up' = TRUE
    /\ UNCHANGED <<current, owed>>

\* A frame goes out, on the session there is or on one opened for it.
Begin(s) ==
    /\ current = NoTask /\ owed = {}
    /\ up' = TRUE /\ current' = s /\ owed' = {s}

Reply(s) ==
    /\ current = s /\ owed = {s}
    /\ current' = NoTask /\ owed' = {}
    /\ UNCHANGED up

Fail(s) ==
    /\ current = s
    /\ up' = FALSE /\ current' = NoTask /\ owed' = {}

\* The integration gives the session up (setup undone, entry unloaded); a
\* running exchange is not told.
Disconnect ==
    /\ up /\ up' = FALSE
    /\ UNCHANGED <<current, owed>>

Next ==
    \/ Connect \/ Disconnect
    \/ \E s \in Senders : Begin(s) \/ Reply(s) \/ Fail(s)

Spec == Init /\ [][Next]_channel
=============================================================================
