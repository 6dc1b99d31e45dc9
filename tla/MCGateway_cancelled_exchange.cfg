\* A sender cancelled while it awaits its reply.
SPECIFICATION Spec
CONSTANTS
    Senders = {s1, s2}
    Cancellable = {s1}
    Sessions = {c1, c2}
    NoSession = NoSession
    NoTask = NoTask
    MaxAbandoned = 1
INVARIANTS
    OwnReply
