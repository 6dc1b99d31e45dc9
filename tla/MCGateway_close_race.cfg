\* async_close against a sender that is connecting.
SPECIFICATION Spec
CONSTANTS
    Senders = {s1, s2}
    Cancellable = {}
    Sessions = {c1, c2}
    NoSession = NoSession
    NoTask = NoTask
    MaxAbandoned = 0
INVARIANTS
    ClosedReleasesSession
