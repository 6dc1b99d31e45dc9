\* A sender cancelled while it closes the failed session.
SPECIFICATION FairSpec
CONSTANTS
    Senders = {s1, s2}
    Cancellable = {s1}
    Sessions = {c1, c2, c3}
    NoSession = NoSession
    NoTask = NoTask
    MaxAbandoned = 1
PROPERTIES
    CommandRecovers
