\* What holds as long as no caller is cancelled inside async_send.
SPECIFICATION FairSpec
CONSTANTS
    Senders = {s1, s2, s3}
    Cancellable = {}
    Sessions = {c1, c2, c3}
    NoSession = NoSession
    NoTask = NoTask
    MaxAbandoned = 0
INVARIANTS
    OwnReply
    NoOrphanSession
    RecoveryArmed
PROPERTIES
    CommandRecovers
    ImplementsChannel
