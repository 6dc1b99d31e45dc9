\* What holds whichever caller is cancelled, and when.
SPECIFICATION FairSpec
CONSTANTS
    Senders = {s1, s2}
    Cancellable = {s1, s2}
    Sessions = {c1, c2, c3, c4}
    NoSession = NoSession
    NoTask = NoTask
    MaxAbandoned = 2
INVARIANTS
    TypeOK
    ChannelFlagsAgree
    ExchangeOnInstalledSession
    CloseStopsTasks
PROPERTIES
    NoConnectAfterClosing
    SendTerminates
    EventRecovers
    UnloadCompletes
