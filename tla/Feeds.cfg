\* Two messages and two sockets of each feed.
SPECIFICATION FeedsSpec
CONSTANTS
    b1 = b1
    b2 = b2
    Sockets = {c1, c2}
    Broadcasts = {b1, b2}
    Levels <- Levels1
    Channels <- Channels1
    MinRole <- MinRole1
    ChannelOf <- ChannelOf1
    q1 = q1
    q2 = q2
    Requests <- Requests1
    Severity <- Severity1
    Cause <- Cause1
    Words <- Words1
    Configured = {"gpt"}
    Clients = {c1, c2}
    LogSize = 1
    Replay = 1
INVARIANTS
    MissesNobody
    OnceAndAllowed
    ActsOnRealOnes
    NothingMissed
PROPERTIES
    EveryBroadcastEnds
    PublishedIsAnswered
\* Every broadcast and analysis may be over and every socket closed.
CHECK_DEADLOCK FALSE
