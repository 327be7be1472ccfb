SPECIFICATION Spec
CONSTANTS
    WaitLoops = 4
    MailboxSize = 3
    Timings <- MCTimings
INVARIANTS
    TypeOK
    NoMessageLost
    MessageIntact
    AtMostOneReplyBehind
PROPERTIES
    EveryStateShown
    BlinksIfPolledInTime
