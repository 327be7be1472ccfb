SPECIFICATION Spec
CONSTANTS
    WaitLoops = 4
    MailboxSize = 3
    Timings <- MCTimings
PROPERTIES
    Flashes
