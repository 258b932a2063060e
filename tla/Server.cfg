SPECIFICATION Spec
CONSTANTS
    MaxFd = 4
    Backlog = 2
    MaxConns = 5
    Faults = {"abort", "thread", "fatal"}
INVARIANTS TypeOK OwnSocket NoSocketLeaks ThreadListBounded
PROPERTIES EveryClientServed
