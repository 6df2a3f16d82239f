CONSTANTS
    task = task
    any = any
    node = node
    EventTypes = {task, node}
    Any = any
    MaxConcurrentHandlers = 1
    BufferSize = 1
    MaxHandlers = 2
    MaxEvents = 2
SPECIFICATION Spec
INVARIANTS
    HandlersBounded
    FewAfterEnd
    StaysRegistered
    NothingLost
PROPERTIES
    EventsHandled
