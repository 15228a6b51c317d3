SPECIFICATION Spec
CONSTANTS
    feed = feed
    custom = custom
    Order <- MCOrder
    Default = {feed}
    Chat = {custom}
    Request = {r1}
    NoDoc = NoDoc
    MaxRevision = 2
    MaxFailures = 1
    MaxRestarts = 1
INVARIANTS
    ScheduleTypeOK
    SwitchedOffStops
PROPERTIES
    DuePatrolRuns
    EnabledIsPersisted
