CONSTANTS
    Endpoints = {p1, p2}
    Events = {e1, e2}
    Secrets = {"short"}
    Subscriptions = {{"*"}}
    MAX_QUEUE_DEPTH = 1
    MAX_CONCURRENT_DELIVERIES = 2
    MaxAttempts = 2
    Managed = {p1}
    MaxEdits = 1
SPECIFICATION Spec
INVARIANTS
    DeliveriesAreKept
PROPERTIES
    EventsResume
    EverythingSettles
CHECK_DEADLOCK FALSE
