\* A Run of up to four events, two failures, one invalidation by the rest of the page.
SPECIFICATION Spec
CONSTANTS
    MaxEvents = 4
    MaxFailures = 2
    MaxRefetches = 1
CHECK_DEADLOCK FALSE
INVARIANTS
    DeliveredInOrder
PROPERTIES
    EndIsDelivered
    LoadedPageShowsOutcome
