\* Three events in a row over connections that get lost.
SPECIFICATION Spec
CONSTANTS
    e1 = e1
    e2 = e2
    e3 = e3
    Event = {e1, e2, e3}
    NoEvent = NoEvent
    MaxConnections = 8
    MaxOutages = 3
INVARIANT
    ChannelOfConnection
PROPERTIES
    StaleConnectionSurvived
    ImplementsEventBus
    EventuallyEnds
\* All events published and no outage left.
CHECK_DEADLOCK FALSE
