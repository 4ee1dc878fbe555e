SPECIFICATION Spec
CONSTANTS
    Ticks <- MCTicks
    Events = {e1, e2}
    MaxEvents = 4
PROPERTIES TableSpec
