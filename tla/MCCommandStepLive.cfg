CONSTANTS
    Daemons = {}
    Statuses = {0}
    MaxDirectives = 1
SPECIFICATION Spec
PROPERTIES
    SupervisorEnds
    TimeoutFails
