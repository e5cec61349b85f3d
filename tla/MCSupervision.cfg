SPECIFICATION SupLiveSpec
CONSTANTS
    Backlog = 2
    Faults = {"network", "protocol", "bind", "pm", "ll", "hm"}
INVARIANTS
    SupTypeOK
    FaultIsNamed
    EndsAreAwaited
    ServesUntilFault
PROPERTIES
    ProcessEnds
