\* nt37290_modes[] as shipped, panel revision before EVT1.
CONSTANTS
    NormalModes <- MC_NormalModes
    LpMode <- MC_LpMode
    NoMode = NoMode
    Unknown = Unknown
    PanelRevGeEvt1 = FALSE
    IdleDelayMs = 50
    MinVrefreshValues = {0, 10, 30, 60, 90, 120}
    TickSteps = {17, 34}
    AgeCap = 51
    TransportFaults = FALSE
SPECIFICATION Spec
INVARIANT IdleBelowTarget
