\* nt37290_modes[] as shipped, panel revision EVT1 or later.
CONSTANTS
    NormalModes <- MC_NormalModes
    LpMode <- MC_LpMode
    NoMode = NoMode
    Unknown = Unknown
    PanelRevGeEvt1 = TRUE
    IdleDelayMs = 50
    MinVrefreshValues = {0, 10, 30, 60, 90, 120}
    TickSteps = {17, 34}
    AgeCap = 51
    TransportFaults = FALSE
SPECIFICATION Spec
INVARIANT CoherentOutsideLhbm
