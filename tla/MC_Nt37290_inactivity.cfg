\* The driver with the 120 Hz mode idling on inactivity, revision before EVT1.
CONSTANTS
    NormalModes <- MC_InactivityModes
    LpMode <- MC_LpMode
    NoMode = NoMode
    Unknown = Unknown
    PanelRevGeEvt1 = FALSE
    IdleDelayMs = 50
    MinVrefreshValues = {0, 10, 30, 60, 90, 120}
    TickSteps = {17, 34}
    AgeCap = 51
    TransportFaults = FALSE
SPECIFICATION Spec
INVARIANTS
    ShadowCoherent
    DesiredCommitted
PROPERTY
    EarlyExitDropsAuto
