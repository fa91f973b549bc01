------------------------------ MODULE Nt37290 ------------------------------
(***************************************************************************)
(* The refresh-rate / idle-mode engine of the BOE nt37290 panel driver     *)
(* (src/unnamed/part_000).                                                 *)
(*                                                                         *)
(* The driver keeps a software shadow of what it last committed to the     *)
(* panel (hw_feat, hw_vrefresh, hw_idle_vrefresh) and skips the register   *)
(* batch of nt37290_update_panel_feat whenever the wanted state equals the *)
(* shadow.  The model keeps, next to the driver's state, the panel's own   *)
(* registers that those batches write (variable panel), so that the        *)
(* shadow can be compared with what the panel really holds.                *)
(*                                                                         *)
(* Every driver handler runs under the panel's lock in the code, so each   *)
(* is one atomic action.  The callers in the common exynos panel driver    *)
(* (not part of this source) are modelled from the spec at their          *)
(* interface: they set ctx fields, call the handler, and stamp times.      *)
(* Time is kept as two saturating ages in milliseconds.                    *)
(***************************************************************************)
EXTENDS Integers, FiniteSets

CONSTANTS
    NormalModes,      \* the entries of nt37290_modes[] (records)
    LpMode,           \* nt37290_lp_mode, the AOD mode (a record)
    NoMode,           \* ctx->current_mode == NULL
    Unknown,          \* a register's content after reset, before any write
    PanelRevGeEvt1,   \* ctx->panel_rev >= PANEL_REV_EVT1
    IdleDelayMs,      \* ctx->idle_delay_ms
    MinVrefreshValues,\* values the sysfs writer may give ctx->min_vrefresh
    TickSteps,        \* amounts (ms) by which time may advance in one step
    AgeCap,           \* ages saturate at this value (ms)
    TransportFaults   \* a DSI send may fail part-way

IdleModes == {"IDLE_MODE_UNSUPPORTED", "IDLE_MODE_ON_INACTIVITY",
              "IDLE_MODE_ON_SELF_REFRESH"}

ModeRecords(rates, lp) ==
    [vrefresh : rates, idle_mode : IdleModes, is_lp_mode : {lp}]

ASSUME NormalModesAssumption ==
    /\ NormalModes # {}
    /\ NormalModes \subseteq ModeRecords({60, 120}, FALSE)

ASSUME LpModeAssumption ==
    LpMode \in [vrefresh : {30}, idle_mode : {"IDLE_MODE_UNSUPPORTED"},
                is_lp_mode : {TRUE}]

ASSUME NoModeAssumption == NoMode \notin NormalModes \cup {LpMode}

ASSUME ConstantsAssumption ==
    /\ PanelRevGeEvt1 \in BOOLEAN
    /\ IdleDelayMs \in Nat
    /\ MinVrefreshValues \subseteq Nat
    /\ TickSteps \subseteq Nat \ {0}
    /\ AgeCap \in Nat
    /\ TransportFaults \in BOOLEAN

(***************************************************************************)
(* Constants of the source.                                                *)
(***************************************************************************)
NT37290_TE2_MIN_RATE == 30
NT37290_TE2_CHANGEABLE == 2      \* 0x02
NT37290_TE2_FIXED == 34          \* 0x22
EARLY_EXIT_THRESHOLD_US == 17000
IDLE_DELAY_THRESHOLD_US == 50000

EarlyExit == "G10_FEAT_EARLY_EXIT"
FrameAuto == "G10_FEAT_FRAME_AUTO"
Features == {EarlyExit, FrameAuto}

(***************************************************************************)
(* Panel registers written by the driver.  0x2F takes FreqModeHs ("manual, *)
(* no frame skip"), FreqCtrlHs (frame skip on) or FpsGammaTiming (LHBM);   *)
(* 0x5A is "early exit disabled"; the 0xBA auto-frame-insertion payload at *)
(* offset 0x1C is the manual 60 Hz one or the auto one of an idle rate;    *)
(* 0x44 is the TE scanline (0: no shift, 1: 8.2 ms shift); 0xC3 the TE2    *)
(* option; 0x39/0x38 enter/exit AOD.                                       *)
(***************************************************************************)
FreqModeHs == 0        \* 0x2F 0x00
FreqCtrlHs == 48       \* 0x2F 0x30
FpsGammaTiming == 2    \* 0x2F 0x02
AutoRates == {10, 30, 60}
AfiManual(rate) == [auto |-> FALSE, rate |-> rate]
AfiAuto(rate) == [auto |-> TRUE, rate |-> rate]
AfiPayloads == {AfiManual(60)} \cup {AfiAuto(r) : r \in AutoRates}

PanelReset ==
    [r2F |-> Unknown, r5A |-> Unknown, rBA |-> Unknown, r44 |-> Unknown,
     rC3 |-> Unknown, aod |-> FALSE]

VARIABLES
    \* struct nt37290_panel
    feat, hw_feat, hw_vrefresh, hw_idle_vrefresh, auto_mode_vrefresh,
    delayed_idle,
    \* struct exynos_panel fields the driver reads or writes
    current_mode, panel_state, self_refresh_active, panel_idle_vrefresh,
    hbm_on, dimming_on, panel_idle_enabled, min_vrefresh, local_hbm_enabled,
    \* ages (ms) of ctx->last_commit_ts and ctx->last_mode_set_ts
    since_commit, since_mode_set,
    \* the panel's registers
    panel

driverVars == <<feat, hw_feat, hw_vrefresh, hw_idle_vrefresh,
                auto_mode_vrefresh, delayed_idle>>
ctxVars == <<current_mode, panel_state, self_refresh_active,
             panel_idle_vrefresh, hbm_on, dimming_on, panel_idle_enabled,
             min_vrefresh, local_hbm_enabled>>
vars == <<driverVars, ctxVars, since_commit, since_mode_set, panel>>

Ages == 0..AgeCap
PanelRegs ==
    [r2F : {FreqModeHs, FreqCtrlHs, FpsGammaTiming, Unknown},
     r5A : {0, 1, Unknown},
     rBA : AfiPayloads \cup {Unknown},
     r44 : {0, 1, Unknown},
     rC3 : {NT37290_TE2_CHANGEABLE, NT37290_TE2_FIXED, Unknown},
     aod : BOOLEAN]
IsPanelActive == panel_state \in {"NORMAL", "LP"}

TypeOK ==
    /\ feat \in SUBSET Features
    /\ hw_feat \in SUBSET Features
    /\ hw_vrefresh \in {30, 60, 120}
    /\ hw_idle_vrefresh \in {0} \cup AutoRates
    /\ auto_mode_vrefresh \in {0} \cup AutoRates
    /\ delayed_idle \in BOOLEAN
    /\ current_mode \in NormalModes \cup {LpMode, NoMode}
    /\ panel_state \in {"OFF", "NORMAL", "LP"}
    /\ self_refresh_active \in BOOLEAN
    /\ panel_idle_vrefresh \in {0} \cup AutoRates
    /\ hbm_on \in BOOLEAN
    /\ dimming_on \in BOOLEAN
    /\ panel_idle_enabled \in BOOLEAN
    /\ min_vrefresh \in MinVrefreshValues
    /\ local_hbm_enabled \in BOOLEAN
    /\ since_commit \in Ages
    /\ since_mode_set \in Ages
    /\ panel \in PanelRegs

(***************************************************************************)
(* nt37290_panel_probe: the shadow starts at 60 Hz, no idle, no feature;   *)
(* the panel is off and no mode has been set yet.                          *)
(***************************************************************************)
Init ==
    /\ feat = {}
    /\ hw_feat = {}
    /\ hw_vrefresh = 60
    /\ hw_idle_vrefresh = 0
    /\ auto_mode_vrefresh = 0
    /\ delayed_idle = FALSE
    /\ current_mode = NoMode
    /\ panel_state = "OFF"
    /\ self_refresh_active = FALSE
    /\ panel_idle_vrefresh = 0
    /\ hbm_on = FALSE
    /\ dimming_on = FALSE
    /\ panel_idle_enabled \in BOOLEAN
    /\ min_vrefresh \in MinVrefreshValues
    /\ local_hbm_enabled = FALSE
    /\ since_commit = 0
    /\ since_mode_set = 0
    /\ panel = PanelReset


(***************************************************************************)
(* is_auto_mode_allowed: no auto mode or early exit during HBM or dimming. *)
(***************************************************************************)
is_auto_mode_allowed == ~(hbm_on \/ dimming_on) /\ panel_idle_enabled

(* Mutant: the "120hz: no idle available" cap forgotten. *)
IdleTierUncapped(v) ==
    CASE v <= 10 -> 10
      [] v <= 30 -> 30
      [] v <= 60 -> 60
      [] OTHER   -> v

(* The idle tier a requested minimum refresh rate falls into; 0 above 60. *)
IdleTier(v) ==
    CASE v <= 10 -> 10
      [] v <= 30 -> 30
      [] v <= 60 -> 60
      [] OTHER   -> 0

(***************************************************************************)
(* nt37290_update_min_idle_vrefresh for mode pmode when the last mode set  *)
(* is age ms old: the new auto_mode_vrefresh and delayed_idle.             *)
(***************************************************************************)
update_min_idle_vrefresh(pmode, age) ==
    LET tier == IF \/ min_vrefresh = 0
                   \/ ~is_auto_mode_allowed
                   \/ pmode.idle_mode = "IDLE_MODE_UNSUPPORTED"
                THEN 0 ELSE IdleTier(min_vrefresh)
        idle == IF tier >= pmode.vrefresh THEN 0 ELSE tier
        delayed == idle # 0 /\ IdleDelayMs # 0 /\ age < IdleDelayMs
    IN  [idle |-> IF delayed THEN 0 ELSE idle, delayed |-> delayed]

(* The idle_active test of nt37290_change_frequency. *)
IdleActive(pmode, idle, sr) ==
    /\ idle # 0
    /\ \/ pmode.idle_mode = "IDLE_MODE_ON_INACTIVITY"
       \/ pmode.idle_mode = "IDLE_MODE_ON_SELF_REFRESH" /\ sr

(***************************************************************************)
(* The register batch of nt37290_update_panel_feat applied to registers p. *)
(* An unsupported rate makes the code warn and skip the 0xBA write only.   *)
(***************************************************************************)
AfiPayload(old, vrefresh, idle, f) ==
    IF FrameAuto \notin f
    THEN IF vrefresh = 60 THEN AfiManual(60) ELSE old
    ELSE IF idle \in AutoRates THEN AfiAuto(idle) ELSE old

(* Mutant: the early-exit register written with ee instead of !ee. *)
PanelFeatCmdsEePolarity(p, vrefresh, idle, f) ==
    IF vrefresh = 120 /\ FrameAuto \notin f
    THEN [p EXCEPT !.r2F = FreqModeHs, !.r44 = 0]
    ELSE [p EXCEPT !.r2F = FreqCtrlHs,
                   !.r5A = IF EarlyExit \in f THEN 1 ELSE 0,
                   !.rBA = AfiPayload(p.rBA, vrefresh, idle, f),
                   !.r44 = IF vrefresh = 120 THEN 0 ELSE 1]

PanelFeatCmds(p, vrefresh, idle, f) ==
    IF vrefresh = 120 /\ FrameAuto \notin f
    THEN [p EXCEPT !.r2F = FreqModeHs, !.r44 = 0]
    ELSE [p EXCEPT !.r2F = FreqCtrlHs,
                   !.r5A = IF EarlyExit \in f THEN 0 ELSE 1,
                   !.rBA = AfiPayload(p.rBA, vrefresh, idle, f),
                   !.r44 = IF vrefresh = 120 THEN 0 ELSE 1]

(***************************************************************************)
(* What the panel holds after the batch went out through the transport.   *)
(* The transport (spec sections 6-7) delivers a prefix of the batch and   *)
(* does not roll back, so with faults the registers are those after any   *)
(* prefix of the writes, in the code's order: 2Fh 00h, 2Fh 30h, 5Ah,      *)
(* 6Fh/BAh, 2Ch, 44h.  The return value of the send is ignored.           *)
(***************************************************************************)
FeatCmdsSent(p, vrefresh, idle, f) ==
    LET full == PanelFeatCmds(p, vrefresh, idle, f)
        hs == [p EXCEPT !.r2F = FreqModeHs]
    IN  IF vrefresh = 120 /\ FrameAuto \notin f
        THEN {p, hs, full}
        ELSE {p, hs, [hs EXCEPT !.r2F = FreqCtrlHs],
              [full EXCEPT !.rBA = p.rBA, !.r44 = p.r44],
              [full EXCEPT !.r44 = p.r44], full}

SendFeatCmds(p, vrefresh, idle, f) ==
    IF TransportFaults THEN FeatCmdsSent(p, vrefresh, idle, f)
    ELSE {PanelFeatCmds(p, vrefresh, idle, f)}

(* Mutant: the idle rate left out of the "no change" test. *)
FeatUnchangedNoIdle(vrefresh, idle, f) ==
    /\ f = hw_feat
    /\ vrefresh = hw_vrefresh

(* The "no change" test of nt37290_update_panel_feat. *)
FeatUnchanged(vrefresh, idle, f) ==
    /\ f = hw_feat
    /\ vrefresh = hw_vrefresh
    /\ idle = hw_idle_vrefresh

(***************************************************************************)
(* nt37290_update_panel_feat(vrefresh, enforce) with feat = f and          *)
(* auto_mode_vrefresh = idle, on registers p0: commit the shadow and send  *)
(* the batch, or leave both alone when nothing changed.                    *)
(***************************************************************************)
update_panel_feat(vrefresh, idle, f, enforce, p0) ==
    IF ~enforce /\ FeatUnchanged(vrefresh, idle, f)
    THEN /\ UNCHANGED <<hw_feat, hw_vrefresh, hw_idle_vrefresh>>
         /\ panel' = p0
    ELSE /\ hw_vrefresh' = vrefresh
         /\ hw_idle_vrefresh' = idle
         /\ hw_feat' = f
         /\ panel' \in SendFeatCmds(p0, vrefresh, idle, f)

(* Mutant: no enforced update when leaving AOD (was_lp_mode ignored). *)
ChangeFrequencyNoLpEnforce(pmode, sr, age, p0) ==
    LET r == update_min_idle_vrefresh(pmode, age)
        f == IF IdleActive(pmode, r.idle, sr) THEN Features ELSE {}
    IN  /\ auto_mode_vrefresh' = r.idle
        /\ delayed_idle' = r.delayed
        /\ feat' = f
        /\ update_panel_feat(pmode.vrefresh, r.idle, f, FALSE, p0)
        /\ panel_idle_vrefresh' = IF sr THEN hw_idle_vrefresh' ELSE 0

(* Mutant: the idle rate published whether or not self refresh is active. *)
ChangeFrequencyAlwaysPublish(pmode, sr, age, p0) ==
    LET r == update_min_idle_vrefresh(pmode, age)
        f == IF IdleActive(pmode, r.idle, sr) THEN Features ELSE {}
    IN  /\ auto_mode_vrefresh' = r.idle
        /\ delayed_idle' = r.delayed
        /\ feat' = f
        /\ update_panel_feat(pmode.vrefresh, r.idle, f,
                             current_mode.is_lp_mode, p0)
        /\ panel_idle_vrefresh' = hw_idle_vrefresh'

(***************************************************************************)
(* nt37290_change_frequency(pmode) with ctx->self_refresh_active = sr, the *)
(* last mode set age ms ago, on registers p0.  was_lp_mode is read from    *)
(* the current mode, which the caller replaces only afterwards.            *)
(***************************************************************************)
change_frequency(pmode, sr, age, p0) ==
    LET r == update_min_idle_vrefresh(pmode, age)
        f == IF IdleActive(pmode, r.idle, sr) THEN Features ELSE {}
    IN  /\ auto_mode_vrefresh' = r.idle
        /\ delayed_idle' = r.delayed
        /\ feat' = f
        /\ update_panel_feat(pmode.vrefresh, r.idle, f,
                             current_mode.is_lp_mode, p0)
        /\ panel_idle_vrefresh' = IF sr THEN hw_idle_vrefresh' ELSE 0

(***************************************************************************)
(* Self refresh enter/exit: the caller sets ctx->self_refresh_active, then *)
(* nt37290_set_self_refresh returns early in AOD, else re-runs             *)
(* change_frequency for the current mode.                                  *)
(***************************************************************************)
set_self_refresh(enable) ==
    /\ IsPanelActive
    /\ enable # self_refresh_active
    /\ self_refresh_active' = enable
    /\ \/ /\ current_mode.is_lp_mode
          /\ UNCHANGED <<driverVars, panel_idle_vrefresh, panel>>
       \/ /\ ~current_mode.is_lp_mode
          /\ change_frequency(current_mode, enable, since_mode_set, panel)
    /\ UNCHANGED <<current_mode, panel_state, hbm_on, dimming_on,
                   panel_idle_enabled, min_vrefresh, local_hbm_enabled,
                   since_commit, since_mode_set>>

(***************************************************************************)
(* Seamless mode set: nt37290_mode_set re-runs change_frequency when the   *)
(* panel is active; the caller then records the mode and its time.  Self   *)
(* refresh is exited before any commit, so it is off here.                 *)
(***************************************************************************)
mode_set(pmode) ==
    /\ panel_state \in {"OFF", "NORMAL"}
    /\ ~self_refresh_active
    /\ \/ /\ panel_state = "NORMAL"
          /\ change_frequency(pmode, self_refresh_active, since_mode_set, panel)
       \/ /\ panel_state = "OFF"
          /\ UNCHANGED <<driverVars, panel_idle_vrefresh, panel>>
    /\ current_mode' = pmode
    /\ since_mode_set' = 0
    /\ UNCHANGED <<panel_state, self_refresh_active, hbm_on, dimming_on,
                   panel_idle_enabled, min_vrefresh, local_hbm_enabled,
                   since_commit>>

(* Mutant: the mode-set stamp taken after change_frequency, not before. *)
TriggerEarlyExitLateStamp ==
    \/ /\ since_commit * 1000 < EARLY_EXIT_THRESHOLD_US
       /\ UNCHANGED <<driverVars, panel_idle_vrefresh, panel, since_mode_set>>
    \/ /\ since_commit * 1000 >= EARLY_EXIT_THRESHOLD_US
       /\ IdleDelayMs # 0 /\ since_commit * 1000 > IDLE_DELAY_THRESHOLD_US
       /\ since_mode_set' = 0
       /\ change_frequency(current_mode, self_refresh_active, since_mode_set,
                           panel)
    \/ /\ since_commit * 1000 >= EARLY_EXIT_THRESHOLD_US
       /\ ~(IdleDelayMs # 0 /\ since_commit * 1000 > IDLE_DELAY_THRESHOLD_US)
       /\ since_mode_set' = 0
       /\ UNCHANGED <<driverVars, panel_idle_vrefresh, panel>>

(***************************************************************************)
(* nt37290_trigger_early_exit, called with EarlyExit set: nothing within   *)
(* 17 ms of the last commit; else stamp a mode set (early exit switches to *)
(* 120 Hz) and, after a long idle with an idle delay configured, re-run    *)
(* change_frequency, otherwise send 2Ch (a frame start, no register).      *)
(***************************************************************************)
trigger_early_exit ==
    \/ /\ since_commit * 1000 < EARLY_EXIT_THRESHOLD_US
       /\ UNCHANGED <<driverVars, panel_idle_vrefresh, panel, since_mode_set>>
    \/ /\ since_commit * 1000 >= EARLY_EXIT_THRESHOLD_US
       /\ IdleDelayMs # 0 /\ since_commit * 1000 > IDLE_DELAY_THRESHOLD_US
       /\ since_mode_set' = 0
       /\ change_frequency(current_mode, self_refresh_active, 0, panel)
    \/ /\ since_commit * 1000 >= EARLY_EXIT_THRESHOLD_US
       /\ ~(IdleDelayMs # 0 /\ since_commit * 1000 > IDLE_DELAY_THRESHOLD_US)
       /\ since_mode_set' = 0
       /\ UNCHANGED <<driverVars, panel_idle_vrefresh, panel>>

(***************************************************************************)
(* nt37290_commit_done, then the caller stamps ctx->last_commit_ts.        *)
(***************************************************************************)
commit_done ==
    /\ IsPanelActive
    /\ ~self_refresh_active
    /\ \/ /\ EarlyExit \in feat
          /\ trigger_early_exit
       \/ /\ EarlyExit \notin feat
          /\ current_mode.idle_mode = "IDLE_MODE_ON_INACTIVITY"
          /\ delayed_idle
          /\ change_frequency(current_mode, self_refresh_active,
                              since_mode_set, panel)
          /\ UNCHANGED since_mode_set
       \/ /\ EarlyExit \notin feat
          /\ ~(current_mode.idle_mode = "IDLE_MODE_ON_INACTIVITY"
               /\ delayed_idle)
          /\ UNCHANGED <<driverVars, panel_idle_vrefresh, panel,
                         since_mode_set>>
    /\ since_commit' = 0
    /\ UNCHANGED <<current_mode, panel_state, self_refresh_active, hbm_on,
                   dimming_on, panel_idle_enabled, min_vrefresh,
                   local_hbm_enabled>>

(***************************************************************************)
(* nt37290_set_nolp_mode(pmode), leaving AOD: 38h, then change_frequency   *)
(* (enforced, since the current mode is still the AOD one), then 2Ch twice *)
(* and display on; the caller then makes pmode current.                    *)
(***************************************************************************)
set_nolp_mode(pmode) ==
    /\ panel_state = "LP"
    /\ ~self_refresh_active
    /\ change_frequency(pmode, self_refresh_active, since_mode_set,
                        [panel EXCEPT !.aod = FALSE])
    /\ current_mode' = pmode
    /\ panel_state' = "NORMAL"
    /\ UNCHANGED <<self_refresh_active, hbm_on, dimming_on,
                   panel_idle_enabled, min_vrefresh, local_hbm_enabled,
                   since_commit, since_mode_set>>

(* nt37290_lp_cmds: enter AOD (39h), manual mode without frame skip. *)
LpCmds(p) == [p EXCEPT !.aod = TRUE, !.r2F = FreqModeHs]

(***************************************************************************)
(* exynos_panel_set_lp_mode, entering AOD from normal operation: sends     *)
(* nt37290_lp_cmds and makes the AOD mode current.                         *)
(***************************************************************************)
set_lp_mode ==
    /\ panel_state = "NORMAL"
    /\ ~self_refresh_active
    /\ panel' = LpCmds(panel)
    /\ current_mode' = LpMode
    /\ panel_state' = "LP"
    /\ UNCHANGED <<driverVars, self_refresh_active, panel_idle_vrefresh,
                   hbm_on, dimming_on, panel_idle_enabled, min_vrefresh,
                   local_hbm_enabled, since_commit, since_mode_set>>

(***************************************************************************)
(* nt37290_enable: reset, init commands (which write 5Ah 01h), enforced    *)
(* update_panel_feat for the current mode with the current feat and        *)
(* auto_mode_vrefresh, then display on or the AOD commands.                *)
(***************************************************************************)
enable ==
    /\ panel_state = "OFF"
    /\ current_mode # NoMode
    /\ \E p \in SendFeatCmds([PanelReset EXCEPT !.r5A = 1],
                              current_mode.vrefresh, auto_mode_vrefresh, feat) :
           \/ /\ ~current_mode.is_lp_mode
              /\ panel' = p
              /\ panel_state' = "NORMAL"
           \/ /\ current_mode.is_lp_mode
              /\ panel' = LpCmds(p)
              /\ panel_state' = "LP"
    /\ hw_vrefresh' = current_mode.vrefresh
    /\ hw_idle_vrefresh' = auto_mode_vrefresh
    /\ hw_feat' = feat
    /\ panel_idle_vrefresh' = 0
    /\ UNCHANGED <<feat, auto_mode_vrefresh, delayed_idle, current_mode,
                   self_refresh_active, hbm_on, dimming_on,
                   panel_idle_enabled, min_vrefresh, local_hbm_enabled,
                   since_commit, since_mode_set>>

(***************************************************************************)
(* nt37290_disable: the shadow is reset to the panel's power-on state and  *)
(* the panel is switched off (its registers are lost).                     *)
(***************************************************************************)
disable ==
    /\ IsPanelActive
    /\ ~self_refresh_active
    /\ hw_feat' = {}
    /\ hw_vrefresh' = 60
    /\ hw_idle_vrefresh' = 0
    /\ panel' = PanelReset
    /\ panel_state' = "OFF"
    /\ UNCHANGED <<feat, auto_mode_vrefresh, delayed_idle, current_mode,
                   self_refresh_active, panel_idle_vrefresh, hbm_on,
                   dimming_on, panel_idle_enabled, min_vrefresh,
                   local_hbm_enabled, since_commit, since_mode_set>>

(***************************************************************************)
(* nt37290_set_local_hbm_mode(en): a no-op when already in that state; on  *)
(* EVT1 and later the on sequence writes 2Fh 02h and the off one 2Fh 00h,  *)
(* earlier revisions use 87h and leave 2Fh alone.                          *)
(***************************************************************************)
set_local_hbm_mode(en) ==
    /\ panel_state = "NORMAL"
    /\ ~self_refresh_active
    /\ en # local_hbm_enabled
    /\ local_hbm_enabled' = en
    /\ panel' = IF PanelRevGeEvt1
                THEN [panel EXCEPT !.r2F = IF en THEN FpsGammaTiming
                                                 ELSE FreqModeHs]
                ELSE panel
    /\ UNCHANGED <<driverVars, current_mode, panel_state,
                   self_refresh_active, panel_idle_vrefresh, hbm_on,
                   dimming_on, panel_idle_enabled, min_vrefresh,
                   since_commit, since_mode_set>>

(* nt37290_get_te2_option *)
get_te2_option ==
    IF \/ current_mode.is_lp_mode
       \/ hw_idle_vrefresh > 0 /\ hw_idle_vrefresh < NT37290_TE2_MIN_RATE
    THEN NT37290_TE2_FIXED
    ELSE NT37290_TE2_CHANGEABLE

(***************************************************************************)
(* nt37290_update_te2 when the timing source answers or is not ready (the  *)
(* edges are 0/48 either way); on any other error it writes nothing,       *)
(* which is a stuttering step.                                             *)
(***************************************************************************)
update_te2 ==
    /\ IsPanelActive
    /\ panel' = [panel EXCEPT !.rC3 = get_te2_option]
    /\ UNCHANGED <<driverVars, ctxVars, since_commit, since_mode_set>>

(***************************************************************************)
(* Inputs the rest of the driver gives: the sysfs minimum refresh rate,    *)
(* HBM, dimming and the panel-idle switch.  They take effect at the next   *)
(* change_frequency.                                                       *)
(***************************************************************************)
SetMinVrefresh(v) ==
    /\ min_vrefresh' = v
    /\ UNCHANGED <<driverVars, current_mode, panel_state, self_refresh_active,
                   panel_idle_vrefresh, hbm_on, dimming_on,
                   panel_idle_enabled, local_hbm_enabled, since_commit,
                   since_mode_set, panel>>

SetHbm(b) ==
    /\ hbm_on' = b
    /\ UNCHANGED <<driverVars, current_mode, panel_state, self_refresh_active,
                   panel_idle_vrefresh, dimming_on, panel_idle_enabled,
                   min_vrefresh, local_hbm_enabled, since_commit,
                   since_mode_set, panel>>

SetDimming(b) ==
    /\ dimming_on' = b
    /\ UNCHANGED <<driverVars, current_mode, panel_state, self_refresh_active,
                   panel_idle_vrefresh, hbm_on, panel_idle_enabled,
                   min_vrefresh, local_hbm_enabled, since_commit,
                   since_mode_set, panel>>

SetPanelIdleEnabled(b) ==
    /\ panel_idle_enabled' = b
    /\ UNCHANGED <<driverVars, current_mode, panel_state, self_refresh_active,
                   panel_idle_vrefresh, hbm_on, dimming_on, min_vrefresh,
                   local_hbm_enabled, since_commit, since_mode_set, panel>>

(* Time passes: both ages grow by d ms, saturating at AgeCap. *)
Tick(d) ==
    /\ since_commit' = IF since_commit + d > AgeCap THEN AgeCap
                       ELSE since_commit + d
    /\ since_mode_set' = IF since_mode_set + d > AgeCap THEN AgeCap
                         ELSE since_mode_set + d
    /\ UNCHANGED <<driverVars, ctxVars, panel>>

Next ==
    \/ \E b \in BOOLEAN : set_self_refresh(b)
    \/ \E m \in NormalModes : mode_set(m)
    \/ commit_done
    \/ \E m \in NormalModes : set_nolp_mode(m)
    \/ set_lp_mode
    \/ enable
    \/ disable
    \/ \E b \in BOOLEAN : set_local_hbm_mode(b)
    \/ update_te2
    \/ \E v \in MinVrefreshValues : SetMinVrefresh(v)
    \/ \E b \in BOOLEAN : SetHbm(b) \/ SetDimming(b) \/ SetPanelIdleEnabled(b)
    \/ \E d \in TickSteps : Tick(d)

Spec == Init /\ [][Next]_vars

(***************************************************************************)
(* What the panel does, read from its registers: frame skip on or off,     *)
(* early exit on, the auto-frame-insertion payload in force (none without  *)
(* frame skip) and the TE scanline shift.                                  *)
(***************************************************************************)
NoFrameSkip == [auto |-> FALSE, rate |-> 120]

PanelConfig(p) ==
    [frame_skip |-> p.r2F = FreqCtrlHs,
     early_exit |-> p.r2F = FreqCtrlHs /\ p.r5A = 0,
     afi        |-> IF p.r2F = FreqCtrlHs THEN p.rBA ELSE NoFrameSkip,
     te_shift   |-> p.r44]

(* The rate the panel's auto frame insertion drops to when idle, 0 if none. *)
PanelAutoIdle(p) ==
    IF p.r2F = FreqCtrlHs /\ \E r \in AutoRates : p.rBA = AfiAuto(r)
    THEN p.rBA.rate ELSE 0

(***************************************************************************)
(* What the shadow says was committed (spec section 4.3): 120 Hz without   *)
(* frame auto is manual mode without frame skip and no TE shift; anything  *)
(* else has frame skip, early exit as in hw_feat, the auto payload of      *)
(* hw_idle_vrefresh or the manual one of hw_vrefresh, and a TE shift below *)
(* 120 Hz.                                                                 *)
(***************************************************************************)
ShadowConfigOf(vrefresh, idle, f) ==
    IF vrefresh = 120 /\ FrameAuto \notin f
    THEN [frame_skip |-> FALSE, early_exit |-> FALSE, afi |-> NoFrameSkip,
          te_shift |-> 0]
    ELSE [frame_skip |-> TRUE,
          early_exit |-> EarlyExit \in f,
          afi        |-> IF FrameAuto \in f
                         THEN AfiAuto(idle) ELSE AfiManual(vrefresh),
          te_shift   |-> IF vrefresh = 120 THEN 0 ELSE 1]

ShadowConfig == ShadowConfigOf(hw_vrefresh, hw_idle_vrefresh, hw_feat)

(***************************************************************************)
(* SHADOW COHERENCE.  While the panel is on and out of AOD, the hw_*       *)
(* shadow of struct nt37290_panel describes what the panel's registers     *)
(* really hold (the struct's comment: hw_ fields "keep track of the        *)
(* features that were actually committed to hardware").  This is what     *)
(* makes it safe for nt37290_update_panel_feat to skip its batch when the  *)
(* wanted state equals the shadow: every other writer of these registers   *)
(* (reset, AOD entry, LHBM) must be followed by an enforced update.        *)
(***************************************************************************)
ShadowCoherent ==
    panel_state = "NORMAL" => PanelConfig(panel) = ShadowConfig

(***************************************************************************)
(* SHADOW COHERENCE OUTSIDE LHBM.  The same agreement, excusing the states *)
(* with local HBM on, where nt37290_set_local_hbm_mode puts the panel in   *)
(* FPS gamma timing (2Fh 02h, 87h 01h) on purpose.  Once LHBM is off again *)
(* the panel must run what the hw_ shadow says.                            *)
(***************************************************************************)
CoherentOutsideLhbm ==
    panel_state = "NORMAL" /\ ~local_hbm_enabled
        => PanelConfig(panel) = ShadowConfig

(***************************************************************************)
(* NO LOST DECISION.  While the panel is on and out of AOD, the committed  *)
(* shadow equals what the driver last decided: the current mode's rate,    *)
(* auto_mode_vrefresh and feat.  A decision that the "no change" test of   *)
(* nt37290_update_panel_feat wrongly skips, or one taken while the panel   *)
(* could not receive it, shows up here.                                    *)
(***************************************************************************)
DesiredCommitted ==
    panel_state = "NORMAL" =>
        /\ hw_vrefresh = current_mode.vrefresh
        /\ hw_idle_vrefresh = auto_mode_vrefresh
        /\ hw_feat = feat

(***************************************************************************)
(* IDLE RATE REPORT.  While the panel is on and out of AOD, a non-zero     *)
(* ctx->panel_idle_vrefresh, which nt37290_change_frequency publishes to   *)
(* the display pipeline, is exactly the rate the panel's auto frame        *)
(* insertion will drop to.                                                 *)
(***************************************************************************)
PanelIdleHonest ==
    panel_state = "NORMAL" /\ panel_idle_vrefresh # 0
        => PanelAutoIdle(panel) = panel_idle_vrefresh

(***************************************************************************)
(* IDLE BELOW TARGET (spec section 3, RefreshState): the committed idle    *)
(* rate is 0 or strictly below the committed refresh rate.                 *)
(* nt37290_update_min_idle_vrefresh enforces it for the mode it is given;  *)
(* nt37290_enable commits auto_mode_vrefresh computed for an earlier mode. *)
(***************************************************************************)
IdleBelowTarget ==
    panel_state = "NORMAL" /\ hw_idle_vrefresh # 0
        => hw_idle_vrefresh < hw_vrefresh

(***************************************************************************)
(* A commit after more than IDLE_DELAY_THRESHOLD_US with early exit on and *)
(* an idle delay configured (nt37290_trigger_early_exit "disable auto idle *)
(* mode") leaves the panel without auto frame insertion or early exit:     *)
(* the mode-set stamp it takes first makes the idle delay apply.           *)
(***************************************************************************)
LongIdleCommit ==
    /\ panel_state = "NORMAL"
    /\ EarlyExit \in feat
    /\ IdleDelayMs # 0
    /\ since_commit * 1000 > IDLE_DELAY_THRESHOLD_US
    /\ since_commit' = 0

EarlyExitDropsAuto ==
    [][LongIdleCommit => /\ PanelAutoIdle(panel') = 0
                         /\ ~PanelConfig(panel').early_exit]_vars

(***************************************************************************)
(* AOD MANUAL MODE.  While in AOD the panel stays in manual mode without   *)
(* frame skip, as nt37290_lp_cmds set it ("manual mode (no frame skip)").  *)
(***************************************************************************)
AodManual ==
    panel_state = "LP" => panel.r2F = FreqModeHs

(***************************************************************************)
(* The inductive invariant behind the theorems of Nt37290_proofs: the two  *)
(* correlated features move together, set features come with an auto      *)
(* rate, the current mode matches the panel state, and (DInv) the shadow   *)
(* holds the last decision; with ShadowCoherent (IInv) it also describes   *)
(* the registers.                                                          *)
(***************************************************************************)
FeatCoupled ==
    /\ feat \in {{}, Features}
    /\ hw_feat \in {{}, Features}

FeatNeedsIdle == feat # {} => auto_mode_vrefresh \in AutoRates

ModeMatchesState ==
    /\ panel_state = "NORMAL" => current_mode \in NormalModes
    /\ panel_state = "LP" => current_mode = LpMode

DInv ==
    /\ TypeOK
    /\ FeatCoupled
    /\ FeatNeedsIdle
    /\ ModeMatchesState
    /\ DesiredCommitted

IInv == DInv /\ ShadowCoherent

(***************************************************************************)
(* What PanelIdleHonest rests on: while the panel is on and out of AOD, a  *)
(* non-zero ctx->panel_idle_vrefresh is the committed hw_idle_vrefresh and *)
(* both features (frame auto among them) are committed.  With              *)
(* ShadowCoherent the panel then runs the auto payload of that rate.       *)
(***************************************************************************)
IdleReported ==
    panel_state = "NORMAL" /\ panel_idle_vrefresh # 0
        => /\ panel_idle_vrefresh = hw_idle_vrefresh
           /\ hw_feat = Features

=============================================================================
