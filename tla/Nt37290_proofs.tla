--------------------------- MODULE Nt37290_proofs ---------------------------
(***************************************************************************)
(* Proofs about Nt37290 for every value of its constants.                  *)
(*                                                                         *)
(* DInv (types, coupled features, mode/state agreement, and the shadow     *)
(* holding the last decision) is inductive on every panel revision; it     *)
(* gives TypeOK and DesiredCommitted.  IInv adds ShadowCoherent and is     *)
(* inductive on revisions before EVT1, whose LHBM sequence leaves register *)
(* 2Fh alone.                                                              *)
(***************************************************************************)
EXTENDS Nt37290, TLAPS

USE NormalModesAssumption, LpModeAssumption, NoModeAssumption,
    ConstantsAssumption

(***************************************************************************)
(* Lemmas about the operators the handlers are built from.                 *)
(***************************************************************************)

(* The idle tier of any rate is 0 or one of the auto rates. *)
LEMMA IdleTierType ==
    ASSUME NEW v \in Nat
    PROVE  IdleTier(v) \in {0} \cup AutoRates
BY DEF IdleTier, AutoRates

(* The entries of the mode tables. *)
LEMMA ModeFacts ==
    /\ \A m \in NormalModes : /\ m.vrefresh \in {60, 120}
                              /\ m.idle_mode \in IdleModes
                              /\ m.is_lp_mode = FALSE
    /\ LpMode.vrefresh = 30
    /\ LpMode.idle_mode = "IDLE_MODE_UNSUPPORTED"
    /\ LpMode.is_lp_mode = TRUE
<1>1. ASSUME NEW m \in NormalModes
      PROVE  /\ m.vrefresh \in {60, 120}
             /\ m.idle_mode \in IdleModes
             /\ m.is_lp_mode = FALSE
  <2>1. m \in ModeRecords({60, 120}, FALSE)
    BY NormalModesAssumption, Zenon
  <2>. QED
    BY <2>1, Zenon DEF ModeRecords
<1>2. /\ LpMode.vrefresh = 30
      /\ LpMode.idle_mode = "IDLE_MODE_UNSUPPORTED"
      /\ LpMode.is_lp_mode = TRUE
  BY LpModeAssumption, Zenon
<1>. QED
  BY <1>1, <1>2

(* update_min_idle_vrefresh yields an idle rate of the right kind. *)
LEMMA ResolveType ==
    ASSUME min_vrefresh \in Nat,
           NEW pmode \in NormalModes \cup {LpMode}, NEW age \in Int
    PROVE  /\ update_min_idle_vrefresh(pmode, age).idle \in {0} \cup AutoRates
           /\ update_min_idle_vrefresh(pmode, age).delayed \in BOOLEAN
<1>1. IdleTier(min_vrefresh) \in {0} \cup AutoRates
  BY IdleTierType
<1>2. pmode.vrefresh \in Int
  BY ModeFacts
<1>. QED
  BY <1>1, <1>2 DEF update_min_idle_vrefresh, AutoRates

(* The registers the batch of update_panel_feat writes, field by field. *)
LEMMA FeatCmdsFields ==
    ASSUME NEW p \in PanelRegs, NEW v, NEW idle, NEW f
    PROVE  LET q == PanelFeatCmds(p, v, idle, f)
           IN  /\ q.aod = p.aod
               /\ q.rC3 = p.rC3
               /\ v = 120 /\ FrameAuto \notin f =>
                      /\ q.r2F = FreqModeHs /\ q.r44 = 0
                      /\ q.r5A = p.r5A /\ q.rBA = p.rBA
               /\ ~(v = 120 /\ FrameAuto \notin f) =>
                      /\ q.r2F = FreqCtrlHs
                      /\ q.r5A = IF EarlyExit \in f THEN 0 ELSE 1
                      /\ q.rBA = AfiPayload(p.rBA, v, idle, f)
                      /\ q.r44 = IF v = 120 THEN 0 ELSE 1
BY DEF PanelFeatCmds, PanelRegs

(* The manual 120 Hz batch keeps a register file well typed. *)
LEMMA RegsManualHs ==
    ASSUME NEW p \in PanelRegs
    PROVE  [p EXCEPT !.r2F = FreqModeHs, !.r44 = 0] \in PanelRegs
BY Zenon DEF PanelRegs, FreqModeHs

(* The batch of update_panel_feat keeps the registers well typed. *)
LEMMA FeatCmdsType ==
    ASSUME NEW p \in PanelRegs, NEW v \in {30, 60, 120},
           NEW idle \in {0} \cup AutoRates, NEW f \in SUBSET Features
    PROVE  PanelFeatCmds(p, v, idle, f) \in PanelRegs
<1>1. AfiPayload(p.rBA, v, idle, f) \in AfiPayloads \cup {Unknown}
  BY DEF AfiPayload, PanelRegs, AfiPayloads
<1>2. CASE v = 120 /\ FrameAuto \notin f
  <2>1. PanelFeatCmds(p, v, idle, f) = [p EXCEPT !.r2F = FreqModeHs, !.r44 = 0]
    BY <1>2 DEF PanelFeatCmds
  <2>2. [p EXCEPT !.r2F = FreqModeHs, !.r44 = 0] \in PanelRegs
    BY RegsManualHs
  <2>. QED
    BY <2>1, <2>2
<1>3. CASE ~(v = 120 /\ FrameAuto \notin f)
  <2> DEFINE ee == IF EarlyExit \in f THEN 0 ELSE 1
             te == IF v = 120 THEN 0 ELSE 1
  <2>1. PanelFeatCmds(p, v, idle, f) =
          [p EXCEPT !.r2F = FreqCtrlHs, !.r5A = ee,
                    !.rBA = AfiPayload(p.rBA, v, idle, f), !.r44 = te]
    BY <1>3 DEF PanelFeatCmds
  <2>3. [p EXCEPT !.r2F = FreqCtrlHs, !.r5A = ee,
                  !.rBA = AfiPayload(p.rBA, v, idle, f), !.r44 = te] \in PanelRegs
    BY <1>1, ZenonT(60) DEF PanelRegs, FreqCtrlHs, ee, te
  <2>. QED
    BY <2>1, <2>3
<1>. QED
  BY <1>2, <1>3

(* Whatever prefix of the batch the transport delivers, the registers stay *)
(* well typed.                                                             *)
LEMMA SendFeatCmdsType ==
    ASSUME NEW p \in PanelRegs, NEW v \in {30, 60, 120},
           NEW idle \in {0} \cup AutoRates, NEW f \in SUBSET Features
    PROVE  SendFeatCmds(p, v, idle, f) \subseteq PanelRegs
<1>1. PanelFeatCmds(p, v, idle, f) \in PanelRegs
  BY FeatCmdsType
<1>2. [p EXCEPT !.r2F = FreqModeHs] \in PanelRegs
  BY DEF PanelRegs, FreqModeHs
<1>3. [[p EXCEPT !.r2F = FreqModeHs] EXCEPT !.r2F = FreqCtrlHs] \in PanelRegs
  BY DEF PanelRegs, FreqCtrlHs
<1>4. /\ [PanelFeatCmds(p, v, idle, f) EXCEPT !.rBA = p.rBA, !.r44 = p.r44]
          \in PanelRegs
      /\ [PanelFeatCmds(p, v, idle, f) EXCEPT !.r44 = p.r44] \in PanelRegs
  BY <1>1 DEF PanelRegs
<1>. QED
  BY <1>1, <1>2, <1>3, <1>4 DEF SendFeatCmds, FeatCmdsSent

(* A reliable transport delivers the whole batch. *)
LEMMA SendReliable ==
    ASSUME ~TransportFaults, NEW p, NEW v, NEW idle, NEW f
    PROVE  SendFeatCmds(p, v, idle, f) = {PanelFeatCmds(p, v, idle, f)}
BY DEF SendFeatCmds

(***************************************************************************)
(* The batch puts the panel into the configuration the shadow then         *)
(* records, for the rates of a normal mode, coupled features and, when     *)
(* they are set, an auto rate.                                             *)
(***************************************************************************)
LEMMA FeatCmdsConfig ==
    ASSUME NEW p \in PanelRegs, NEW v \in {60, 120},
           NEW idle \in {0} \cup AutoRates, NEW f \in {{}, Features},
           f # {} => idle \in AutoRates
    PROVE  PanelConfig(PanelFeatCmds(p, v, idle, f)) = ShadowConfigOf(v, idle, f)
<1> DEFINE q == PanelFeatCmds(p, v, idle, f)
\* Boolean fields are compared as truth values first: the SMT encoding of
\* a record with a formula-valued field needs the value given as a constant.
<1>1. CASE v = 120 /\ FrameAuto \notin f
  <2>1. q.r2F = FreqModeHs /\ q.r44 = 0
    BY <1>1, FeatCmdsFields
  <2>2. /\ (q.r2F = FreqCtrlHs) = FALSE
        /\ (q.r2F = FreqCtrlHs /\ q.r5A = 0) = FALSE
    BY <2>1 DEF FreqModeHs, FreqCtrlHs
  <2>3. PanelConfig(q) = [frame_skip |-> FALSE, early_exit |-> FALSE,
                          afi |-> NoFrameSkip, te_shift |-> 0]
    BY <2>1, <2>2 DEF PanelConfig
  <2>. QED
    BY <1>1, <2>3 DEF q, ShadowConfigOf
<1>2. CASE ~(v = 120 /\ FrameAuto \notin f) /\ f = {}
  <2>1. v = 60
    BY <1>2
  <2>2. /\ q.r2F = FreqCtrlHs /\ q.r5A = 1 /\ q.r44 = 1
        /\ q.rBA = AfiManual(60)
    BY <1>2, <2>1, FeatCmdsFields DEF AfiPayload
  <2>3. /\ (q.r2F = FreqCtrlHs) = TRUE
        /\ (q.r2F = FreqCtrlHs /\ q.r5A = 0) = FALSE
        /\ (EarlyExit \in f) = FALSE
    BY <1>2, <2>2
  <2>4. PanelConfig(q) = [frame_skip |-> TRUE, early_exit |-> FALSE,
                          afi |-> AfiManual(60), te_shift |-> 1]
    BY <2>2, <2>3 DEF PanelConfig
  <2>5. ShadowConfigOf(v, idle, f)
          = [frame_skip |-> TRUE, early_exit |-> FALSE,
             afi |-> AfiManual(60), te_shift |-> 1]
    BY <1>2, <2>1, <2>3 DEF ShadowConfigOf
  <2>. QED
    BY <2>4, <2>5 DEF q
<1>3. CASE f = Features
  <2>1. idle \in AutoRates /\ EarlyExit \in f /\ FrameAuto \in f
    BY <1>3 DEF Features
  <2>2. /\ q.r2F = FreqCtrlHs /\ q.r5A = 0
        /\ q.r44 = IF v = 120 THEN 0 ELSE 1
        /\ q.rBA = AfiAuto(idle)
    BY <2>1, FeatCmdsFields DEF AfiPayload
  <2>3. /\ (q.r2F = FreqCtrlHs) = TRUE
        /\ (q.r2F = FreqCtrlHs /\ q.r5A = 0) = TRUE
        /\ (EarlyExit \in f) = TRUE
    BY <2>1, <2>2
  <2>4. PanelConfig(q) = [frame_skip |-> TRUE, early_exit |-> TRUE,
                          afi |-> AfiAuto(idle),
                          te_shift |-> IF v = 120 THEN 0 ELSE 1]
    BY <2>2, <2>3 DEF PanelConfig
  <2>5. ShadowConfigOf(v, idle, f)
          = [frame_skip |-> TRUE, early_exit |-> TRUE,
             afi |-> AfiAuto(idle), te_shift |-> IF v = 120 THEN 0 ELSE 1]
    BY <2>1, <2>3 DEF ShadowConfigOf
  <2>. QED
    BY <2>4, <2>5 DEF q
<1>. QED
  BY <1>1, <1>2, <1>3


(* Enabling a normal mode leaves the panel's feature registers matching the
   driver's shadow of the mode it just programmed (nt37290_enable). *)
LEMMA EnableConfig ==
    ASSUME current_mode.vrefresh \in {60, 120},
           auto_mode_vrefresh \in {0} \cup AutoRates,
           feat \in {{}, Features},
           feat # {} => auto_mode_vrefresh \in AutoRates
    PROVE  PanelConfig(PanelFeatCmds([PanelReset EXCEPT !.r5A = 1],
                                     current_mode.vrefresh, auto_mode_vrefresh,
                                     feat))
             = ShadowConfigOf(current_mode.vrefresh, auto_mode_vrefresh, feat)
<1>1. [PanelReset EXCEPT !.r5A = 1] \in PanelRegs
  BY Zenon DEF PanelReset, PanelRegs
<1>. QED
  BY <1>1, FeatCmdsConfig

(***************************************************************************)
(* What nt37290_change_frequency leaves behind, whichever branch of        *)
(* update_panel_feat it takes: coupled features that come with an auto     *)
(* rate, and a shadow that holds exactly the rate, idle rate and features  *)
(* just decided (the "no change" skip is taken only when it already did).  *)
(***************************************************************************)
LEMMA ChangeFrequencyEffect ==
    ASSUME TypeOK,
           NEW pmode \in NormalModes \cup {LpMode}, NEW sr \in BOOLEAN,
           NEW age \in Int, NEW p0 \in PanelRegs,
           change_frequency(pmode, sr, age, p0)
    PROVE  /\ feat' \in {{}, Features}
           /\ auto_mode_vrefresh' \in {0} \cup AutoRates
           /\ delayed_idle' \in BOOLEAN
           /\ feat' # {} => auto_mode_vrefresh' \in AutoRates
           /\ hw_vrefresh' = pmode.vrefresh
           /\ hw_idle_vrefresh' = auto_mode_vrefresh'
           /\ hw_feat' = feat'
           /\ panel_idle_vrefresh' \in {0} \cup AutoRates
           /\ \/ panel' \in SendFeatCmds(p0, pmode.vrefresh,
                                            auto_mode_vrefresh', feat')
              \/ /\ panel' = p0
                 /\ ~current_mode.is_lp_mode
                 /\ UNCHANGED <<hw_vrefresh, hw_idle_vrefresh, hw_feat>>
<1> DEFINE r == update_min_idle_vrefresh(pmode, age)
           f == IF IdleActive(pmode, r.idle, sr) THEN Features ELSE {}
<1>1. /\ r.idle \in {0} \cup AutoRates
      /\ r.delayed \in BOOLEAN
  <2>1. min_vrefresh \in Nat
    BY ConstantsAssumption DEF TypeOK
  <2>. QED
    BY <2>1, ResolveType DEF r
<1>2. /\ auto_mode_vrefresh' = r.idle
      /\ delayed_idle' = r.delayed
      /\ feat' = f
      /\ update_panel_feat(pmode.vrefresh, r.idle, f,
                           current_mode.is_lp_mode, p0)
      /\ panel_idle_vrefresh' = IF sr THEN hw_idle_vrefresh' ELSE 0
  BY DEF change_frequency, r, f
<1>3. f \in {{}, Features} /\ (f # {} => r.idle \in AutoRates)
  BY <1>1 DEF f, IdleActive
<1>4. /\ hw_vrefresh' = pmode.vrefresh
      /\ hw_idle_vrefresh' = r.idle
      /\ hw_feat' = f
      /\ \/ panel' \in SendFeatCmds(p0, pmode.vrefresh, r.idle, f)
         \/ /\ panel' = p0
            /\ ~current_mode.is_lp_mode
            /\ UNCHANGED <<hw_vrefresh, hw_idle_vrefresh, hw_feat>>
  BY <1>2 DEF update_panel_feat, FeatUnchanged
<1>. QED
  BY <1>1, <1>2, <1>3, <1>4

(***************************************************************************)
(* DInv: the initial state and each handler.                               *)
(***************************************************************************)

(* nt37290_panel_probe starts in a state of DInv. *)
LEMMA InitDInv == Init => DInv
<1> SUFFICES ASSUME Init PROVE DInv
  OBVIOUS
<1>1. panel \in PanelRegs
  BY DEF Init, PanelReset, PanelRegs
<1>2. since_commit \in Ages /\ since_mode_set \in Ages
  BY ConstantsAssumption DEF Init, Ages
<1>3. hw_feat \in SUBSET Features /\ feat \in SUBSET Features
  BY DEF Init
<1>4. TypeOK
  BY <1>1, <1>2, <1>3 DEF Init, TypeOK, AutoRates
<1>. QED
  BY <1>4 DEF Init, DInv, FeatCoupled, FeatNeedsIdle, ModeMatchesState,
              DesiredCommitted

(* A handler that re-runs change_frequency for a mode pmode that becomes   *)
(* or stays current, touching nothing else of TypeOK but the panel and     *)
(* the ages, keeps DInv when the panel ends in a matching state.           *)
LEMMA ChangeFrequencyDInv ==
    ASSUME DInv,
           NEW pmode \in NormalModes \cup {LpMode}, NEW sr \in BOOLEAN,
           NEW age \in Int, NEW p0 \in PanelRegs,
           change_frequency(pmode, sr, age, p0),
           current_mode' = pmode,
           panel_state' \in {"NORMAL", "LP"},
           panel_state' = "NORMAL" => pmode \in NormalModes,
           panel_state' = "LP" => pmode = LpMode,
           UNCHANGED <<hbm_on, dimming_on, panel_idle_enabled, min_vrefresh,
                       local_hbm_enabled>>,
           self_refresh_active' \in BOOLEAN,
           since_commit' \in Ages, since_mode_set' \in Ages
    PROVE  DInv'
<1>1. /\ feat' \in {{}, Features}
      /\ auto_mode_vrefresh' \in {0} \cup AutoRates
      /\ delayed_idle' \in BOOLEAN
      /\ feat' # {} => auto_mode_vrefresh' \in AutoRates
      /\ hw_vrefresh' = pmode.vrefresh
      /\ hw_idle_vrefresh' = auto_mode_vrefresh'
      /\ hw_feat' = feat'
      /\ panel_idle_vrefresh' \in {0} \cup AutoRates
      /\ \/ panel' \in SendFeatCmds(p0, pmode.vrefresh,
                                       auto_mode_vrefresh', feat')
         \/ panel' = p0
  BY ChangeFrequencyEffect DEF DInv
<1>2. pmode.vrefresh \in {30, 60, 120}
  BY ModeFacts
<1>3. panel' \in PanelRegs
  BY <1>1, <1>2, SendFeatCmdsType DEF Features
<1>4. TypeOK'
  BY <1>1, <1>2, <1>3 DEF DInv, TypeOK, Features
<1>. QED
  BY <1>1, <1>4 DEF DInv, FeatCoupled, FeatNeedsIdle, ModeMatchesState,
                    DesiredCommitted

(* nt37290_set_self_refresh keeps DInv. *)
LEMMA SetSelfRefreshDInv ==
    ASSUME DInv, NEW en \in BOOLEAN, set_self_refresh(en)
    PROVE  DInv'
<1>1. CASE current_mode.is_lp_mode
  BY <1>1 DEF set_self_refresh, DInv, TypeOK, FeatCoupled, FeatNeedsIdle,
              ModeMatchesState, DesiredCommitted, driverVars, IsPanelActive
<1>2. CASE ~current_mode.is_lp_mode
  <2>1. panel_state = "NORMAL" /\ current_mode \in NormalModes
    BY <1>2, ModeFacts DEF set_self_refresh, IsPanelActive, DInv,
                           ModeMatchesState
  <2>2. change_frequency(current_mode, en, since_mode_set, panel)
    BY <1>2 DEF set_self_refresh
  <2>3. /\ current_mode' = current_mode /\ panel_state' = panel_state
        /\ UNCHANGED <<hbm_on, dimming_on, panel_idle_enabled, min_vrefresh,
                       local_hbm_enabled>>
        /\ self_refresh_active' \in BOOLEAN
        /\ since_commit' \in Ages /\ since_mode_set' \in Ages
        /\ since_mode_set \in Int /\ panel \in PanelRegs
    BY DEF set_self_refresh, DInv, TypeOK, Ages
  <2>. QED
    BY <2>1, <2>2, <2>3, ChangeFrequencyDInv
<1>. QED
  BY <1>1, <1>2

(* The seamless mode set of nt37290_mode_set keeps DInv. *)
LEMMA ModeSetDInv ==
    ASSUME DInv, NEW m \in NormalModes, mode_set(m)
    PROVE  DInv'
<1>1. CASE panel_state = "NORMAL"
  <2>1. change_frequency(m, self_refresh_active, since_mode_set, panel)
    BY <1>1 DEF mode_set
  <2>. QED
    BY <1>1, <2>1, ChangeFrequencyDInv DEF mode_set, DInv, TypeOK, Ages
<1>2. CASE panel_state = "OFF"
  BY <1>2, ConstantsAssumption
     DEF mode_set, DInv, TypeOK, FeatCoupled, FeatNeedsIdle,
         ModeMatchesState, DesiredCommitted, driverVars, Ages
<1>. QED
  BY <1>1, <1>2 DEF mode_set

(* nt37290_commit_done, with nt37290_trigger_early_exit, keeps DInv. *)
LEMMA CommitDoneDInv ==
    ASSUME DInv, commit_done
    PROVE  DInv'
<1>1. current_mode \in NormalModes \cup {LpMode}
      /\ (panel_state = "LP" => current_mode = LpMode)
      /\ (panel_state = "NORMAL" => current_mode \in NormalModes)
  BY DEF commit_done, IsPanelActive, DInv, ModeMatchesState
<1>2. 0 \in Ages /\ since_mode_set \in Ages
  BY ConstantsAssumption DEF DInv, TypeOK, Ages
<1>3. CASE \/ EarlyExit \in feat /\ trigger_early_exit
           \/ EarlyExit \notin feat
              /\ current_mode.idle_mode = "IDLE_MODE_ON_INACTIVITY"
              /\ delayed_idle
              /\ change_frequency(current_mode, self_refresh_active,
                                  since_mode_set, panel)
              /\ UNCHANGED since_mode_set
  <2>1. CASE \E age \in Ages :
               /\ change_frequency(current_mode, self_refresh_active, age,
                                   panel)
               /\ since_mode_set' \in Ages
    <3>1. PICK age \in Ages :
               /\ change_frequency(current_mode, self_refresh_active, age,
                                   panel)
               /\ since_mode_set' \in Ages
      BY <2>1
    <3>2. age \in Int
      BY ConstantsAssumption DEF Ages
    <3>. QED
      BY <1>1, <1>2, <3>1, <3>2, ChangeFrequencyDInv
         DEF commit_done, DInv, TypeOK, IsPanelActive
  <2>2. CASE UNCHANGED <<driverVars, panel_idle_vrefresh, panel>>
             /\ since_mode_set' \in Ages
    BY <2>2, <1>2 DEF commit_done, DInv, TypeOK, FeatCoupled,
                      FeatNeedsIdle, ModeMatchesState, DesiredCommitted,
                      driverVars
  <2>. QED
    BY <1>2, <1>3, <2>1, <2>2 DEF trigger_early_exit
<1>4. CASE /\ EarlyExit \notin feat
           /\ ~(current_mode.idle_mode = "IDLE_MODE_ON_INACTIVITY"
                /\ delayed_idle)
           /\ UNCHANGED <<driverVars, panel_idle_vrefresh, panel,
                          since_mode_set>>
  BY <1>2, <1>4 DEF commit_done, DInv, TypeOK, FeatCoupled, FeatNeedsIdle,
                    ModeMatchesState, DesiredCommitted, driverVars
<1>. QED
  BY <1>3, <1>4 DEF commit_done

(* nt37290_set_nolp_mode, leaving AOD, keeps DInv. *)
LEMMA SetNolpModeDInv ==
    ASSUME DInv, NEW m \in NormalModes, set_nolp_mode(m)
    PROVE  DInv'
<1>1. [panel EXCEPT !.aod = FALSE] \in PanelRegs
  BY DEF DInv, TypeOK, PanelRegs
<1>2. since_mode_set \in Int /\ since_commit' \in Ages
      /\ since_mode_set' \in Ages
  BY DEF set_nolp_mode, DInv, TypeOK, Ages
<1>. QED
  BY <1>1, <1>2, ChangeFrequencyDInv DEF set_nolp_mode, DInv, TypeOK

(* Entering AOD (exynos_panel_set_lp_mode with nt37290_lp_cmds) keeps DInv. *)
LEMMA SetLpModeDInv ==
    ASSUME DInv, set_lp_mode
    PROVE  DInv'
<1>1. panel' \in PanelRegs
  BY DEF set_lp_mode, LpCmds, DInv, TypeOK, PanelRegs, FreqModeHs
<1>. QED
  BY <1>1 DEF set_lp_mode, DInv, TypeOK, FeatCoupled, FeatNeedsIdle,
              ModeMatchesState, DesiredCommitted, driverVars

(* nt37290_enable keeps DInv: it commits the current decision. *)
LEMMA EnableDInv ==
    ASSUME DInv, enable
    PROVE  DInv'
<1> DEFINE S == SendFeatCmds([PanelReset EXCEPT !.r5A = 1],
                             current_mode.vrefresh, auto_mode_vrefresh, feat)
<1>1. current_mode \in NormalModes \cup {LpMode}
  BY DEF enable, DInv, TypeOK
<1>2. current_mode.vrefresh \in {30, 60, 120}
  BY <1>1, ModeFacts
<1>3. \A p \in S : p \in PanelRegs /\ LpCmds(p) \in PanelRegs
  <2>1. [PanelReset EXCEPT !.r5A = 1] \in PanelRegs
    BY DEF PanelReset, PanelRegs
  <2>2. S \subseteq PanelRegs
    BY <1>2, <2>1, SendFeatCmdsType DEF DInv, TypeOK, S
  <2>. QED
    BY <2>2 DEF LpCmds, PanelRegs, FreqModeHs
<1>4. panel' \in PanelRegs
  BY <1>3 DEF enable, S
<1>5. panel_state' = "NORMAL" => current_mode \in NormalModes
  BY <1>1, ModeFacts DEF enable
<1>6. panel_state' = "LP" => current_mode = LpMode
  BY <1>1, ModeFacts DEF enable
<1>7. panel_state' \in {"NORMAL", "LP"} /\ current_mode' = current_mode
  BY DEF enable
<1>8. TypeOK'
  BY <1>2, <1>4, <1>7 DEF enable, DInv, TypeOK
<1>9. (FeatCoupled /\ FeatNeedsIdle /\ ModeMatchesState)'
  BY <1>5, <1>6, <1>7 DEF enable, DInv, FeatCoupled, FeatNeedsIdle,
                          ModeMatchesState
<1>10. DesiredCommitted'
  BY <1>7 DEF enable, DesiredCommitted
<1>. QED
  BY <1>8, <1>9, <1>10 DEF DInv

(* nt37290_disable keeps DInv. *)
LEMMA DisableDInv ==
    ASSUME DInv, disable
    PROVE  DInv'
<1>1. panel' \in PanelRegs
  BY DEF disable, PanelReset, PanelRegs
<1>. QED
  BY <1>1 DEF disable, DInv, TypeOK, FeatCoupled, FeatNeedsIdle,
              ModeMatchesState, DesiredCommitted

(* nt37290_set_local_hbm_mode keeps DInv. *)
LEMMA SetLocalHbmModeDInv ==
    ASSUME DInv, NEW en \in BOOLEAN, set_local_hbm_mode(en)
    PROVE  DInv'
<1>1. panel' \in PanelRegs
  BY DEF set_local_hbm_mode, DInv, TypeOK, PanelRegs, FpsGammaTiming,
         FreqModeHs
<1>. QED
  BY <1>1 DEF set_local_hbm_mode, DInv, TypeOK, FeatCoupled, FeatNeedsIdle,
              ModeMatchesState, DesiredCommitted, driverVars

(* nt37290_update_te2 keeps DInv. *)
LEMMA UpdateTe2DInv ==
    ASSUME DInv, update_te2
    PROVE  DInv'
<1>1. get_te2_option \in {NT37290_TE2_CHANGEABLE, NT37290_TE2_FIXED}
  BY DEF get_te2_option
<1>2. panel' \in PanelRegs
  BY <1>1 DEF update_te2, DInv, TypeOK, PanelRegs
<1>. QED
  BY <1>2 DEF update_te2, DInv, TypeOK, FeatCoupled, FeatNeedsIdle,
              ModeMatchesState, DesiredCommitted, driverVars, ctxVars

(* The inputs from the rest of the driver, and time, keep DInv. *)
LEMMA EnvironmentDInv ==
    ASSUME DInv,
           \/ \E v \in MinVrefreshValues : SetMinVrefresh(v)
           \/ \E b \in BOOLEAN : SetHbm(b) \/ SetDimming(b)
                                 \/ SetPanelIdleEnabled(b)
           \/ \E d \in TickSteps : Tick(d)
    PROVE  DInv'
<1>1. CASE \E d \in TickSteps : Tick(d)
  <2>1. PICK d \in TickSteps : Tick(d)
    BY <1>1
  <2>2. d \in Nat
    BY ConstantsAssumption
  <2>3. since_commit' \in Ages /\ since_mode_set' \in Ages
    BY <2>1, <2>2, ConstantsAssumption DEF Tick, DInv, TypeOK, Ages
  <2>. QED
    BY <2>1, <2>3 DEF Tick, DInv, TypeOK, FeatCoupled, FeatNeedsIdle,
                      ModeMatchesState, DesiredCommitted, driverVars,
                      ctxVars
<1>2. CASE ~\E d \in TickSteps : Tick(d)
  BY <1>2 DEF SetMinVrefresh, SetHbm, SetDimming, SetPanelIdleEnabled,
              DInv, TypeOK, FeatCoupled, FeatNeedsIdle, ModeMatchesState,
              DesiredCommitted, driverVars
<1>. QED
  BY <1>1, <1>2

(* DInv is inductive. *)
LEMMA NextDInv == DInv /\ [Next]_vars => DInv'
<1> SUFFICES ASSUME DInv, [Next]_vars PROVE DInv'
  OBVIOUS
<1>1. CASE \E b \in BOOLEAN : set_self_refresh(b)
  BY <1>1, SetSelfRefreshDInv
<1>2. CASE \E m \in NormalModes : mode_set(m)
  BY <1>2, ModeSetDInv
<1>3. CASE commit_done
  BY <1>3, CommitDoneDInv
<1>4. CASE \E m \in NormalModes : set_nolp_mode(m)
  BY <1>4, SetNolpModeDInv
<1>5. CASE set_lp_mode
  BY <1>5, SetLpModeDInv
<1>6. CASE enable
  BY <1>6, EnableDInv
<1>7. CASE disable
  BY <1>7, DisableDInv
<1>8. CASE \E b \in BOOLEAN : set_local_hbm_mode(b)
  BY <1>8, SetLocalHbmModeDInv
<1>9. CASE update_te2
  BY <1>9, UpdateTe2DInv
<1>10. CASE \/ \E v \in MinVrefreshValues : SetMinVrefresh(v)
            \/ \E b \in BOOLEAN : SetHbm(b) \/ SetDimming(b)
                                  \/ SetPanelIdleEnabled(b)
            \/ \E d \in TickSteps : Tick(d)
  BY <1>10, EnvironmentDInv
<1>11. CASE UNCHANGED vars
  BY <1>11 DEF DInv, TypeOK, FeatCoupled, FeatNeedsIdle, ModeMatchesState,
               DesiredCommitted, vars, driverVars, ctxVars
<1>. QED
  BY <1>1, <1>2, <1>3, <1>4, <1>5, <1>6, <1>7, <1>8, <1>9, <1>10, <1>11
     DEF Next

(* DInv holds in every reachable state, on every panel revision. *)
THEOREM DInvInvariant == Spec => []DInv
<1>1. Init => DInv
  BY InitDInv
<1>2. DInv /\ [Next]_vars => DInv'
  BY NextDInv
<1>. QED
  BY <1>1, <1>2, PTL DEF Spec

(***************************************************************************)
(* TYPE CORRECTNESS: every handler leaves the driver's shadow, its         *)
(* decision, the ctx fields it uses and the panel registers in their       *)
(* types; in particular auto_mode_vrefresh and hw_idle_vrefresh are always *)
(* 0 or one of the auto rates 10/30/60 the 0xBA payload table supports.    *)
(***************************************************************************)
THEOREM TypeCorrect == Spec => []TypeOK
BY DInvInvariant, PTL DEF DInv

(***************************************************************************)
(* NO LOST DECISION, for every table of modes and every revision: while    *)
(* the panel is on and out of AOD, the shadow nt37290_update_panel_feat    *)
(* compares against holds the current mode's rate, auto_mode_vrefresh and  *)
(* feat.                                                                   *)
(***************************************************************************)
THEOREM DesiredCommittedInvariant == Spec => []DesiredCommitted
BY DInvInvariant, PTL DEF DInv

(***************************************************************************)
(* ShadowCoherent, on revisions before EVT1.                               *)
(***************************************************************************)

(* The TE2 option register and the AOD flag are not part of the frame     *)
(* configuration.                                                          *)
LEMMA PanelConfigOtherRegs ==
    ASSUME NEW p \in PanelRegs, NEW x
    PROVE  /\ PanelConfig([p EXCEPT !.rC3 = x]) = PanelConfig(p)
           /\ PanelConfig([p EXCEPT !.aod = x]) = PanelConfig(p)
<1>1. /\ [p EXCEPT !.rC3 = x].r2F = p.r2F /\ [p EXCEPT !.rC3 = x].r5A = p.r5A
      /\ [p EXCEPT !.rC3 = x].rBA = p.rBA /\ [p EXCEPT !.rC3 = x].r44 = p.r44
      /\ [p EXCEPT !.aod = x].r2F = p.r2F /\ [p EXCEPT !.aod = x].r5A = p.r5A
      /\ [p EXCEPT !.aod = x].rBA = p.rBA /\ [p EXCEPT !.aod = x].r44 = p.r44
  BY DEF PanelRegs
<1>. QED
  BY <1>1, Zenon DEF PanelConfig

(* After change_frequency for a normal mode the registers show what the    *)
(* shadow says: either the batch was sent for exactly the shadow's new     *)
(* content, or it was skipped and registers and shadow are both as before. *)
LEMMA ChangeFrequencyShadow ==
    ASSUME ~TransportFaults, IInv,
           NEW pmode \in NormalModes, NEW sr \in BOOLEAN,
           NEW age \in Int, NEW p0 \in PanelRegs,
           change_frequency(pmode, sr, age, p0),
           \/ panel_state = "NORMAL" /\ p0 = panel
           \/ current_mode.is_lp_mode
    PROVE  PanelConfig(panel')
             = ShadowConfigOf(hw_vrefresh', hw_idle_vrefresh', hw_feat')
<1>1. /\ feat' \in {{}, Features}
      /\ auto_mode_vrefresh' \in {0} \cup AutoRates
      /\ feat' # {} => auto_mode_vrefresh' \in AutoRates
      /\ hw_vrefresh' = pmode.vrefresh
      /\ hw_idle_vrefresh' = auto_mode_vrefresh'
      /\ hw_feat' = feat'
      /\ \/ panel' \in SendFeatCmds(p0, pmode.vrefresh,
                                       auto_mode_vrefresh', feat')
         \/ /\ panel' = p0
            /\ ~current_mode.is_lp_mode
            /\ UNCHANGED <<hw_vrefresh, hw_idle_vrefresh, hw_feat>>
  BY ChangeFrequencyEffect DEF IInv, DInv
<1>2. pmode.vrefresh \in {60, 120}
  BY ModeFacts
<1>3. CASE panel' \in SendFeatCmds(p0, pmode.vrefresh,
                                    auto_mode_vrefresh', feat')
  <2>1. panel' = PanelFeatCmds(p0, pmode.vrefresh, auto_mode_vrefresh', feat')
    BY <1>3, SendReliable
  <2>. QED
    BY <1>1, <1>2, <2>1, FeatCmdsConfig
<1>4. CASE /\ panel' = p0
           /\ ~current_mode.is_lp_mode
           /\ UNCHANGED <<hw_vrefresh, hw_idle_vrefresh, hw_feat>>
  <2>1. panel_state = "NORMAL" /\ p0 = panel
    BY <1>4
  <2>. QED
    BY <1>4, <2>1 DEF IInv, ShadowCoherent, ShadowConfig
<1>. QED
  BY <1>1, <1>3, <1>4

(* Every handler keeps the registers coherent with the shadow, given that  *)
(* the LHBM sequence leaves 2Fh alone (revisions before EVT1).             *)
LEMMA NextShadow ==
    ASSUME ~PanelRevGeEvt1, ~TransportFaults, IInv, [Next]_vars
    PROVE  ShadowCoherent'
<1> USE DEF ShadowCoherent, ShadowConfig
<1>1. CASE \E en \in BOOLEAN : set_self_refresh(en)
  <2>1. PICK en \in BOOLEAN : set_self_refresh(en)
    BY <1>1
  <2>2. CASE current_mode.is_lp_mode
    <3>1. panel_state # "NORMAL"
      BY <2>2, ModeFacts DEF IInv, DInv, ModeMatchesState
    <3>. QED
      BY <2>1, <3>1 DEF set_self_refresh
  <2>3. CASE ~current_mode.is_lp_mode
    <3>4. panel_state = "NORMAL" /\ current_mode \in NormalModes
      BY <2>1, <2>3, ModeFacts DEF set_self_refresh, IsPanelActive, IInv,
                                   DInv, ModeMatchesState
    <3>5. change_frequency(current_mode, en, since_mode_set, panel)
      BY <2>1, <2>3 DEF set_self_refresh
    <3>6. since_mode_set \in Int /\ panel \in PanelRegs
      BY DEF IInv, DInv, TypeOK, Ages
    <3>. QED
      BY <3>4, <3>5, <3>6, ChangeFrequencyShadow
  <2>. QED
    BY <2>2, <2>3
<1>2. CASE \E m \in NormalModes : mode_set(m)
  <2>1. PICK m \in NormalModes : mode_set(m)
    BY <1>2
  <2>2. CASE panel_state = "NORMAL"
    <3>1. change_frequency(m, self_refresh_active, since_mode_set, panel)
      BY <2>1, <2>2 DEF mode_set
    <3>2. since_mode_set \in Int /\ panel \in PanelRegs
          /\ self_refresh_active \in BOOLEAN
      BY DEF IInv, DInv, TypeOK, Ages
    <3>. QED
      BY <2>2, <3>1, <3>2, ChangeFrequencyShadow
  <2>3. CASE panel_state # "NORMAL"
    BY <2>1, <2>3 DEF mode_set
  <2>. QED
    BY <2>2, <2>3
<1>3. CASE commit_done
  <2>1. CASE panel_state = "LP"
    BY <1>3, <2>1 DEF commit_done
  <2>2. CASE panel_state # "LP"
    <3>1. panel_state = "NORMAL" /\ current_mode \in NormalModes
      BY <1>3, <2>2 DEF commit_done, IsPanelActive, IInv, DInv,
                        ModeMatchesState
    <3>2. self_refresh_active \in BOOLEAN /\ panel \in PanelRegs
      BY DEF IInv, DInv, TypeOK
    <3>3. CASE \E age \in Int :
                 change_frequency(current_mode, self_refresh_active, age,
                                  panel)
      BY <3>1, <3>2, <3>3, ChangeFrequencyShadow
    <3>4. CASE UNCHANGED <<driverVars, panel_idle_vrefresh, panel>>
      BY <1>3, <3>4 DEF commit_done, IInv, driverVars
    <3>5. since_mode_set \in Int
      BY DEF IInv, DInv, TypeOK, Ages
    <3>. QED
      BY <1>3, <3>3, <3>4, <3>5 DEF commit_done, trigger_early_exit
  <2>. QED
    BY <2>1, <2>2
<1>4. CASE \E m \in NormalModes : set_nolp_mode(m)
  <2>1. PICK m \in NormalModes : set_nolp_mode(m)
    BY <1>4
  <2>2. current_mode.is_lp_mode
    BY <2>1, ModeFacts DEF set_nolp_mode, IInv, DInv, ModeMatchesState
  <2>3. [panel EXCEPT !.aod = FALSE] \in PanelRegs /\ since_mode_set \in Int
        /\ self_refresh_active \in BOOLEAN
    <3>1. panel \in PanelRegs /\ since_mode_set \in Int
          /\ self_refresh_active \in BOOLEAN
      BY DEF IInv, DInv, TypeOK, Ages
    <3>. QED
      BY <3>1 DEF PanelRegs
  <2>4. change_frequency(m, self_refresh_active, since_mode_set,
                         [panel EXCEPT !.aod = FALSE])
    BY <2>1 DEF set_nolp_mode
  <2>5. PanelConfig(panel')
          = ShadowConfigOf(hw_vrefresh', hw_idle_vrefresh', hw_feat')
    BY <2>2, <2>3, <2>4, ChangeFrequencyShadow
  <2>. QED
    BY <2>5
<1>5. CASE set_lp_mode
  BY <1>5 DEF set_lp_mode
<1>6. CASE enable
  <2>1. CASE current_mode.is_lp_mode
    BY <1>6, <2>1 DEF enable
  <2>2. CASE ~current_mode.is_lp_mode
    <3>3. current_mode \in NormalModes
      BY <1>6, <2>2, ModeFacts DEF enable, IInv, DInv, TypeOK
    <3> DEFINE p0 == [PanelReset EXCEPT !.r5A = 1]
    <3>4. /\ current_mode.vrefresh \in {60, 120}
          /\ p0 \in PanelRegs
          /\ auto_mode_vrefresh \in {0} \cup AutoRates
          /\ feat \in {{}, Features}
          /\ feat # {} => auto_mode_vrefresh \in AutoRates
      BY <3>3, ModeFacts DEF p0, PanelReset, PanelRegs, IInv, DInv, TypeOK,
                             FeatCoupled, FeatNeedsIdle
    <3>5. /\ panel' \in SendFeatCmds(p0, current_mode.vrefresh,
                                     auto_mode_vrefresh, feat)
          /\ hw_vrefresh' = current_mode.vrefresh
          /\ hw_idle_vrefresh' = auto_mode_vrefresh
          /\ hw_feat' = feat
      BY <1>6, <2>2 DEF enable, p0
    <3>6. panel' = PanelFeatCmds(p0, current_mode.vrefresh, auto_mode_vrefresh,
                                 feat)
      BY <3>5, SendReliable
    <3>7. PanelConfig(PanelFeatCmds(p0, current_mode.vrefresh,
                                    auto_mode_vrefresh, feat))
            = ShadowConfigOf(current_mode.vrefresh, auto_mode_vrefresh, feat)
      BY <3>4, EnableConfig DEF p0
    <3>. QED
      BY <3>5, <3>6, <3>7
  <2>. QED
    BY <2>1, <2>2
<1>7. CASE disable
  BY <1>7 DEF disable
<1>8. CASE \E en \in BOOLEAN : set_local_hbm_mode(en)
  BY <1>8 DEF set_local_hbm_mode, IInv, driverVars
<1>9. CASE update_te2
  <2>1. panel \in PanelRegs
    BY DEF IInv, DInv, TypeOK
  <2>. QED
    BY <1>9, <2>1, PanelConfigOtherRegs DEF update_te2, IInv, driverVars,
                                           ctxVars
<1>10. CASE \/ \E v \in MinVrefreshValues : SetMinVrefresh(v)
            \/ \E b \in BOOLEAN : SetHbm(b) \/ SetDimming(b)
                                  \/ SetPanelIdleEnabled(b)
            \/ \E d \in TickSteps : Tick(d)
  BY <1>10 DEF SetMinVrefresh, SetHbm, SetDimming, SetPanelIdleEnabled,
               Tick, IInv, driverVars, ctxVars
<1>11. CASE UNCHANGED vars
  BY <1>11 DEF IInv, vars, driverVars, ctxVars
<1>. QED
  BY <1>1, <1>2, <1>3, <1>4, <1>5, <1>6, <1>7, <1>8, <1>9, <1>10, <1>11
     DEF Next

(* IInv is inductive on revisions before EVT1. *)
LEMMA NextIInv ==
    ASSUME ~PanelRevGeEvt1, ~TransportFaults
    PROVE  IInv /\ [Next]_vars => IInv'
<1> SUFFICES ASSUME IInv, [Next]_vars PROVE IInv'
  OBVIOUS
<1>1. DInv'
  BY NextDInv DEF IInv
<1>2. ShadowCoherent'
  BY NextShadow
<1>. QED
  BY <1>1, <1>2 DEF IInv

(***************************************************************************)
(* SHADOW COHERENCE, for every table of modes on revisions before EVT1:    *)
(* while the panel is on and out of AOD, the hw_* shadow of struct         *)
(* nt37290_panel describes the frame configuration the panel's registers   *)
(* hold, so the skip in nt37290_update_panel_feat never leaves a stale     *)
(* configuration on the panel.  The reset of nt37290_enable and the AOD    *)
(* commands are repaired by the enforced update (was_lp_mode) and the     *)
(* batch sent on enable; on EVT1 the LHBM sequence breaks it (run lhbm),  *)
(* and so does a send that fails part-way (run transport_fault).          *)
(***************************************************************************)
THEOREM ShadowCoherence ==
    ASSUME ~PanelRevGeEvt1, ~TransportFaults
    PROVE  Spec => []ShadowCoherent
<1>1. Init => IInv
  <2> SUFFICES ASSUME Init PROVE IInv
    OBVIOUS
  <2>1. DInv
    BY InitDInv
  <2>. QED
    BY <2>1 DEF Init, IInv, ShadowCoherent
<1>2. IInv /\ [Next]_vars => IInv'
  BY NextIInv
<1>. QED
  BY <1>1, <1>2, PTL DEF Spec, IInv


(***************************************************************************)
(* The idle rate ctx->panel_idle_vrefresh reports.                         *)
(***************************************************************************)

(* A mode without panel idle never gets an idle rate from               *)
(* nt37290_update_min_idle_vrefresh.                                     *)
LEMMA UnsupportedNoIdle ==
    ASSUME NEW pmode, pmode.idle_mode = "IDLE_MODE_UNSUPPORTED", NEW age
    PROVE  update_min_idle_vrefresh(pmode, age).idle = 0
BY DEF update_min_idle_vrefresh

(* nt37290_change_frequency publishes a non-zero idle rate only with self *)
(* refresh active and idle_active true, so with both features committed   *)
(* and the committed idle rate equal to the published one.               *)
LEMMA ChangeFrequencyReport ==
    ASSUME NEW pmode \in NormalModes \cup {LpMode}, NEW sr \in BOOLEAN,
           NEW age, NEW p0,
           change_frequency(pmode, sr, age, p0)
    PROVE  panel_idle_vrefresh' # 0
               => /\ panel_idle_vrefresh' = hw_idle_vrefresh'
                  /\ hw_feat' = Features
<1> DEFINE r == update_min_idle_vrefresh(pmode, age)
           f == IF IdleActive(pmode, r.idle, sr) THEN Features ELSE {}
<1>1. /\ panel_idle_vrefresh' = IF sr THEN hw_idle_vrefresh' ELSE 0
      /\ hw_idle_vrefresh' = r.idle
      /\ hw_feat' = f
  BY DEF change_frequency, update_panel_feat, FeatUnchanged, r, f
<1>2. pmode.idle_mode \in IdleModes
  BY ModeFacts DEF IdleModes
<1>3. pmode.idle_mode = "IDLE_MODE_UNSUPPORTED" => r.idle = 0
  BY UnsupportedNoIdle DEF r
<1>. QED
  BY <1>1, <1>2, <1>3 DEF IdleActive, IdleModes, f

(* Every handler keeps IdleReported, on every panel revision. *)
LEMMA NextIdleReported ==
    ASSUME DInv, IdleReported, [Next]_vars
    PROVE  IdleReported'
<1>1. ASSUME NEW pm \in NormalModes \cup {LpMode}, NEW sr \in BOOLEAN,
             NEW age, NEW p0, change_frequency(pm, sr, age, p0)
      PROVE  IdleReported'
  BY <1>1, ChangeFrequencyReport DEF IdleReported
<1>2. CASE panel_state' # "NORMAL" \/ panel_idle_vrefresh' = 0
  BY <1>2 DEF IdleReported
<1>3. CASE UNCHANGED <<panel_state, panel_idle_vrefresh, hw_idle_vrefresh,
                       hw_feat>>
  BY <1>3 DEF IdleReported
<1>4. /\ self_refresh_active \in BOOLEAN
      /\ IsPanelActive => current_mode \in NormalModes \cup {LpMode}
  BY DEF DInv, TypeOK, IsPanelActive, ModeMatchesState
<1>5. ASSUME NEW b \in BOOLEAN, set_self_refresh(b)
      PROVE  IdleReported'
  <2>1. CASE current_mode.is_lp_mode
    BY <1>3, <1>5, <2>1 DEF set_self_refresh, driverVars
  <2>2. CASE ~current_mode.is_lp_mode
    <3>1. current_mode \in NormalModes \cup {LpMode}
      BY <1>4, <1>5 DEF set_self_refresh
    <3>2. change_frequency(current_mode, b, since_mode_set, panel)
      BY <1>5, <2>2 DEF set_self_refresh
    <3>. QED
      BY <1>1, <3>1, <3>2
  <2>. QED
    BY <2>1, <2>2
<1>6. ASSUME NEW m \in NormalModes, mode_set(m)
      PROVE  IdleReported'
  <2>1. CASE panel_state = "NORMAL"
    <3>1. change_frequency(m, self_refresh_active, since_mode_set, panel)
      BY <1>6, <2>1 DEF mode_set
    <3>. QED
      BY <1>1, <1>4, <3>1
  <2>2. CASE panel_state = "OFF"
    BY <1>2, <1>6, <2>2 DEF mode_set
  <2>. QED
    BY <1>6, <2>1, <2>2 DEF mode_set
<1>7. ASSUME commit_done
      PROVE  IdleReported'
  <2>1. current_mode \in NormalModes \cup {LpMode}
    BY <1>4, <1>7 DEF commit_done
  <2>2. CASE \E age \in {0, since_mode_set} :
               change_frequency(current_mode, self_refresh_active, age, panel)
    BY <1>1, <1>4, <2>1, <2>2
  <2>3. CASE UNCHANGED <<driverVars, panel_idle_vrefresh, panel>>
             /\ UNCHANGED panel_state
    BY <1>3, <2>3 DEF driverVars
  <2>. QED
    BY <1>7, <2>2, <2>3 DEF commit_done, trigger_early_exit
<1>8. ASSUME NEW m \in NormalModes, set_nolp_mode(m)
      PROVE  IdleReported'
  BY <1>1, <1>4, <1>8 DEF set_nolp_mode
<1>. QED
  BY <1>2, <1>3, <1>5, <1>6, <1>7, <1>8
     DEF Next, set_lp_mode, enable, disable, set_local_hbm_mode, update_te2,
         SetMinVrefresh, SetHbm, SetDimming, SetPanelIdleEnabled, Tick,
         vars, driverVars, ctxVars

(* The auto payload of a rate, in force with frame skip, is what the      *)
(* panel's auto frame insertion drops to.                                 *)
LEMMA AutoIdleOfShadow ==
    ASSUME NEW p, NEW v, NEW idle \in AutoRates,
           PanelConfig(p) = ShadowConfigOf(v, idle, Features)
    PROVE  PanelAutoIdle(p) = idle
<1>1. /\ p.r2F = FreqCtrlHs
      /\ p.rBA = AfiAuto(idle)
  BY DEF PanelConfig, ShadowConfigOf, Features
<1>2. \E r \in AutoRates : p.rBA = AfiAuto(r)
  BY <1>1
<1>3. p.rBA.rate = idle
  BY <1>1 DEF AfiAuto
<1>. QED
  BY <1>1, <1>2, <1>3 DEF PanelAutoIdle

(***************************************************************************)
(* IDLE RATE REPORT, on revisions before EVT1 and with a reliable          *)
(* transport: while the panel is on and out of AOD, a non-zero idle rate   *)
(* that nt37290_change_frequency publishes in ctx->panel_idle_vrefresh is  *)
(* the rate the panel's registers make it drop to.  The inductive          *)
(* invariant is IInv /\ IdleReported: the report matches the shadow, and   *)
(* the shadow the registers.                                               *)
(***************************************************************************)
THEOREM PanelIdleHonestInvariant ==
    ASSUME ~PanelRevGeEvt1, ~TransportFaults
    PROVE  Spec => []PanelIdleHonest
<1> DEFINE RInv == IInv /\ IdleReported
<1>1. Init => RInv
  <2> SUFFICES ASSUME Init PROVE RInv
    OBVIOUS
  <2>1. DInv
    BY InitDInv
  <2>. QED
    BY <2>1 DEF Init, IInv, ShadowCoherent, IdleReported
<1>2. RInv /\ [Next]_vars => RInv'
  BY NextIInv, NextIdleReported DEF IInv
<1>3. RInv => PanelIdleHonest
  <2> SUFFICES ASSUME RInv, panel_state = "NORMAL", panel_idle_vrefresh # 0
               PROVE  PanelAutoIdle(panel) = panel_idle_vrefresh
    BY DEF PanelIdleHonest
  <2>1. /\ panel_idle_vrefresh = hw_idle_vrefresh
        /\ hw_feat = Features
        /\ hw_idle_vrefresh \in AutoRates
    BY DEF IdleReported, IInv, DInv, TypeOK
  <2>2. PanelConfig(panel)
          = ShadowConfigOf(hw_vrefresh, hw_idle_vrefresh, Features)
    BY <2>1 DEF IInv, ShadowCoherent, ShadowConfig
  <2>. QED
    BY <2>1, <2>2, AutoIdleOfShadow
<1>. QED
  BY <1>1, <1>2, <1>3, PTL DEF Spec


(***************************************************************************)
(* The long-idle commit of nt37290_trigger_early_exit.                     *)
(***************************************************************************)

(* IInv holds in every reachable state, on revisions before EVT1 and with *)
(* a reliable transport.                                                  *)
LEMMA IInvInvariant ==
    ASSUME ~PanelRevGeEvt1, ~TransportFaults
    PROVE  Spec => []IInv
<1>1. Init => IInv
  BY InitDInv DEF Init, IInv, ShadowCoherent
<1>2. IInv /\ [Next]_vars => IInv'
  BY NextIInv
<1>. QED
  BY <1>1, <1>2, PTL DEF Spec

(* The only step that restarts the commit age after a long idle with      *)
(* early exit on is nt37290_commit_done taking the long-idle branch of    *)
(* nt37290_trigger_early_exit: its mode-set stamp delays the idle rate,   *)
(* so it commits no idle rate and no feature.                             *)
LEMMA LongIdleDecision ==
    ASSUME DInv, [Next]_vars, LongIdleCommit
    PROVE  /\ hw_idle_vrefresh' = 0
           /\ hw_feat' = {}
           /\ panel_state' = "NORMAL"
<1>1. /\ since_commit \in Nat
      /\ since_commit * 1000 > IDLE_DELAY_THRESHOLD_US
      /\ since_commit <= AgeCap
  BY ConstantsAssumption DEF DInv, TypeOK, Ages, LongIdleCommit
<1>2. commit_done
  <2> SUFFICES ASSUME ~commit_done PROVE FALSE
    OBVIOUS
  <2>1. since_commit # 0
    BY <1>1 DEF IDLE_DELAY_THRESHOLD_US
  <2>2. CASE \E d \in TickSteps : Tick(d)
    <3>1. PICK d \in TickSteps : Tick(d)
      BY <2>2
    <3>2. d \in Nat /\ AgeCap \in Nat
      BY ConstantsAssumption
    <3>3. since_commit' # 0
      BY <1>1, <2>1, <3>1, <3>2 DEF Tick
    <3>. QED
      BY <3>3 DEF LongIdleCommit
  <2>3. CASE ~\E d \in TickSteps : Tick(d)
    <3>1. CASE \E b \in BOOLEAN : set_self_refresh(b)
      BY <2>1, <3>1 DEF set_self_refresh, LongIdleCommit
    <3>2. CASE \E m \in NormalModes : mode_set(m) \/ set_nolp_mode(m)
      BY <2>1, <3>2 DEF mode_set, set_nolp_mode, LongIdleCommit
    <3>3. CASE set_lp_mode \/ enable \/ disable
      BY <2>1, <3>3 DEF set_lp_mode, enable, disable, LongIdleCommit
    <3>4. CASE \/ \E b \in BOOLEAN : set_local_hbm_mode(b)
               \/ update_te2
      BY <2>1, <3>4 DEF set_local_hbm_mode, update_te2, LongIdleCommit
    <3>5. CASE \/ \E v \in MinVrefreshValues : SetMinVrefresh(v)
               \/ \E b \in BOOLEAN : SetHbm(b) \/ SetDimming(b)
                                     \/ SetPanelIdleEnabled(b)
      BY <2>1, <3>5 DEF SetMinVrefresh, SetHbm, SetDimming,
                        SetPanelIdleEnabled, LongIdleCommit
    <3>6. CASE UNCHANGED vars
      BY <2>1, <3>6 DEF vars, LongIdleCommit
    <3>. QED
      BY <2>3, <3>1, <3>2, <3>3, <3>4, <3>5, <3>6, Zenon DEF Next
  <2>. QED
    BY <2>2, <2>3
<1>3. /\ change_frequency(current_mode, self_refresh_active, 0, panel)
      /\ ~self_refresh_active
      /\ panel_state' = panel_state
  <2>1. trigger_early_exit
    BY <1>2 DEF commit_done, LongIdleCommit
  <2>2. /\ ~(since_commit * 1000 < EARLY_EXIT_THRESHOLD_US)
        /\ IdleDelayMs # 0 /\ since_commit * 1000 > IDLE_DELAY_THRESHOLD_US
    BY <1>1 DEF LongIdleCommit, EARLY_EXIT_THRESHOLD_US,
                IDLE_DELAY_THRESHOLD_US
  <2>. QED
    BY <1>2, <2>1, <2>2 DEF trigger_early_exit, commit_done
<1> DEFINE r == update_min_idle_vrefresh(current_mode, 0)
<1>4. r.idle = 0
  <2>1. IdleDelayMs \in Nat \ {0}
    BY ConstantsAssumption DEF LongIdleCommit
  <2>. QED
    BY <2>1 DEF update_min_idle_vrefresh, r
<1>5. /\ hw_idle_vrefresh' = r.idle
      /\ hw_feat' = IF IdleActive(current_mode, r.idle, self_refresh_active)
                    THEN Features ELSE {}
  BY <1>3 DEF change_frequency, update_panel_feat, FeatUnchanged, r
<1>. QED
  BY <1>3, <1>4, <1>5 DEF IdleActive, LongIdleCommit

(* Registers that match a shadow with no idle rate and no feature run no  *)
(* auto frame insertion and no early exit.                                *)
LEMMA NoAutoWithoutFeatures ==
    ASSUME NEW p, NEW v, PanelConfig(p) = ShadowConfigOf(v, 0, {})
    PROVE  /\ PanelAutoIdle(p) = 0
           /\ ~PanelConfig(p).early_exit
<1>1. ~PanelConfig(p).early_exit
  <2>1. CASE v = 120
    <3>1. ShadowConfigOf(v, 0, {})
            = [frame_skip |-> FALSE, early_exit |-> FALSE, afi |-> NoFrameSkip,
               te_shift |-> 0]
      BY <2>1 DEF ShadowConfigOf
    <3>. QED
      BY <3>1
  <2>2. CASE v # 120
    <3>1. ShadowConfigOf(v, 0, {}).early_exit = (EarlyExit \in {})
      BY <2>2 DEF ShadowConfigOf
    <3>. QED
      BY <3>1, Zenon
  <2>. QED
    BY <2>1, <2>2
<1>2. p.r2F = FreqCtrlHs => p.rBA = AfiManual(v)
  BY Zenon DEF PanelConfig, ShadowConfigOf
<1>3. \A r \in AutoRates : AfiManual(v) # AfiAuto(r)
  BY DEF AfiManual, AfiAuto
<1>. QED
  BY <1>1, <1>2, <1>3 DEF PanelAutoIdle

(***************************************************************************)
(* EARLY EXIT DROPS AUTO, on revisions before EVT1 and with a reliable     *)
(* transport: a commit after more than 50 ms of idle with early exit on    *)
(* and an idle delay configured leaves the panel with neither auto frame   *)
(* insertion nor early exit (nt37290_trigger_early_exit, "disable auto     *)
(* idle mode").  It rests on IInv in the states before and after the step. *)
(***************************************************************************)
THEOREM EarlyExitDropsAutoHolds ==
    ASSUME ~PanelRevGeEvt1, ~TransportFaults
    PROVE  Spec => EarlyExitDropsAuto
<1>1. IInv /\ IInv' /\ [Next]_vars
        => [LongIdleCommit => /\ PanelAutoIdle(panel') = 0
                              /\ ~PanelConfig(panel').early_exit]_vars
  <2> SUFFICES ASSUME IInv, IInv', [Next]_vars, LongIdleCommit
               PROVE  /\ PanelAutoIdle(panel') = 0
                      /\ ~PanelConfig(panel').early_exit
    OBVIOUS
  <2>1. /\ hw_idle_vrefresh' = 0
        /\ hw_feat' = {}
        /\ panel_state' = "NORMAL"
    BY LongIdleDecision DEF IInv
  <2>2. PanelConfig(panel') = ShadowConfigOf(hw_vrefresh', 0, {})
    BY <2>1 DEF IInv, ShadowCoherent, ShadowConfig
  <2>. QED
    BY <2>2, NoAutoWithoutFeatures
<1>. QED
  BY <1>1, IInvInvariant, PTL DEF Spec, EarlyExitDropsAuto

=============================================================================
