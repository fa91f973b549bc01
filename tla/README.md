# Verification of the nt37290 panel driver's refresh-rate engine

This directory holds TLA+ models of the BOE nt37290 panel driver in
`src/unnamed/part_000`, the TLC configurations that check them on small
instances, and the TLAPS proofs of the main invariants. The exynos DSI
header (`src/samsung/exynos_drm_dsim.h`) is also in this source; the code
that sends commands through it is not (see "Not modelled").

## The system

The driver sits under the common exynos panel driver. That driver is not in
this source. It owns `struct exynos_panel` (`ctx`), takes the panel lock and
calls this driver's hooks. The hooks are `mode_set`, `set_self_refresh`,
`commit_done`, `set_nolp_mode`, `set_local_hbm_mode`, `update_te2`, and the
DRM `enable`/`disable`.

The driver keeps its own state in `struct nt37290_panel` (lines 48-69):

- **`feat`**: the wanted set of correlated features (early exit, frame auto).
- **`auto_mode_vrefresh`** and **`delayed_idle`**: the wanted idle rate, and
  whether that idle rate is held back by the idle delay.
- **the `hw_*` shadow** (`hw_feat`, `hw_vrefresh`, `hw_idle_vrefresh`): what
  was last committed to the panel.

The parts (spec section 4) and how they interact:

| Part | Code | Role |
|---|---|---|
| IdleRateResolver | `nt37290_update_min_idle_vrefresh`, `is_auto_mode_allowed` (394-437) | Turns `ctx->min_vrefresh`, HBM/dimming, the panel-idle switch, the mode's idle policy and the idle delay into `auto_mode_vrefresh` and `delayed_idle`. |
| FrequencyOrchestrator | `nt37290_change_frequency` (536-572) and its callers | Sets `feat` from the idle rate and idle policy, then calls the reconciliation, enforced when leaving AOD. Publishes `ctx->panel_idle_vrefresh` under self refresh. |
| FeatureSet / Reconciliation | `nt37290_update_panel_feat` (439-534) | Skips everything when the wanted state equals the shadow. Otherwise commits the shadow and sends the batch. |
| CommandBatchBuilder | the batch in lines 476-531 | Writes 2Fh (manual / frame skip), 5Ah (early exit disabled), the BAh auto-frame-insertion payload and 44h (TE shift). |
| EarlyExitTrigger | `nt37290_trigger_early_exit`, `nt37290_commit_done` (612-666) | On a commit with early exit on, re-runs change_frequency after a long idle. Re-applies a delayed idle for inactivity modes. |
| AOD | `nt37290_lp_cmds` (78-84), `nt37290_set_nolp_mode` (668-685) | Entering AOD forces manual mode. Leaving it re-runs change_frequency, enforced. |
| Power | `nt37290_enable`, `nt37290_disable` (687-724) | Reset plus an enforced batch. The shadow is reset to the panel's power-on state. |
| LHBM | `nt37290_set_local_hbm_mode` (741-780) | On EVT1 and later it also writes 2Fh. |
| TimingCalculator | `nt37290_get_te2_option`, `nt37290_update_te2` (340-392) | The TE2 option in C3h, fixed in AOD or for idle rates below 30 Hz. |

What makes this engine hard is the skip in `update_panel_feat`. It is correct
only if every other writer of those registers is followed by an enforced
update. The other writers are the reset on enable, the AOD commands and the
LHBM sequence. Every handler runs under the panel lock, so the hazards are
not data races. They are orders of handler calls that leave the shadow stale.
They are listed, each at its line, under `hazards` in `PROJECT.json`.

The batches go out through the DSI host, whose `.c` file is not in this
source. The panel driver never sees a send error: the
`EXYNOS_DCS_BUF_ADD_AND_FLUSH` macros return nothing to it.

## Modules

- **`Nt37290.tla`** is the driver and the panel's registers in one component
  module.
  - **Variables.** The driver's struct fields are variables, and so are the
    `ctx` fields the driver reads or writes. Two saturating ages stand for
    `ctx->last_commit_ts` and `ctx->last_mode_set_ts`. The variable `panel`
    holds the registers (2Fh, 5Ah, BAh@1Ch, 44h, C3h and the AOD flag).
  - **Actions.** Each hook is one action that contains its whole call tree.
    For example, `commit_done` calls `trigger_early_exit`, which calls
    `change_frequency`, which calls `update_panel_feat`. The hooks are the
    top-level `set_self_refresh`, `mode_set`, `commit_done`,
    `set_nolp_mode`, `enable`, `disable`, `set_local_hbm_mode` and
    `update_te2`.
  - **Caller side.** The caller's part is modelled from the spec and marked
    `spec_modelled` in the map:
    - `set_lp_mode` (`exynos_panel_set_lp_mode` sending `nt37290_lp_cmds`);
    - the input setters `SetMinVrefresh`, `SetHbm`, `SetDimming` and
      `SetPanelIdleEnabled`;
    - `Tick`, the passing of time.

    The caller replaces `current_mode` and stamps times after the hook
    returns, which is why `change_frequency` reads `was_lp_mode` from the old
    mode.
  - **Data abstraction.** The constants are the mode tables (`NormalModes`,
    `LpMode`), the panel revision, `idle_delay_ms`, the values a sysfs writer
    may give `min_vrefresh`, and the time steps. Command payloads are
    reduced to what they select: frame skip on or off, early exit, and the
    auto-frame-insertion rate.
  - **Transport faults.** The constant `TransportFaults` switches on a
    failing send. `FeatCmdsSent` is then every prefix of the batch in code
    order: 2Fh 00h, 2Fh 30h, 5Ah, 6Fh/BAh, 2Ch, 44h. `update_panel_feat` and
    `enable` leave the panel in any one of those states, while the shadow
    has already been committed (lines 466-468).
- **`MC_Nt37290.tla`** holds the instances:
  - `MC_NormalModes` is the shipped `nt37290_modes[]`: 60 Hz without idle, and
    120 Hz idling on self refresh.
  - `MC_InactivityModes` makes the 120 Hz mode idle on inactivity. That is
    the other policy the code handles, and only it reaches early exit and the
    delayed-idle path.
  - `MC_LpMode` is `nt37290_lp_mode`.
- **`Nt37290_proofs.tla`** holds the TLAPS proofs about `Nt37290`.

## Properties

- **`ShadowCoherent`**: while the panel is on and out of AOD, the frame
  configuration read from the registers equals the one the shadow describes.
  That configuration is frame skip, early exit, the payload in force and the
  TE shift. This is what the skip in `update_panel_feat` relies on.
- **`DesiredCommitted`**: in the same states, the shadow holds the current
  mode's rate, `auto_mode_vrefresh` and `feat`. A decision that is wrongly
  skipped shows up here.
- **`PanelIdleHonest`**: a non-zero `ctx->panel_idle_vrefresh` is the rate the
  panel's auto frame insertion really drops to.
- **`EarlyExitDropsAuto`** (an action property): a commit after more than
  50 ms with early exit on and an idle delay configured leaves the panel
  without auto frame insertion or early exit.
- **`IdleBelowTarget`**: spec section 3.
- **`AodManual`**: the comment in `nt37290_lp_cmds`.
- **`TypeOK`**: the type invariant.
- **`CoherentOutsideLhbm`**: `ShadowCoherent`, excused while local HBM is
  on. On EVT1 the LHBM sequence puts the panel in FPS gamma timing (2Fh 02h)
  on purpose; once LHBM is off again the panel must run what the shadow
  says.

## Runs

All runs use these bounds:

- `IdleDelayMs = 50`;
- `MinVrefreshValues = {0,10,30,60,90,120}`, which covers every tier of
  `update_min_idle_vrefresh`, the above-60 cap and the at-or-above-the-target
  cap;
- time steps of 17 and 34 ms, with ages saturating at 51 ms. These values
  make every threshold reachable on both sides: < 17 ms, 17-50 ms,
  > 50 ms, and the 50 ms idle delay.

Both mode tables are the real shapes of the code's table.

| Run | Instance | Checks | Result |
|---|---|---|---|
| `coherence` | shipped table, before EVT1 | TypeOK, ShadowCoherent, DesiredCommitted, PanelIdleHonest | pass (about 512k states) |
| `inactivity` | inactivity table, before EVT1 | ShadowCoherent, DesiredCommitted, EarlyExitDropsAuto | pass (about 444k states) |
| `lhbm` | shipped table, EVT1 | CoherentOutsideLhbm | violation: LHBM off leaves 2Fh 00h behind the shadow (code bug, line 775) |
| `stale_idle` | shipped table | IdleBelowTarget | violation: enable commits an idle rate computed for an earlier mode (line 703) |
| `aod` | inactivity table | AodManual | violation: commit_done in AOD turns frame skip on (line 641, latent with the shipped table) |

All runs use `TransportFaults = FALSE`. The two passing runs together fire
every action and every branch. `TypeOK` is checked once, in `coherence`.

The `lhbm` trace: a mode set to 60 Hz while the panel is off; `enable`
(2Fh 30h, frame skip with the manual 60 Hz BAh payload, as the shadow
says); LHBM on (2Fh 02h); LHBM off (2Fh 00h). The panel is now in
`freq_mode_hs` without frame skip, which the driver otherwise writes only
for 120 Hz without frame auto (line 479), while the shadow still says 60 Hz
with frame skip. A `change_frequency` with the same inputs is skipped by the
no-change test (lines 459-463), so nothing repairs it.

The `stale_idle` trace: a 120 Hz mode set with minimum rate 60, so
`auto_mode_vrefresh` is 60; `disable`; a mode set to 60 Hz while off, which
returns early (line 785) without recomputing it; `enable`. The shadow now
records `hw_idle_vrefresh` 60 at `hw_vrefresh` 60, against spec section 3
(the idle rate is 0 or below the target). With the shipped table `feat` is
empty, so the panel receives the manual 60 Hz payload: the wrong rate lives
in the shadow and in `auto_mode_vrefresh`, which the next no-change test
compares against.

The `aod` trace: a 120 Hz mode idling on inactivity with minimum rate 10
sets early exit and frame auto; `set_lp_mode` enters AOD without going
through `change_frequency`, so early exit stays in `feat`; a `commit_done`
more than 50 ms after the last commit calls `trigger_early_exit` (657-658),
whose long-idle branch calls `change_frequency` with the current mode, the
30 Hz LP mode (641). `was_lp_mode` forces the batch, which writes 2Fh 30h
(frame skip) in AOD, against the "manual mode (no frame skip)" comment of
`nt37290_lp_cmds` (line 81).

**Transport faults.** The model can also lose a suffix of a batch
(`TransportFaults = TRUE`), the shadow having already been committed (lines
466-468). No run checks it: the coherence property fails at the lost batch
itself, whatever the driver does, and a later skipped update cannot be told
apart in the state from a resend that was lost again. Spec section 7 allows
the panel to stay stale until the next successful reconciliation.

Every property of a passing run has a mutant in `PROJECT.json`: a plausible
bug in the mapped code that TLC then catches. The mutants are:

- a lost 120 Hz cap;
- an inverted early-exit polarity;
- an idle rate dropped from the no-change test;
- no enforcement when leaving AOD;
- the idle rate published outside self refresh;
- the mode-set stamp taken late.

**No fairness is assumed for the panel driver.** Every event comes from the
display pipeline, the user or time. The code does not oblige any of them to
happen. In particular, a delayed idle is re-applied only by a later commit,
and nothing guarantees one (hazard at line 663). Deadlock is checked: time
can always pass.

## Proofs

`Nt37290_proofs.tla` proves five theorems, assuming a reliable transport
(`~TransportFaults`), for every mode table satisfying
the assumptions (60/120 Hz normal modes and the 30 Hz LP mode) and for every
idle delay, minimum rate and time step:

- **`TypeCorrect`**: `Spec => []TypeOK`.
- **`DesiredCommittedInvariant`**: `Spec => []DesiredCommitted`, on every
  revision.
- **`ShadowCoherence`**: `Spec => []ShadowCoherent`, on revisions before
  EVT1, where the LHBM sequence leaves 2Fh alone. On EVT1 it fails while LHBM
  is on by design, and the `lhbm` run shows it fails after LHBM is off too.
- **`PanelIdleHonestInvariant`**: `Spec => []PanelIdleHonest`, on revisions
  before EVT1.
- **`EarlyExitDropsAutoHolds`**: `Spec => EarlyExitDropsAuto`, the action
  property, on revisions before EVT1.

None of the first three properties is inductive by itself. The strengthening is
`DInv`, the conjunction of:

- `TypeOK`;
- `FeatCoupled`: the two correlated features are set and cleared together,
  which `change_frequency` ensures;
- `FeatNeedsIdle`: features are set only with an auto rate, so the BAh
  payload is defined;
- `ModeMatchesState`: NORMAL has a normal mode and LP the LP mode. This is
  needed because `was_lp_mode` decides the enforcement;
- `DesiredCommitted`.

`IInv = DInv /\ ShadowCoherent`.

The argument runs as follows:

- `update_panel_feat` either sends a batch whose register effect equals
  `ShadowConfigOf` of the new shadow (lemma `FeatCmdsConfig`), or skips. It
  skips only when the shadow already equals the new decision and the panel is
  not leaving AOD (lemma `ChangeFrequencyEffect`).
- In the skip case the panel is NORMAL, so the old coherence carries over.
- `enable` sends the batch for the shadow it commits, after the reset.
- `update_te2` writes only C3h, which the configuration does not read.

`PanelIdleHonest` needs one more conjunct, `IdleReported` (in
`Nt37290.tla`). It says that while the panel is NORMAL, a non-zero
`panel_idle_vrefresh` equals `hw_idle_vrefresh`, and both features are
committed. It holds on every revision (lemma `NextIdleReported`):

- `change_frequency` publishes a non-zero rate only with self refresh on.
  The rate is then non-zero only for a mode that idles
  (`UnsupportedNoIdle`), so `idle_active` holds and the features are set
  (`ChangeFrequencyReport`).
- Every other handler either leaves the report and the shadow alone, or
  zeroes the report, or leaves NORMAL.

With `ShadowCoherent`, the registers then hold frame skip and the auto
payload of that rate (`AutoIdleOfShadow`).

`EarlyExitDropsAuto` is proved from `IInv` in the states before and after
the step (`IInvInvariant`). The argument:

- The only step that restarts the commit age after a long idle is
  `commit_done`. `Tick` cannot reach 0 from a positive age, and the other
  handlers leave the age alone.
- With early exit on, that step runs `trigger_early_exit`'s long-idle
  branch. Its mode-set stamp (age 0, below a non-zero `IdleDelayMs`)
  delays the idle rate, so `change_frequency` commits no rate and no
  feature (`LongIdleDecision`).
- Coherent registers of such a shadow show no auto insertion and no early
  exit (`NoAutoWithoutFeatures`).

TLC checked `IInv` as an invariant of both passing runs before it was
proved. It checked `IdleReported` on the `coherence`, `inactivity` and
`lhbm` configurations. All obligations are checked from scratch by `tlapm`
in about two minutes.

**Only model-checked:** the three violations. They are counterexamples on
one instance and need no proof. `PanelIdleHonest` and `EarlyExitDropsAuto`
are not proved on EVT1 or with transport faults, where `ShadowCoherent`
fails.

**Out of the prover's reach:** liveness and `ENABLED`. No liveness property
is stated, because the code assumes no fairness (above).

## Not modelled

- **Transport faults outside the feature batch.** Faults are injected only
  into the batch of `update_panel_feat` and `enable`. The LHBM, TE2 and AOD
  writes are single commands whose loss the properties do not distinguish
  from the panel ignoring them.
- **The DSI host.** `exynos_drm_dsim.h` declares the host's state
  (`cmd_lock`, `ph_wr_comp`, the link `state`, `MIPI_WR_TIMEOUT`) and
  prototypes. The code that locks, writes the FIFO, handles the interrupt,
  times out and enters ULPS is in `exynos_drm_dsim.c`, which is not in this
  source, and spec section 1 puts the transport out of scope. The driver
  model treats a batch send as one step.
- **The binned LP brightness tables and `set_brightness`'s buffered DBV
  write.** There is no DCS buffer model yet.
- **The TE2 edge values and when the common driver calls `update_te2`.**
- **`is_mode_seamless`.** Every mode set is taken as seamless. The modes
  share one resolution.
- **Panel revision decode.** The revision is a constant.
- **DSC and the brightness capability tables.**

## Plan for later work

1. Model the common driver's calls to `update_te2` and check a TE2 coherence
   property: C3h is FIXED whenever the panel may idle below 30 Hz.
2. Model the DCS buffer and its flush points, for `set_brightness` and the
   LHBM sequences.
3. Write an abstract specification of the reconciliation ("the panel shows
   the decided configuration") and refine the driver to it with `INSTANCE ...
   WITH` the shadow as the refinement mapping.
4. Add liveness for delayed idle, under an explicit assumption of periodic
   commits, stated as an assumption of the pipeline and not of this code.
