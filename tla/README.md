# Formal model of the BLE Controller timeslot interface

This directory holds TLA+ models of the nrfxlib BLE Controller's timeslot interface and of the controller lifecycle that hosts it. It has TLC configurations that check the models on small instances, and TLAPS proofs of their main invariants.

The repository's code under `src/` consists of two C headers and a Kconfig fragment:

- `src/ble_controller/include/timeslot.h` declares the timeslot API: session open and close, timeslot requests, the signal callback and its return structure, and the timing constants.
- `src/ble_controller/include/ble_controller.h` declares:
  - controller init, configuration, enable and disable;
  - the interrupt handlers;
  - `ble_controller_low_prio_tasks_process`.
- `src/unnamed/part_000` is the Kconfig entry `MPSL`.

The library's implementation is binary, so every definition is translated from the behaviour that these declarations and their doc comments contract. The map in `PROJECT.json` names the lines each definition stands for.

## The system and how its parts interact

| Part | Where | Model |
|------|-------|-------|
| Timeslot scheduler: a session goes Closed → Idle → Pending → Active | `timeslot_session_open/close`, `timeslot_request`, the START/BLOCKED notes | `Timeslot`: `session`, `req`, `hasPrev`, `left`, `slotLen` |
| Request validator | `timeslot_request_t`, the limits `TIMESLOT_*_US`, `NRF_EINVAL`/`NRF_EAGAIN` | `ParamsValid`, `RequestResult`, `NextRequestOk` |
| Signal dispatcher | `enum TIMESLOT_SIGNAL` (which context runs each signal), `timeslot_signal_return_param_t` | `hp`, `lp`, `lpq`, `Return`, `LowPrioProcess` |
| Clock source manager (HFXO) | `TIMESLOT_HFCLK_CFG`, POWER_CLOCK handler | `hfxo`, `hfxoUsers`, `SetClock`, `HfxoStarted` |
| Competing BLE radio events | RADIO/RTC0 handlers | `ble`, `BleSchedule`, `BleStart`, `BleEnd` |
| Controller lifecycle, LF clock config | `ble_controller_init/cfg_set/enable/disable`, `nrf_lf_clock_cfg_t`, `ble_controller_cfg_t` | `BleController`: `ctrl`, `lfclk`, `cfgs`, `cret` |
| What the timeslot interface promises | the START/BLOCKED notes, the exclusive-peripheral notes | `TimeslotArbiter`, refined by `Timeslot` |
| Kconfig `MPSL` | `part_000` | not modelled: build configuration |

The code runs in three execution contexts:

- **hp**: priority 0, which covers the RADIO, TIMER0 and RTC0 handlers. The callback sees START, TIMER0, RADIO and the EXTEND_* results here.
- **lp**: `ble_controller_low_prio_tasks_process`, which delivers the deferred BLOCKED, CANCELLED and SESSION_IDLE signals.
- **main**: thread mode, where the application calls `timeslot_session_open`, `timeslot_session_close` and `timeslot_request`.

A higher context preempts a lower one, so the model has these rules:

- A main-thread call runs only while no callback is running (`MainRuns`).
- An lp callback returns only while hp is idle.
- A signal the controller sends "in the same context as the previous signal" replaces the running callback's signal in that context (`SetSig`).

INVALID_RETURN and the EXTEND results are sent this way.

## The module Timeslot

Variables:

- `session`: the session state.
- `epoch`: the number of sessions opened so far. It identifies which session a deferred signal belongs to.
- `req`: the scheduled or running request.
- `hasPrev`: whether a timeslot has started in this session. A normal request measures its distance from that start.
- `left` and `slotLen`: the time left in the timeslot and its granted length.
- `hp`: the signal running in the hp context.
- `lp`: the signal running in the lp context, with its epoch.
- `lpq`: the deferred-signal queue.
- `ble`: the state of the BLE radio event.
- `hfxo` and `hfxoUsers`: the crystal and who requests it.
- `ret`: the last API return value.

A request is a record. Its `params` holds the two 32-bit words of the union:

- earliest requests: `<<length_us, timeout_us>>`;
- normal requests: `<<distance_us, length_us>>`.

`Length` and `TimeoutOrDistance` read the words by `request_type`, as the controller does. A request filled in through the wrong union member is therefore a real input.

Actions:

- `SessionOpen`, `SessionClose` and `TimeslotRequest(r)` are the API calls.
- `SessionClose` ends a running timeslot and cancels a scheduled one, deferring CANCELLED.
- `TimeslotRequest` returns `RequestResult(r)`. The checks run in the order of spec §4.2: the parameters, then earliest-first, then the session state. It accepts the request only on 0.
- `Start` grants the scheduled request when BLE is not on the air and, for XTAL_GUARANTEED, the crystal runs. It then dispatches START in hp.
- `Block` drops the request while a BLE event claims the radio, deferring BLOCKED and then SESSION_IDLE.
- `SlotIrq(s)` models TIMER0 or RADIO during the timeslot.
- `Tick` models time passing.
- `Expire` is the natural end of the timeslot.
- `Return(ctx, a)` is the callback in context `ctx` returning `a`. There are five cases:
  - NONE;
  - EXTEND, which succeeds when `ExtendFits` holds and BLE is idle, and otherwise sends EXTEND_FAILED;
  - END;
  - REQUEST with an acceptable `p_next`;
  - anything else. The timeslot ends and INVALID_RETURN is sent in the same context.
- `LowPrioProcess` hands the oldest deferred signal to the lp callback. With no session open, there is no callback and the signal is dropped.
- `BleSchedule`, `BleStart` and `BleEnd` model the controller's own radio event. Its crystal request is taken when the event is scheduled and released when it ends.
- `HfxoStarted` is the crystal becoming stable.

The operators defined just before an action (`TickUnguarded`, `StartOverBle`, `SessionCloseKeepsClock`, `ReturnInvalidNoEnd`, `SetClockNoStart`, `SetClockNoStop`, `RequestResultAnyFirst`, `BlockFirst`) are fault models of that action. Each is a plausible coding error, and each property is shown to catch one of them.

## Runs

All runs use `MC_Timeslot`, with the constants in `MC_Timeslot.cfg`:

- Times are in ticks. Lengths are 2..3, timeouts and distances are 1..2, and extensions are 1 or 2 with a minimum of 2 and a margin of 1.
- There are four requests:
  - a valid earliest request on the crystal;
  - a valid normal request without a clock guarantee;
  - an earliest request that is too short;
  - a normal request filled in through the earliest member, so its length is too short.
- The application may return the bad action code 4.
- Sessions are bounded by `MAX_OPENS = 2`, slot length by `MAX_SLOT_US = 4`, and pending deferred signals by `LPQ_MAX = 2`.

With these bounds every case occurs:

- reopen after close with a deferred signal still queued;
- a successful extension and a failed one, both at the margin and below the minimum;
- REQUEST returned from inside a timeslot and from the lp context;
- an invalid return inside and outside a timeslot;
- BLE holding the crystal while an XTAL_GUARANTEED timeslot runs.

**timeslot_safety** (pass; FairSpec; 19 224 distinct states) checks these properties:

- `TypeOK`.
- `RadioExclusive`: the timeslot and a BLE event never hold the radio together.
- `XtalReleased`: the timeslot holds a crystal request exactly while it has an XTAL_GUARANTEED request scheduled or running. Every end, block, cancel, forced end and close releases the request.
- `SignalsMatchSlot`: slot signals run only inside a timeslot, and INVALID_RETURN only after the timeslot has ended.
- `FirstRequestEarliest`: a normal request is scheduled or running only once a timeslot of the session has started, so the first request of every session is earliest (timeslot.h:271). It is the arbiter's `FirstEarliest` read through the refinement mapping. The fault model `RequestResultAnyFirst` (the earliest-first check left out) breaks it.
- `DeferredInSessionOrder`: deferred BLOCKED, CANCELLED and SESSION_IDLE signals are queued, and reach the lp context, in the order of the sessions (epochs) that caused them; none belongs to a session not yet opened. The fault model `BlockFirst` (BLOCKED and SESSION_IDLE put at the front of the queue) breaks it after a close, a reopen and a block.
- `RequestResolved`, a liveness property: every scheduled request is eventually started, blocked or cancelled.

`ImplementsArbiter` (also in this run) is the refinement described below.

**timeslot_iinv** (pass) checks the inductive invariant `IInv` that the proofs use. `IInv` contains `XtalHeld`. In `Timeslot` alone, no step that can run during a timeslot stops the crystal: `BleEnd` cannot happen then, by `RadioExclusive`. So `XtalHeld` is only a property worth checking in the composition, where `ble_controller_disable` drops BLE's request during a timeslot (controller_lifecycle below).

Two things are left unchecked on purpose:

- **Recovery from an invalid return** (timeslot.h:86-91) depends only on the application eventually returning a valid value. A liveness property would have to assume that as fairness, which is its conclusion.
- **The extension boundary** (timeslot.h:103-111) is the single comparison in `ExtendFits`. A property of it would only restate that comparison.

Two violation runs record disagreements between the interface's documentation and the behaviour it describes (see "findings" in `PROJECT.json`):

- **stale_cancelled**: the CANCELLED from a close is delivered to the *next* session's callback if the application reopens before low-priority processing runs.
- **late_session_idle**: a deferred SESSION_IDLE arrives after the application, answering BLOCKED, has already scheduled a new request.

## The abstract arbiter and the refinement

`TimeslotArbiter` is what the interface promises, without contexts, signals, time or the crystal: a session walks Closed → Idle → Pending → Active and back (`Open`, `Close`, `Submit`, `Grant`, `Deny`, `Finish`); the first request of a session is earliest and a request from inside a timeslot is normal; the radio is owned by at most one of the application (`"App"`) and BLE (`BleTake`, `BleGive`). `ArbSpec` adds weak fairness of `Grant \/ Deny`: a scheduled request is granted or given up. Its invariant `ArbInv` says the radio is the application's exactly while its timeslot runs (`ArbExclusive`), a normal request exists only after a timeslot of the session has started (`FirstEarliest`), and a request is held exactly while the session is Pending or Active.

`Timeslot` maps onto it with `Arb == INSTANCE TimeslotArbiter WITH state <- session, owner <- Owner, kind <- Kind, started <- hasPrev`. `Owner` is `"App"` while the session is Active, else `"BLE"` while a BLE event is on the air, else `"None"`; `Kind` reads `request_type` of `req`. Every internal step (ticks, slot interrupts, signal returns that do not change the session, lp processing, BLE scheduling, crystal start-up) is a stutter of the arbiter. TLC checks `ImplementsArbiter == Arb!ArbSpec` under `FairSpec`, and `TimeslotRefinement` proves the safety part for all constants.

## The module BleController (composition)

`BleController` EXTENDS `Timeslot` and adds the controller lifecycle of ble_controller.h:

- `ctrl`: `"Uninit"`, `"Initialized"`, `"Enabled"` or `"Disabled"`;
- `lfclk`: the LF clock configuration accepted by init (`NoClkCfg` before);
- `cfgs`: the resource configuration per tag, initially `DefaultCfg` (the `BLE_CONTROLLER_DEFAULT_*` values);
- `cret`: the last return value of these calls.

Actions:

- `BleControllerInit(c)`: `c = NoClkCfg` (NULL) selects `DefaultClkCfg`; otherwise `LfClockCfgValid(c)` (source in RC/XTAL/SYNTH, accuracy 0..11, the RC-only fields 0 for a non-RC source, `rc_temp_ctiv` 0..33) decides between success and `-NRF_EINVAL`.
- `BleControllerCfgSet(i)`: an unknown type gives `-NRF_EOPNOTSUPP`; `CFG_TYPE_NONE` returns the memory the tag's current configuration requires (`MemRequired`, an opaque constant operator); the other types store a valid value and return the memory requirement, or return `-NRF_EINVAL` for an invalid one (a packet size outside 27..251). Resource types are allowed before enable only, as the header demands; the event length also later.
- `BleControllerEnable`, `BleControllerDisable`: disable stops BLE synchronously: the radio event ends and BLE's crystal request is dropped (the crystal stays on if a timeslot still needs it).

`CNext` composes them: the timeslot API is callable after init, `BleSchedule` only while enabled, and the internal steps of `Timeslot` always. There is no re-init after disable; the fault handler and the HCI path are not modelled.

**controller_lifecycle** (pass; `MC_BleController.cfg`; about 1.5 million distinct states, 40 s) uses the timeslot instance above with its two valid requests, three clock configurations (a valid crystal one, a crystal one with `rc_ctiv = 16`, an RC one with `rc_temp_ctiv = 34`), and six cfg_set inputs on tag 0 (counts, a valid and an invalid buffer size, event length, NONE and unknown type 5). It checks:

- `CtrlTypeOK`: only valid clock and resource configurations are stored;
- `BleOnlyWhenEnabled`: a BLE event exists only while the controller is enabled, so disable cannot leave one behind;
- `BleXtalReleased`: BLE requests the crystal exactly while it has an event, so disable releases it;
- `XtalHeld`: disable during an XTAL_GUARANTEED timeslot does not stop the crystal;
- `ArbiterSafety`: the composition still implements the safety part of `TimeslotArbiter` (the fault model `StartOverBle` of `Timeslot` breaks it here too).

The fault models `BleControllerInitNoRcCheck`, `DisableKeepsBle`, `DisableKeepsBleXtal` and `DisableStopsXtal` are each caught by one of these.

## Fairness

`Fairness` is weak fairness of `Start \/ Block` and of `HfxoStarted`:

- The header promises that a successful request results in START and an unsuccessful one in BLOCKED (timeslot.h:273-274), so a scheduled request is not left pending forever.
- A started crystal becomes stable.

The API calls, the other callback returns and the BLE events get no fairness, because they are the application's and the link layer's choices.

## What is proved (TimeslotProofs)

The theorems are proved for every value of the constants allowed by `TimingAssumption` and `InputAssumption`:

- `IInvInductive`: `IInv /\ [Next]_vars => IInv'`.
- With `InitIInv`, this gives `IInvHolds`, and from it `TypeCorrect`, `RadioExclusiveHolds`, `XtalReleasedHolds` and `SignalsMatchSlotHolds`, each of the form `Spec => []P`.

`IInv` strengthens the checked invariants with two conjuncts:

- `ClockMatchesUsers`: the crystal is off exactly when nobody requests it. Without it, `BleEnd` could not be shown to keep the crystal on under a running XTAL_GUARANTEED timeslot.
- `RequestState`: a scheduled or running request passed `ParamsValid`, and an idle or closed session holds none. Without it, `Start` could not be shown to keep `slotLen` within its bound.

The proof has one lemma per action, and `Return` has one lemma per kind of return. They rest on small lemmas about `SetClock`, `ClockFor`, `SetSig`, the signal sets and the queue operations (`Append`, `Head`, `Tail`, through `SequenceTheorems`).

## What is proved (TimeslotQueueProofs)

`DeferredInSessionOrderHolds`: `Spec => []DeferredInSessionOrder`. The invariant is inductive with `TypeOK` alone, and is stated through three operators on a queue: `EpochsUpTo(q, n)`, `EpochsSorted(q)` and `EpochsFrom(q, m)`. Lemmas about the sequence operators carry them across each kind of queue change:

- `AppendOrder`: appending one entry of the newest session;
- `ConcatOrder`: appending BLOCKED and SESSION_IDLE together;
- `TailOrder`: taking the head, where the rest is no older than the head;
- `RaiseOrder`: a session open raising the bound.

`KeepOrder` covers every step that appends or leaves the queue, `ReturnQueue` shows that a callback return at most appends SESSION_IDLE, and `LowPrioOrder` covers the hand-over to the lp context, including the drop with no session open.

## What is proved (TimeslotArbiterProofs, TimeslotRefinement, BleControllerProofs)

- `ArbInvInductive` and `ArbInvariant`: `ArbSafe => []ArbInv` for the abstract arbiter, one step per arbiter action.
- `FirstRequestEarliestHolds`: `Spec => []FirstRequestEarliest`. `TimeslotRefinement` instantiates `TimeslotArbiterProofs` with the same mapping (`ArbP`), shows that `Spec` implies `ArbP!ArbSafe` (from `StepRefines`), and applies the instantiated `ArbInvariant`. The property is proved once on the abstract arbiter and carried to the code's model by the refinement.

- `ArbiterRefinement`: `Spec => ArbiterSafety`. `InitRefines` maps the initial state; `StepRefines` shows, one lemma per action, that each step of `Next` is an `ArbNext` step or leaves `<<session, Owner, Kind, hasPrev>>` unchanged. It uses `IInv` (a running timeslot excludes a BLE event, a scheduled request is valid) to show that `Start` finds the radio free and that an accepted request has the kind the arbiter allows.
- `CIInvInductive` and `LifecycleSafety`: `CSpec => [](BleOnlyWhenEnabled /\ BleXtalReleased /\ XtalHeld /\ CtrlTypeOK)`. The inductive invariant `CIInv` is `IInv /\ CtrlTypeOK /\ BleOnlyWhenEnabled /\ BleXtalReleased`. `BleXtalReleased` is needed because `BleControllerDisable` removes BLE from `hfxoUsers`: only if BLE is a user exactly while it has an event does that keep `ClockMatchesUsers` and `XtalHeld`. The timeslot steps reuse `IInvInductive` through `SlotStepCIInv`; the lifecycle calls leave the timeslot variables alone (`QuietIInv`) except disable, which is handled like `BleEnd`.
- `CtrlTypeCorrect`, `BleXtalReleasedHolds` and `XtalHeldHolds` follow from `LifecycleSafety`. `XtalHeldHolds` covers disable during an XTAL_GUARANTEED timeslot: `DisableCIInv` shows the crystal stays on because the timeslot's own request, kept by `XtalReleased`, keeps the user set non-empty (`ClockMatchesUsers`).
- `ControllerRefinement`: `CSpec => ArbiterSafety`. `CStepRefines` splits by the disjuncts of `CNext`. Init, cfg_set and enable leave the timeslot state alone, so they are stutters (`QuietRefines`). Disable is the arbiter's `BleGive` when a BLE event was on the air, and a stutter otherwise (`DisableRefines`, using `RadioExclusive` from `CIInv`). Every timeslot step is handled by `StepRefines`.

Only TLC checks these:

- the liveness property `RequestResolved` and the fairness part of `ImplementsArbiter`, because TLAPS cannot reason about fairness and ENABLED;
- the two violation runs;
- `RequestResolved` only holds under fairness, and a proof of it would need ENABLED, so it stays with TLC.

## What is not modelled

- The fault handler, the HCI data path, re-initialisation after disable and the 8 s calibration rule of the RC oscillator (the application's duty, and about elapsed time).
- Resource tags other than the default one are declared but not used in the instance.
- Absolute time, start jitter and the µs processing budgets are abstracted into ticks and into the margin check.
- The link layer's own scheduling is reduced to one radio event at a time.
- The Kconfig `MPSL` option is build configuration only.
