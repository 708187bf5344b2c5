------------------------- MODULE BleControllerProofs -------------------------
(***************************************************************************)
(* Proofs that the controller lifecycle keeps the BLE radio activity and  *)
(* its crystal request tied to the enabled state, and that disabling the  *)
(* controller never takes the crystal from a running XTAL_GUARANTEED      *)
(* timeslot, for every value of the constants.                             *)
(***************************************************************************)
EXTENDS BleController, TimeslotRefinement

(* A step leaves the BLE radio event and the controller's crystal request *)
(* alone.                                                                  *)
BleSide == /\ ble' = ble
           /\ ("BLE" \in hfxoUsers') <=> ("BLE" \in hfxoUsers)

(* Recomputing the timeslot's crystal demand keeps BLE's request. *)
LEMMA ClockForBle ==
  ASSUME NEW r
  PROVE  ("BLE" \in ClockFor(r)) <=> ("BLE" \in hfxoUsers)
BY DEF ClockFor

LEMMA EndSlotBle ==
  ASSUME EndSlot
  PROVE  ("BLE" \in hfxoUsers') <=> ("BLE" \in hfxoUsers)
BY ClockForBle DEF EndSlot, SetClock

LEMMA AcceptBle ==
  ASSUME NEW r, Accept(r)
  PROVE  ("BLE" \in hfxoUsers') <=> ("BLE" \in hfxoUsers)
BY ClockForBle DEF Accept, SetClock

(* A callback's return never touches the BLE side. *)
LEMMA ReturnBle ==
  ASSUME NEW ctx, NEW a \in Returns, Return(ctx, a)
  PROVE  BleSide
<1>0. a.callback_action \in Nat
  BY ReturnsFacts
<1>1. CASE ~ValidReturn(a)
  <2>1. ReturnInvalid(ctx)
    BY <1>1 DEF Return
  <2>2. CASE session = "Active"
    BY <2>1, <2>2, EndSlotBle DEF ReturnInvalid, BleSide
  <2>3. CASE session # "Active"
    BY <2>1, <2>3 DEF ReturnInvalid, BleSide
  <2>4. QED
    BY <2>2, <2>3
<1>2. CASE ValidReturn(a) /\ a.callback_action = TIMESLOT_SIGNAL_ACTION_NONE
  <2>1. UNCHANGED <<ble, hfxoUsers>>
    BY <1>0, <1>2 DEF Return, TIMESLOT_SIGNAL_ACTION_NONE,
       TIMESLOT_SIGNAL_ACTION_EXTEND, TIMESLOT_SIGNAL_ACTION_END
  <2>2. QED
    BY <2>1 DEF BleSide
<1>3. CASE ValidReturn(a) /\ a.callback_action = TIMESLOT_SIGNAL_ACTION_EXTEND
  <2>1. ReturnExtend(ctx, a.length_us)
    BY <1>0, <1>3 DEF Return, TIMESLOT_SIGNAL_ACTION_NONE,
       TIMESLOT_SIGNAL_ACTION_EXTEND, TIMESLOT_SIGNAL_ACTION_END
  <2>2. QED
    BY <2>1 DEF ReturnExtend, BleSide
<1>4. CASE ValidReturn(a) /\ a.callback_action = TIMESLOT_SIGNAL_ACTION_END
  <2>1. EndSlot /\ ble' = ble
    BY <1>0, <1>4 DEF Return, TIMESLOT_SIGNAL_ACTION_NONE,
       TIMESLOT_SIGNAL_ACTION_EXTEND, TIMESLOT_SIGNAL_ACTION_END
  <2>2. QED
    BY <2>1, EndSlotBle DEF BleSide
<1>5. CASE ValidReturn(a) /\ a.callback_action \notin
        {TIMESLOT_SIGNAL_ACTION_NONE, TIMESLOT_SIGNAL_ACTION_EXTEND,
         TIMESLOT_SIGNAL_ACTION_END}
  <2>1. Accept(a.p_next) /\ ble' = ble
    BY <1>5 DEF Return
  <2>2. QED
    BY <2>1, AcceptBle DEF BleSide
<1>6. QED
  BY <1>1, <1>2, <1>3, <1>4, <1>5

(* Every timeslot step other than the BLE events' own leaves the BLE side *)
(* alone.                                                                  *)
LEMMA SlotStepBle ==
  ASSUME \/ SessionOpen \/ SessionClose \/ \E r \in Requests : TimeslotRequest(r)
         \/ Start \/ Block \/ Tick \/ Expire
         \/ \E s \in {TIMESLOT_SIGNAL_TIMER0, TIMESLOT_SIGNAL_RADIO} : SlotIrq(s)
         \/ \E ctx \in {"hp", "lp"}, a \in Returns : Return(ctx, a)
         \/ LowPrioProcess \/ HfxoStarted
  PROVE  BleSide
<1>1. CASE SessionOpen
  BY <1>1 DEF SessionOpen, BleSide
<1>2. CASE SessionClose
  BY <1>2, ClockForBle DEF SessionClose, SetClock, BleSide
<1>3. CASE \E r \in Requests : TimeslotRequest(r)
  BY <1>3, AcceptBle DEF TimeslotRequest, BleSide
<1>4. CASE Start \/ Tick \/ LowPrioProcess \/ HfxoStarted
  BY <1>4 DEF Start, Tick, LowPrioProcess, HfxoStarted, BleSide
<1>5. CASE Block
  BY <1>5, ClockForBle DEF Block, SetClock, BleSide
<1>6. CASE Expire
  BY <1>6, EndSlotBle DEF Expire, BleSide
<1>7. CASE \E s \in {TIMESLOT_SIGNAL_TIMER0, TIMESLOT_SIGNAL_RADIO} : SlotIrq(s)
  BY <1>7 DEF SlotIrq, BleSide
<1>8. CASE \E ctx \in {"hp", "lp"}, a \in Returns : Return(ctx, a)
  BY <1>8, ReturnBle
<1>9. QED
  BY <1>1, <1>2, <1>3, <1>4, <1>5, <1>6, <1>7, <1>8

-----------------------------------------------------------------------------
(* The inductive invariant of the composition: the timeslot's IInv, the   *)
(* controller's type, and the two BLE properties, which each need the     *)
(* other: a BLE event exists only while enabled, and holds the crystal.   *)
CIInv == IInv /\ CtrlTypeOK /\ BleOnlyWhenEnabled /\ BleXtalReleased

(* The constants of the lifecycle that the steps use. *)
LEMMA CtrlConstFacts ==
  /\ DefaultClkCfg \in ClkCfgLayout /\ LfClockCfgValid(DefaultClkCfg)
  /\ DefaultCfg \in CfgLayout
BY DEF DefaultClkCfg, ClkCfgLayout, LfClockCfgValid, DefaultCfg, CfgLayout,
   BufferCfgLayout, NRF_LF_CLOCK_SRC_RC, NRF_LF_CLOCK_SRC_XTAL,
   NRF_LF_CLOCK_SRC_SYNTH, NRF_LF_CLOCK_ACCURACY_250_PPM,
   NRF_LF_CLOCK_ACCURACY_1_PPM, BLE_CONTROLLER_RECOMMENDED_RC_CTIV,
   BLE_CONTROLLER_RECOMMENDED_RC_TEMP_CTIV

LEMMA CInitCIInv == CInit => CIInv
<1> SUFFICES ASSUME CInit PROVE CIInv
  OBVIOUS
<1>1. IInv
  BY InitIInv DEF CInit
<1>2. CtrlTypeOK
  BY CtrlConstFacts DEF CInit, CtrlTypeOK
<1>3. BleOnlyWhenEnabled /\ BleXtalReleased
  BY DEF CInit, Init, BleOnlyWhenEnabled, BleXtalReleased
<1>4. QED
  BY <1>1, <1>2, <1>3 DEF CIInv

(* A controller call that leaves the timeslot state alone keeps IInv. *)
LEMMA QuietIInv ==
  ASSUME IInv, TimeslotUnchanged
  PROVE  IInv'
<1>1. UNCHANGED vars
  BY DEF TimeslotUnchanged, vars
<1>2. QED
  BY <1>1, IInvInductive

(* ble_controller_init leaves a valid clock, and no BLE event exists yet. *)
LEMMA InitCIInv ==
  ASSUME CIInv, NEW c \in ClkCfgInputs \cup {NoClkCfg}, BleControllerInit(c)
  PROVE  CIInv'
<1>1. IInv'
  BY QuietIInv DEF CIInv, BleControllerInit
<1>2. lfclk' \in {NoClkCfg} \cup {d \in ClkCfgLayout : LfClockCfgValid(d)}
  BY CtrlConstFacts, ControllerInputAssumption DEF CIInv, CtrlTypeOK,
     BleControllerInit
<1>3. ctrl' \in {"Uninit", "Initialized", "Enabled", "Disabled"}
      /\ cfgs' = cfgs
  BY DEF BleControllerInit
<1>4. ble = "Idle"
  BY DEF CIInv, BleOnlyWhenEnabled, BleControllerInit
<1>5. QED
  BY <1>1, <1>2, <1>3, <1>4 DEF CIInv, CtrlTypeOK, BleOnlyWhenEnabled,
     BleXtalReleased, BleControllerInit, TimeslotUnchanged

(* ble_controller_enable changes nothing but the controller's state. *)
LEMMA EnableCIInv ==
  ASSUME CIInv, NEW ok \in BOOLEAN, BleControllerEnable(ok)
  PROVE  CIInv'
<1>1. IInv'
  BY QuietIInv DEF CIInv, BleControllerEnable
<1>2. QED
  BY <1>1 DEF CIInv, CtrlTypeOK, BleOnlyWhenEnabled, BleXtalReleased,
     BleControllerEnable, TimeslotUnchanged

(* Writing one field of a tag's configuration with a value of that        *)
(* field's type keeps every configuration in CfgLayout.                     *)
LEMMA CfgUpdate ==
  ASSUME cfgs \in [CfgTags -> CfgLayout], NEW t \in CfgTags,
         NEW f \in {"master_count", "slave_count", "buffer_cfg", "event_length_us"},
         NEW v, f = "buffer_cfg" => v \in BufferCfgLayout,
         f # "buffer_cfg" => v \in Nat
  PROVE  [cfgs EXCEPT ![t][f] = v] \in [CfgTags -> CfgLayout]
BY DEF CfgLayout

(* ble_controller_cfg_set stores only a configuration of the right type,  *)
(* a buffer configuration only with packet sizes in range.                 *)
LEMMA CfgSetCIInv ==
  ASSUME CIInv, NEW i \in CfgInputs, BleControllerCfgSet(i)
  PROVE  CIInv'
<1>1. IInv'
  BY QuietIInv DEF CIInv, BleControllerCfgSet
<1>2. i.tag \in CfgTags /\ i.type \in Nat
  BY ControllerInputAssumption
<1>3. cfgs' \in [CfgTags -> CfgLayout]
  <2>1. CASE cfgs' = cfgs
    BY <2>1 DEF CIInv, CtrlTypeOK
  <2>2. CASE cfgs' # cfgs
    <3>1. /\ i.type \in ResourceTypes \cup {BLE_CONTROLLER_CFG_TYPE_EVENT_LENGTH}
          /\ ResourceCfgValid(i.type, i.cfg)
          /\ cfgs' = [cfgs EXCEPT ![i.tag][CfgField(i.type)] = i.cfg]
      BY <2>2 DEF BleControllerCfgSet
    <3>2. CASE i.type = BLE_CONTROLLER_CFG_TYPE_BUFFER_CFG
      <4>1. i.cfg \in BufferCfgLayout
        BY <3>1, <3>2, ControllerInputAssumption
           DEF ResourceCfgValid, BufferCfgLayout
      <4>2. CfgField(i.type) = "buffer_cfg"
        BY <3>2 DEF CfgField, BLE_CONTROLLER_CFG_TYPE_MASTER_COUNT,
           BLE_CONTROLLER_CFG_TYPE_SLAVE_COUNT, BLE_CONTROLLER_CFG_TYPE_BUFFER_CFG,
           BLE_CONTROLLER_CFG_TYPE_EVENT_LENGTH
      <4>3. QED
        BY <1>2, <3>1, <4>1, <4>2, CfgUpdate DEF CIInv, CtrlTypeOK
    <3>3. CASE i.type # BLE_CONTROLLER_CFG_TYPE_BUFFER_CFG
      <4>1. i.cfg \in Nat
        BY <3>1, <3>3, ControllerInputAssumption DEF ResourceTypes
      <4>2. CfgField(i.type) \in {"master_count", "slave_count", "event_length_us"}
        BY <3>1, <3>3 DEF CfgField, ResourceTypes,
           BLE_CONTROLLER_CFG_TYPE_MASTER_COUNT,
           BLE_CONTROLLER_CFG_TYPE_SLAVE_COUNT,
           BLE_CONTROLLER_CFG_TYPE_BUFFER_CFG,
           BLE_CONTROLLER_CFG_TYPE_EVENT_LENGTH
      <4>3. QED
        BY <1>2, <3>1, <4>1, <4>2, CfgUpdate DEF CIInv, CtrlTypeOK
    <3>4. QED
      BY <3>2, <3>3
  <2>3. QED
    BY <2>1, <2>2
<1>4. QED
  BY <1>1, <1>3 DEF CIInv, CtrlTypeOK, BleOnlyWhenEnabled, BleXtalReleased,
     BleControllerCfgSet, TimeslotUnchanged

(* ble_controller_disable stops the BLE event and drops only BLE's crystal *)
(* request, so a running XTAL_GUARANTEED timeslot keeps the crystal.      *)
LEMMA DisableCIInv ==
  ASSUME CIInv, BleControllerDisable
  PROVE  CIInv'
<1>0. /\ ctrl' = "Disabled" /\ ble' = "Idle" /\ SetClock(hfxoUsers \ {"BLE"})
      /\ UNCHANGED <<session, epoch, req, hasPrev, left, slotLen, hp, lp, lpq,
                     ret, lfclk, cfgs>>
  BY DEF BleControllerDisable
<1>1. /\ hfxoUsers' = hfxoUsers \ {"BLE"}
      /\ hfxo' \in {"Off", "Starting", "On"}
      /\ (hfxo' = "Off") <=> (hfxoUsers' = {})
      /\ hfxoUsers' # {} /\ hfxo = "On" => hfxo' = "On"
  BY <1>0, SetClockFacts DEF CIInv, IInv, TypeOK
<1>2. XtalHeld'
  <2>1. SUFFICES ASSUME session' = "Active", NeedsXtal(req') PROVE hfxo' = "On"
    BY DEF XtalHeld
  <2>2. "TS" \in hfxoUsers /\ hfxo = "On"
    BY <1>0, <2>1 DEF CIInv, IInv, XtalReleased, XtalHeld
  <2>3. QED
    BY <1>1, <2>2
<1>3. IInv'
  BY <1>0, <1>1, <1>2 DEF CIInv, IInv, TypeOK, RequestState,
     ClockMatchesUsers, RadioExclusive, XtalReleased, SignalsMatchSlot
<1>4. QED
  BY <1>0, <1>1, <1>3 DEF CIInv, CtrlTypeOK, BleOnlyWhenEnabled,
     BleXtalReleased

(* The timeslot's own steps, and the BLE events while enabled. *)
LEMMA SlotStepCIInv ==
  ASSUME CIInv,
         \/ ctrl # "Uninit" /\ TimeslotApi /\ UNCHANGED ctrlVars
         \/ ctrl = "Enabled" /\ BleSchedule /\ UNCHANGED ctrlVars
         \/ TimeslotInternal /\ UNCHANGED ctrlVars
  PROVE  CIInv'
<1>1. Next /\ UNCHANGED ctrlVars
  BY DEF Next, TimeslotApi, TimeslotInternal
<1>2. IInv' /\ CtrlTypeOK'
  BY <1>1, IInvInductive DEF CIInv, CtrlTypeOK, ctrlVars
<1>3. CASE ctrl = "Enabled" /\ BleSchedule
  <2>1. ble' = "Scheduled" /\ hfxoUsers' = hfxoUsers \cup {"BLE"}
    BY <1>3 DEF BleSchedule, SetClock
  <2>2. QED
    BY <1>1, <1>2, <1>3, <2>1 DEF CIInv, BleOnlyWhenEnabled, BleXtalReleased,
       ctrlVars
<1>4. CASE BleStart
  BY <1>1, <1>2, <1>4 DEF BleStart, CIInv, BleOnlyWhenEnabled,
     BleXtalReleased, ctrlVars
<1>5. CASE BleEnd
  <2>1. ble' = "Idle" /\ hfxoUsers' = hfxoUsers \ {"BLE"}
    BY <1>5 DEF BleEnd, SetClock
  <2>2. QED
    BY <1>2, <2>1 DEF CIInv, BleOnlyWhenEnabled, BleXtalReleased
<1>6. CASE \/ TimeslotApi
           \/ Start \/ Block \/ Tick \/ Expire
           \/ \E s \in {TIMESLOT_SIGNAL_TIMER0, TIMESLOT_SIGNAL_RADIO} : SlotIrq(s)
           \/ \E ctx \in {"hp", "lp"}, a \in Returns : Return(ctx, a)
           \/ LowPrioProcess \/ HfxoStarted
  <2>1. BleSide
    BY <1>6, SlotStepBle DEF TimeslotApi
  <2>2. QED
    BY <1>1, <1>2, <2>1 DEF BleSide, CIInv, BleOnlyWhenEnabled,
       BleXtalReleased, ctrlVars
<1>7. QED
  BY <1>3, <1>4, <1>5, <1>6 DEF TimeslotInternal

(* Every step of the composition keeps CIInv. *)
THEOREM CIInvInductive == CIInv /\ [CNext]_cvars => CIInv'
<1> SUFFICES ASSUME CIInv, [CNext]_cvars PROVE CIInv'
  OBVIOUS
<1>1. CASE \E c \in ClkCfgInputs \cup {NoClkCfg} : BleControllerInit(c)
  BY <1>1, InitCIInv
<1>2. CASE \E i \in CfgInputs : BleControllerCfgSet(i)
  BY <1>2, CfgSetCIInv
<1>3. CASE \E ok \in BOOLEAN : BleControllerEnable(ok)
  BY <1>3, EnableCIInv
<1>4. CASE BleControllerDisable
  BY <1>4, DisableCIInv
<1>5. CASE \/ ctrl # "Uninit" /\ TimeslotApi /\ UNCHANGED ctrlVars
           \/ ctrl = "Enabled" /\ BleSchedule /\ UNCHANGED ctrlVars
           \/ TimeslotInternal /\ UNCHANGED ctrlVars
  BY <1>5, SlotStepCIInv
<1>6. CASE UNCHANGED cvars
  <2>1. UNCHANGED vars /\ UNCHANGED ctrlVars
    BY <1>6 DEF cvars, vars, ctrlVars
  <2>2. IInv'
    BY <2>1, IInvInductive DEF CIInv
  <2>3. QED
    BY <2>1, <2>2 DEF CIInv, CtrlTypeOK, BleOnlyWhenEnabled,
       BleXtalReleased, ctrlVars, vars
<1>7. QED
  BY <1>1, <1>2, <1>3, <1>4, <1>5, <1>6 DEF CNext

(* Between enable and disable only: the controller's radio events exist   *)
(* only while it is enabled, hold the crystal exactly while they exist,   *)
(* and ble_controller_disable never stops the crystal under a running     *)
(* XTAL_GUARANTEED timeslot, for every value of the constants.            *)
THEOREM LifecycleSafety ==
  CSpec => [](BleOnlyWhenEnabled /\ BleXtalReleased /\ XtalHeld /\ CtrlTypeOK)
<1>1. CIInv => BleOnlyWhenEnabled /\ BleXtalReleased /\ XtalHeld /\ CtrlTypeOK
  BY DEF CIInv, IInv
<1>2. QED
  BY CInitCIInv, CIInvInductive, <1>1, PTL DEF CSpec

(* init and cfg_set store only valid clock and resource configurations:   *)
(* a crystal or synthesized source with an RC field set, rc_temp_ctiv     *)
(* above 33 or a packet size outside 27..251 is never kept.               *)
THEOREM CtrlTypeCorrect == CSpec => []CtrlTypeOK
BY LifecycleSafety, PTL

(* The controller requests the crystal exactly while a BLE radio event is *)
(* scheduled or on the air, so disable and every event end release it.   *)
THEOREM BleXtalReleasedHolds == CSpec => []BleXtalReleased
BY LifecycleSafety, PTL

(* A running XTAL_GUARANTEED timeslot keeps the crystal on even when      *)
(* ble_controller_disable drops BLE's own crystal request meanwhile.      *)
THEOREM XtalHeldHolds == CSpec => []XtalHeld
BY LifecycleSafety, PTL

-----------------------------------------------------------------------------
(* The composition and the abstract arbiter.  A lifecycle call other than *)
(* disable leaves the timeslot state alone, so it is an arbiter stutter.  *)
LEMMA QuietRefines ==
  ASSUME TimeslotUnchanged
  PROVE  [Arb!ArbNext]_Arb!avars
<1>1. ArbStutter
  BY StutterFromUnchanged DEF TimeslotUnchanged
<1>2. QED
  BY <1>1 DEF ArbStutter, Arb!avars

(* ble_controller_disable gives the radio back if a BLE event held it (the *)
(* arbiter's BleGive), and otherwise changes nothing the arbiter sees.    *)
LEMMA DisableRefines ==
  ASSUME CIInv, BleControllerDisable
  PROVE  [Arb!ArbNext]_Arb!avars
<1>0. /\ ble' = "Idle"
      /\ UNCHANGED <<session, req, hasPrev>>
  BY DEF BleControllerDisable
<1>1. Kind' = Kind
  BY <1>0 DEF Kind, IsEarliest
<1>2. CASE ble = "Active"
  <2>1. Owner = "BLE" /\ session # "Active"
    BY <1>2, OwnerFacts DEF CIInv
  <2>2. Owner' = "None"
    BY <1>0, <2>1 DEF Owner
  <2>3. Arb!BleGive
    BY <1>0, <1>1, <2>1, <2>2 DEF Arb!BleGive
  <2>4. QED
    BY <2>3 DEF Arb!ArbNext
<1>3. CASE ble # "Active"
  <2>1. Owner' = Owner
    BY <1>0, <1>3 DEF Owner
  <2>2. QED
    BY <1>0, <1>1, <2>1 DEF Arb!avars
<1>4. QED
  BY <1>2, <1>3

(* Every step of the composition, under CIInv, is an arbiter step or a    *)
(* stutter of it.                                                          *)
LEMMA CStepRefines ==
  ASSUME CIInv, [CNext]_cvars
  PROVE  [Arb!ArbNext]_Arb!avars
<1>1. CASE \E c \in ClkCfgInputs \cup {NoClkCfg} : BleControllerInit(c)
  BY <1>1, QuietRefines DEF BleControllerInit
<1>2. CASE \E i \in CfgInputs : BleControllerCfgSet(i)
  BY <1>2, QuietRefines DEF BleControllerCfgSet
<1>3. CASE \E ok \in BOOLEAN : BleControllerEnable(ok)
  BY <1>3, QuietRefines DEF BleControllerEnable
<1>4. CASE BleControllerDisable
  BY <1>4, DisableRefines
<1>5. CASE \/ ctrl # "Uninit" /\ TimeslotApi /\ UNCHANGED ctrlVars
           \/ ctrl = "Enabled" /\ BleSchedule /\ UNCHANGED ctrlVars
           \/ TimeslotInternal /\ UNCHANGED ctrlVars
  <2>1. Next
    BY <1>5 DEF Next, TimeslotApi, TimeslotInternal
  <2>2. QED
    BY <2>1, StepRefines DEF CIInv
<1>6. CASE UNCHANGED cvars
  <2>1. UNCHANGED vars
    BY <1>6 DEF cvars
  <2>2. QED
    BY <2>1, StepRefines DEF CIInv
<1>7. QED
  BY <1>1, <1>2, <1>3, <1>4, <1>5, <1>6 DEF CNext

(* The controller around the timeslot interface still implements the      *)
(* arbiter: init, cfg_set and enable never touch the radio, disable only  *)
(* takes it from BLE, and the timeslot keeps its session contract.         *)
THEOREM ControllerRefinement == CSpec => ArbiterSafety
<1>1. CIInv /\ [CNext]_cvars => [Arb!ArbNext]_Arb!avars
  BY CStepRefines
<1>2. CInit => Arb!ArbInit
  BY InitRefines DEF CInit
<1>3. QED
  BY <1>1, <1>2, CInitCIInv, CIInvInductive, PTL
     DEF CSpec, ArbiterSafety, Arb!ArbSafe
=============================================================================
