---------------------------- MODULE BleController ----------------------------
(***************************************************************************)
(* The BLE Controller's lifecycle (ble_controller.h) composed with the    *)
(* timeslot interface: ble_controller_init validates the LF clock         *)
(* configuration and opens the SoC and timeslot APIs,                      *)
(* ble_controller_cfg_set edits a resource configuration before enable,   *)
(* ble_controller_enable starts the controller's own radio activity and   *)
(* ble_controller_disable stops it synchronously.  The timeslot part is   *)
(* the module Timeslot unchanged; this module adds the controller state   *)
(* and gates the timeslot API and the BLE radio events on it.             *)
(***************************************************************************)
EXTENDS Timeslot

CONSTANTS
  ClkCfgInputs,   \* the nrf_lf_clock_cfg_t values the application may pass
  NoClkCfg,       \* a NULL p_clk_cfg pointer
  CfgInputs,      \* [tag, type, cfg]: the ble_controller_cfg_set arguments
  CfgTags,        \* the resource configuration tags in use
  MemRequired(_)  \* bytes a resource configuration needs (library internal)

(* nrf_lf_clock_cfg_t: four uint8 fields. *)
ClkCfgLayout == [lf_clk_source : Nat, rc_ctiv : Nat, rc_temp_ctiv : Nat,
                 accuracy : Nat]

-----------------------------------------------------------------------------
(* enum NRF_LF_CLOCK_SRC, NRF_LF_CLOCK_ACCURACY, BLE_CONTROLLER_CFG_TYPE,  *)
(* the defaults and NRF_EOPNOTSUPP from nrf_errno.h.                      *)
NRF_LF_CLOCK_SRC_RC == 0
NRF_LF_CLOCK_SRC_XTAL == 1
NRF_LF_CLOCK_SRC_SYNTH == 2
NRF_LF_CLOCK_ACCURACY_250_PPM == 0
NRF_LF_CLOCK_ACCURACY_1_PPM == 11
BLE_CONTROLLER_RECOMMENDED_RC_CTIV == 16
BLE_CONTROLLER_RECOMMENDED_RC_TEMP_CTIV == 2
BLE_CONTROLLER_CFG_TYPE_NONE == 0
BLE_CONTROLLER_CFG_TYPE_MASTER_COUNT == 1
BLE_CONTROLLER_CFG_TYPE_SLAVE_COUNT == 2
BLE_CONTROLLER_CFG_TYPE_BUFFER_CFG == 3
BLE_CONTROLLER_CFG_TYPE_EVENT_LENGTH == 4
BLE_CONTROLLER_DEFAULT_RESOURCE_CFG_TAG == 0
NRF_EOPNOTSUPP == 45

(* ble_controller_cfg_buffer_cfg_t with its packet sizes in 27..251, and  *)
(* a tag's whole resource configuration.                                    *)
BufferCfgLayout == [tx_packet_size : 27..251, rx_packet_size : 27..251,
                    tx_packet_count : Nat, rx_packet_count : Nat]
CfgLayout == [master_count : Nat, slave_count : Nat,
              buffer_cfg : BufferCfgLayout, event_length_us : Nat]

ASSUME ControllerInputAssumption ==
  /\ ClkCfgInputs \subseteq ClkCfgLayout /\ NoClkCfg \notin ClkCfgInputs
  /\ \A i \in CfgInputs :
       /\ i.tag \in CfgTags /\ i.type \in Nat
       /\ i.type = BLE_CONTROLLER_CFG_TYPE_BUFFER_CFG =>
            i.cfg \in [tx_packet_size : Nat, rx_packet_size : Nat,
                       tx_packet_count : Nat, rx_packet_count : Nat]
       /\ i.type \in {BLE_CONTROLLER_CFG_TYPE_MASTER_COUNT,
                      BLE_CONTROLLER_CFG_TYPE_SLAVE_COUNT,
                      BLE_CONTROLLER_CFG_TYPE_EVENT_LENGTH} => i.cfg \in Nat
  /\ BLE_CONTROLLER_DEFAULT_RESOURCE_CFG_TAG \in CfgTags

(* The clock used when p_clk_cfg is NULL. *)
DefaultClkCfg ==
  [lf_clk_source |-> NRF_LF_CLOCK_SRC_RC,
   rc_ctiv |-> BLE_CONTROLLER_RECOMMENDED_RC_CTIV,
   rc_temp_ctiv |-> BLE_CONTROLLER_RECOMMENDED_RC_TEMP_CTIV,
   accuracy |-> NRF_LF_CLOCK_ACCURACY_250_PPM]

(* The resource configuration every tag starts from: the                  *)
(* BLE_CONTROLLER_DEFAULT_* values.                                       *)
DefaultCfg ==
  [master_count |-> 1, slave_count |-> 1,
   buffer_cfg |-> [tx_packet_size |-> 27, rx_packet_size |-> 27,
                   tx_packet_count |-> 3, rx_packet_count |-> 3],
   event_length_us |-> 7500]

(* A clock configuration init accepts: a known source and accuracy, the   *)
(* RC calibration fields 0 unless the source is RC, rc_temp_ctiv 0..33.   *)
LfClockCfgValid(c) ==
  /\ c.lf_clk_source \in {NRF_LF_CLOCK_SRC_RC, NRF_LF_CLOCK_SRC_XTAL,
                          NRF_LF_CLOCK_SRC_SYNTH}
  /\ c.accuracy \in NRF_LF_CLOCK_ACCURACY_250_PPM..NRF_LF_CLOCK_ACCURACY_1_PPM
  /\ c.lf_clk_source # NRF_LF_CLOCK_SRC_RC => c.rc_ctiv = 0 /\ c.rc_temp_ctiv = 0
  /\ c.rc_temp_ctiv \in 0..33

(* The member of the ble_controller_cfg_t union a configuration type     *)
(* reads, and the field of the configuration it updates.                  *)
CfgField(type) ==
  CASE type = BLE_CONTROLLER_CFG_TYPE_MASTER_COUNT -> "master_count"
    [] type = BLE_CONTROLLER_CFG_TYPE_SLAVE_COUNT  -> "slave_count"
    [] type = BLE_CONTROLLER_CFG_TYPE_BUFFER_CFG   -> "buffer_cfg"
    [] type = BLE_CONTROLLER_CFG_TYPE_EVENT_LENGTH -> "event_length_us"

(* The packet sizes of a buffer configuration lie in 27..251. *)
ResourceCfgValid(type, v) ==
  type = BLE_CONTROLLER_CFG_TYPE_BUFFER_CFG =>
    v.tx_packet_size \in 27..251 /\ v.rx_packet_size \in 27..251

(* Configuration types that change resources, allowed only before enable. *)
ResourceTypes == {BLE_CONTROLLER_CFG_TYPE_MASTER_COUNT,
                  BLE_CONTROLLER_CFG_TYPE_SLAVE_COUNT,
                  BLE_CONTROLLER_CFG_TYPE_BUFFER_CFG}

-----------------------------------------------------------------------------
VARIABLES
  ctrl,   \* "Uninit", "Initialized", "Enabled" or "Disabled"
  lfclk,  \* the LF clock configuration init accepted, or NoClkCfg
  cfgs,   \* resource configuration per tag
  cret    \* return value of the last ble_controller_* call

cvars == <<vars, ctrl, lfclk, cfgs, cret>>
ctrlVars == <<ctrl, lfclk, cfgs, cret>>

CInit ==
  /\ Init
  /\ ctrl = "Uninit" /\ lfclk = NoClkCfg
  /\ cfgs = [t \in CfgTags |-> DefaultCfg] /\ cret = 0

(* Thread-mode calls into the controller leave the timeslot state alone. *)
TimeslotUnchanged ==
  UNCHANGED <<session, epoch, req, hasPrev, left, slotLen, hp, lp, lpq, ble,
              hfxo, hfxoUsers, ret>>

-----------------------------------------------------------------------------
(* Fault model for ble_controller_init: the RC-only fields are not checked.*)
BleControllerInitNoRcCheck(c) ==
  /\ ctrl = "Uninit"
  /\ IF c = NoClkCfg \/ c.accuracy \in 0..11
     THEN ctrl' = "Initialized" /\ cret' = 0
          /\ lfclk' = IF c = NoClkCfg THEN DefaultClkCfg ELSE c
     ELSE cret' = -NRF_EINVAL /\ UNCHANGED <<ctrl, lfclk>>
  /\ UNCHANGED cfgs /\ TimeslotUnchanged

(* ble_controller_init(fault_handler, p_clk_cfg, irq): NULL selects the   *)
(* default clock, an invalid one gives NRF_EINVAL.  Afterwards the SoC    *)
(* and timeslot APIs may be used.                                          *)
BleControllerInit(c) ==
  /\ ctrl = "Uninit"
  /\ IF c = NoClkCfg \/ LfClockCfgValid(c)
     THEN ctrl' = "Initialized" /\ cret' = 0
          /\ lfclk' = IF c = NoClkCfg THEN DefaultClkCfg ELSE c
     ELSE cret' = -NRF_EINVAL /\ UNCHANGED <<ctrl, lfclk>>
  /\ UNCHANGED cfgs /\ TimeslotUnchanged

(* ble_controller_cfg_set(tag, type, p_resource_cfg).  Resource types     *)
(* only before enable; NONE and EVENT_LENGTH at any time.  A successful   *)
(* call returns the memory the tag's configuration needs.                  *)
BleControllerCfgSet(i) ==
  /\ MainRuns /\ ctrl # "Disabled"
  /\ i.type \in ResourceTypes => ctrl \in {"Uninit", "Initialized"}
  /\ \/ /\ i.type > BLE_CONTROLLER_CFG_TYPE_EVENT_LENGTH
        /\ cret' = -NRF_EOPNOTSUPP /\ UNCHANGED cfgs
     \/ /\ i.type = BLE_CONTROLLER_CFG_TYPE_NONE
        /\ cret' = MemRequired(cfgs[i.tag]) /\ UNCHANGED cfgs
     \/ /\ i.type \in ResourceTypes \cup {BLE_CONTROLLER_CFG_TYPE_EVENT_LENGTH}
        /\ IF ResourceCfgValid(i.type, i.cfg)
           THEN /\ cfgs' = [cfgs EXCEPT ![i.tag][CfgField(i.type)] = i.cfg]
                /\ cret' = MemRequired(cfgs'[i.tag])
           ELSE cret' = -NRF_EINVAL /\ UNCHANGED cfgs
  /\ UNCHANGED <<ctrl, lfclk>> /\ TimeslotUnchanged

(* ble_controller_enable(callback, p_mem): NRF_EINVAL for a NULL argument,*)
(* otherwise HCI and the controller's radio activity are available.       *)
BleControllerEnable(argsOk) ==
  /\ MainRuns /\ ctrl = "Initialized"
  /\ IF argsOk THEN ctrl' = "Enabled" /\ cret' = 0
     ELSE cret' = -NRF_EINVAL /\ UNCHANGED ctrl
  /\ UNCHANGED <<lfclk, cfgs>> /\ TimeslotUnchanged

(* Fault models for ble_controller_disable: the radio event is left       *)
(* running; its crystal request is forgotten; the crystal is switched off *)
(* outright.                                                               *)
DisableKeepsBle ==
  /\ MainRuns /\ ctrl = "Enabled"
  /\ ctrl' = "Disabled" /\ cret' = 0
  /\ UNCHANGED <<lfclk, cfgs>> /\ TimeslotUnchanged

DisableKeepsBleXtal ==
  /\ MainRuns /\ ctrl = "Enabled"
  /\ ctrl' = "Disabled" /\ cret' = 0 /\ ble' = "Idle"
  /\ UNCHANGED <<lfclk, cfgs, hfxo, hfxoUsers>>
  /\ UNCHANGED <<session, epoch, req, hasPrev, left, slotLen, hp, lp, lpq, ret>>

DisableStopsXtal ==
  /\ MainRuns /\ ctrl = "Enabled"
  /\ ctrl' = "Disabled" /\ cret' = 0 /\ ble' = "Idle"
  /\ hfxoUsers' = hfxoUsers \ {"BLE"} /\ hfxo' = "Off"
  /\ UNCHANGED <<lfclk, cfgs>>
  /\ UNCHANGED <<session, epoch, req, hasPrev, left, slotLen, hp, lp, lpq, ret>>

(* ble_controller_disable, synchronous: a scheduled or running BLE radio  *)
(* event is stopped and its crystal request released before it returns.  *)
BleControllerDisable ==
  /\ MainRuns /\ ctrl = "Enabled"
  /\ ctrl' = "Disabled" /\ cret' = 0 /\ ble' = "Idle"
  /\ SetClock(hfxoUsers \ {"BLE"})
  /\ UNCHANGED <<lfclk, cfgs>>
  /\ UNCHANGED <<session, epoch, req, hasPrev, left, slotLen, hp, lp, lpq, ret>>

-----------------------------------------------------------------------------
(* The timeslot API, after init. *)
TimeslotApi ==
  SessionOpen \/ SessionClose \/ \E r \in Requests : TimeslotRequest(r)

(* What the controller and the callbacks do by themselves. *)
TimeslotInternal ==
  \/ Start \/ Block \/ Tick \/ Expire
  \/ \E s \in {TIMESLOT_SIGNAL_TIMER0, TIMESLOT_SIGNAL_RADIO} : SlotIrq(s)
  \/ \E ctx \in {"hp", "lp"}, a \in Returns : Return(ctx, a)
  \/ LowPrioProcess \/ BleStart \/ BleEnd \/ HfxoStarted

CNext ==
  \/ \E c \in ClkCfgInputs \cup {NoClkCfg} : BleControllerInit(c)
  \/ \E i \in CfgInputs : BleControllerCfgSet(i)
  \/ \E ok \in BOOLEAN : BleControllerEnable(ok)
  \/ BleControllerDisable
  \/ ctrl # "Uninit" /\ TimeslotApi /\ UNCHANGED ctrlVars
  \/ ctrl = "Enabled" /\ BleSchedule /\ UNCHANGED ctrlVars
  \/ TimeslotInternal /\ UNCHANGED ctrlVars

CSpec == CInit /\ [][CNext]_cvars

-----------------------------------------------------------------------------
(* The controller's state has its type; an accepted LF clock              *)
(* configuration is valid and an accepted buffer configuration has packet *)
(* sizes in 27..251, as ble_controller.h requires.                        *)
CtrlTypeOK ==
  /\ ctrl \in {"Uninit", "Initialized", "Enabled", "Disabled"}
  /\ lfclk \in {NoClkCfg} \cup {c \in ClkCfgLayout : LfClockCfgValid(c)}
  /\ cfgs \in [CfgTags -> CfgLayout]

(* The controller's own radio events happen only between enable and       *)
(* disable: ble_controller_disable is synchronous, so no BLE event is      *)
(* scheduled or on the air once it has returned, whatever was in flight.   *)
BleOnlyWhenEnabled == ble # "Idle" => ctrl = "Enabled"

(* The controller holds a crystal request exactly while it has a radio     *)
(* event scheduled or running: disabling it in the middle of one releases  *)
(* the crystal, and never the timeslot's request.                          *)
BleXtalReleased == ("BLE" \in hfxoUsers) <=> (ble # "Idle")
=============================================================================
