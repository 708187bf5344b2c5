------------------------------ MODULE Timeslot ------------------------------
(***************************************************************************)
(* The BLE Controller timeslot interface (timeslot.h): one application    *)
(* session that requests timeslots of exclusive radio access, competing    *)
(* with the controller's own BLE radio events, and the signal callback     *)
(* through which the controller talks to the session owner.               *)
(*                                                                         *)
(* Execution contexts (ble_controller.h, IRQ handler notes):               *)
(*   - priority 0 ("hp"): RADIO/TIMER0/RTC0 handlers; timeslot start,      *)
(*     TIMER0, RADIO, EXTEND_* signals and BLE radio events run here;     *)
(*   - low priority ("lp"): ble_controller_low_prio_tasks_process, which   *)
(*     delivers the deferred BLOCKED, CANCELLED and SESSION_IDLE signals;  *)
(*   - thread mode ("main"): timeslot_session_open/close, timeslot_request.*)
(* A higher context preempts a lower one, so a main-thread call runs only *)
(* when no callback is in progress, and lp work only when hp is idle.      *)
(* Time is abstracted to units: the timing constants are parameters.       *)
(***************************************************************************)
EXTENDS Integers, Sequences

CONSTANTS
  TIMESLOT_LENGTH_MIN_US,            \* shortest timeslot
  TIMESLOT_LENGTH_MAX_US,            \* longest timeslot
  TIMESLOT_DISTANCE_MAX_US,          \* largest distance_us of a normal request
  TIMESLOT_EARLIEST_TIMEOUT_MAX_US,  \* largest timeout_us of an earliest request
  TIMESLOT_EXTENSION_TIME_MIN_US,    \* shortest extension
  TIMESLOT_EXTENSION_MARGIN_MIN_US,  \* latest time before the end an extension may start
  Requests,     \* the timeslot_request_t values the application may pass
  ExtLengths,   \* the extend.length_us values the application may return
  BadActions,   \* callback_action codes outside enum TIMESLOT_SIGNAL_ACTION
  NoRequest,    \* a NULL p_next pointer
  MAX_OPENS,    \* bound: number of sessions opened in a behaviour
  MAX_SLOT_US,  \* bound: the application extends a timeslot only up to this length
  LPQ_MAX       \* bound: the application submits a request only while fewer
                \* deferred signals than this are waiting

(* timeslot_request_t as the controller reads it: request_type, the two    *)
(* uint8 fields hfclk and priority shared by both union members, and the   *)
(* two uint32 words of the union: <<length_us, timeout_us>> for earliest,  *)
(* <<distance_us, length_us>> for normal.                                  *)
RequestLayout == [request_type : Nat, hfclk : Nat, priority : Nat,
                  params : Nat \X Nat]

ASSUME TimingAssumption ==
  /\ TIMESLOT_LENGTH_MIN_US \in Nat /\ TIMESLOT_LENGTH_MAX_US \in Nat
  /\ TIMESLOT_DISTANCE_MAX_US \in Nat /\ TIMESLOT_EARLIEST_TIMEOUT_MAX_US \in Nat
  /\ TIMESLOT_EXTENSION_TIME_MIN_US \in Nat
  /\ TIMESLOT_EXTENSION_MARGIN_MIN_US \in Nat
  /\ TIMESLOT_LENGTH_MAX_US <= MAX_SLOT_US

ASSUME InputAssumption ==
  /\ Requests \subseteq RequestLayout
  /\ NoRequest \notin Requests
  /\ ExtLengths \subseteq Nat
  /\ BadActions \subseteq Nat \ 0..3
  /\ MAX_OPENS \in Nat /\ MAX_SLOT_US \in Nat /\ LPQ_MAX \in Nat

-----------------------------------------------------------------------------
(* enum TIMESLOT_SIGNAL, TIMESLOT_SIGNAL_ACTION, TIMESLOT_HFCLK_CFG,       *)
(* TIMESLOT_PRIORITY, TIMESLOT_REQUEST_TYPE and the nrf_errno codes.       *)
TIMESLOT_SIGNAL_START == 0
TIMESLOT_SIGNAL_TIMER0 == 1
TIMESLOT_SIGNAL_RADIO == 2
TIMESLOT_SIGNAL_EXTEND_FAILED == 3
TIMESLOT_SIGNAL_EXTEND_SUCCEEDED == 4
TIMESLOT_SIGNAL_BLOCKED == 5
TIMESLOT_SIGNAL_CANCELLED == 6
TIMESLOT_SIGNAL_SESSION_IDLE == 7
TIMESLOT_SIGNAL_INVALID_RETURN == 8
NO_SIGNAL == -1   \* no callback in progress in a context

TIMESLOT_SIGNAL_ACTION_NONE == 0
TIMESLOT_SIGNAL_ACTION_EXTEND == 1
TIMESLOT_SIGNAL_ACTION_END == 2
TIMESLOT_SIGNAL_ACTION_REQUEST == 3

TIMESLOT_HFCLK_CFG_XTAL_GUARANTEED == 0
TIMESLOT_HFCLK_CFG_NO_GUARANTEE == 1
TIMESLOT_PRIORITY_HIGH == 0
TIMESLOT_PRIORITY_NORMAL == 1
TIMESLOT_REQ_TYPE_EARLIEST == 0
TIMESLOT_REQ_TYPE_NORMAL == 1

NRF_EAGAIN == 11
NRF_EINVAL == 22

Signals == 0..8
(* Signals delivered in the priority-0 context during a timeslot. *)
SlotSignals == {TIMESLOT_SIGNAL_START, TIMESLOT_SIGNAL_TIMER0,
                TIMESLOT_SIGNAL_RADIO, TIMESLOT_SIGNAL_EXTEND_FAILED,
                TIMESLOT_SIGNAL_EXTEND_SUCCEEDED}
(* Signals deferred to ble_controller_low_prio_tasks_process. *)
DeferredSignals == {TIMESLOT_SIGNAL_BLOCKED, TIMESLOT_SIGNAL_CANCELLED,
                    TIMESLOT_SIGNAL_SESSION_IDLE}

(* timeslot_signal_return_param_t values the callback may return: the     *)
(* action code with its union member (p_next may be NULL).                 *)
Returns ==
  {[callback_action |-> c, length_us |-> 0, p_next |-> NoRequest] :
      c \in {TIMESLOT_SIGNAL_ACTION_NONE, TIMESLOT_SIGNAL_ACTION_END} \cup BadActions}
  \cup {[callback_action |-> TIMESLOT_SIGNAL_ACTION_EXTEND, length_us |-> l,
         p_next |-> NoRequest] : l \in ExtLengths}
  \cup {[callback_action |-> TIMESLOT_SIGNAL_ACTION_REQUEST, length_us |-> 0,
         p_next |-> r] : r \in Requests \cup {NoRequest}}

-----------------------------------------------------------------------------
(* Reading the request union by its request_type. *)
IsEarliest(r) == r.request_type = TIMESLOT_REQ_TYPE_EARLIEST
Length(r) == IF IsEarliest(r) THEN r.params[1] ELSE r.params[2]
TimeoutOrDistance(r) == IF IsEarliest(r) THEN r.params[2] ELSE r.params[1]

(* The parameter checks of timeslot_request (NRF_EINVAL): every enum field *)
(* in range, length in [MIN, MAX], timeout or distance in (0, MAX].        *)
ParamsValid(r) ==
  /\ r.request_type \in {TIMESLOT_REQ_TYPE_EARLIEST, TIMESLOT_REQ_TYPE_NORMAL}
  /\ r.hfclk \in {TIMESLOT_HFCLK_CFG_XTAL_GUARANTEED, TIMESLOT_HFCLK_CFG_NO_GUARANTEE}
  /\ r.priority \in {TIMESLOT_PRIORITY_HIGH, TIMESLOT_PRIORITY_NORMAL}
  /\ Length(r) \in TIMESLOT_LENGTH_MIN_US..TIMESLOT_LENGTH_MAX_US
  /\ TimeoutOrDistance(r) \in
       1..(IF IsEarliest(r) THEN TIMESLOT_EARLIEST_TIMEOUT_MAX_US
                            ELSE TIMESLOT_DISTANCE_MAX_US)

NeedsXtal(r) == r # NoRequest /\ r.hfclk = TIMESLOT_HFCLK_CFG_XTAL_GUARANTEED

-----------------------------------------------------------------------------
VARIABLES
  session,    \* "Closed", "Idle", "Pending" (request scheduled) or "Active"
  epoch,      \* number of sessions opened so far; identifies the session
  req,        \* the scheduled or running request, or NoRequest
  hasPrev,    \* a timeslot has started in this session (distance is from it)
  left,       \* time remaining in the running timeslot
  slotLen,    \* granted length of the running timeslot, extensions included
  hp,         \* signal whose callback runs in the priority-0 context
  lp,         \* [sig, epoch]: signal whose callback runs in the low-prio context
  lpq,        \* deferred signals waiting for low-prio processing, oldest first
  ble,        \* the controller's own radio event: "Idle", "Scheduled", "Active"
  hfxo,       \* the high-frequency crystal: "Off", "Starting", "On"
  hfxoUsers,  \* who holds a crystal request: subset of {"BLE", "TS"}
  ret         \* return value of the last API call

vars == <<session, epoch, req, hasPrev, left, slotLen, hp, lp, lpq, ble,
          hfxo, hfxoUsers, ret>>

NoEntry == [sig |-> NO_SIGNAL, epoch |-> 0]
Entry(s) == [sig |-> s, epoch |-> epoch]

(* Fault model for SetClock: the request is recorded but the crystal is   *)
(* not started.                                                            *)
SetClockNoStart(users) ==
  /\ hfxoUsers' = users
  /\ hfxo' = IF users = {} THEN "Off" ELSE hfxo

(* Fault model for SetClock: the crystal is never stopped. *)
SetClockNoStop(users) ==
  /\ hfxoUsers' = users
  /\ hfxo' = IF hfxo = "Off" /\ users # {} THEN "Starting" ELSE hfxo

(* The crystal runs while someone requests it: it is started when the     *)
(* first user asks and stopped when the last one releases it.              *)
SetClock(users) ==
  /\ hfxoUsers' = users
  /\ hfxo' = IF users = {} THEN "Off"
             ELSE IF hfxo = "Off" THEN "Starting" ELSE hfxo

(* The crystal users once the timeslot's demand is that of request r. *)
ClockFor(r) == (hfxoUsers \ {"TS"}) \cup (IF NeedsXtal(r) THEN {"TS"} ELSE {})

(* The running timeslot ends and its radio and crystal are given back. *)
EndSlot ==
  /\ session' = "Idle" /\ req' = NoRequest /\ left' = 0 /\ slotLen' = 0
  /\ SetClock(ClockFor(NoRequest))

(* A request is scheduled: the crystal is requested ahead of the start. *)
Accept(r) ==
  /\ session' = "Pending" /\ req' = r /\ left' = 0 /\ slotLen' = 0
  /\ SetClock(ClockFor(r))

(* No callback runs: thread-mode code may execute. *)
MainRuns == hp = NO_SIGNAL /\ lp.sig = NO_SIGNAL

Init ==
  /\ session = "Closed" /\ epoch = 0 /\ req = NoRequest /\ hasPrev = FALSE
  /\ left = 0 /\ slotLen = 0 /\ hp = NO_SIGNAL /\ lp = NoEntry /\ lpq = <<>>
  /\ ble = "Idle" /\ hfxo = "Off" /\ hfxoUsers = {} /\ ret = 0

-----------------------------------------------------------------------------
(* timeslot_session_open: 0 from a closed session, NRF_EAGAIN otherwise. *)
SessionOpen ==
  /\ MainRuns
  /\ \/ /\ session = "Closed" /\ epoch < MAX_OPENS
        /\ session' = "Idle" /\ epoch' = epoch + 1 /\ hasPrev' = FALSE
        /\ ret' = 0
        /\ UNCHANGED <<req, left, slotLen, hp, lp, lpq, ble, hfxo, hfxoUsers>>
     \/ /\ session # "Closed" /\ ret' = -NRF_EAGAIN
        /\ UNCHANGED <<session, epoch, req, hasPrev, left, slotLen, hp, lp,
                       lpq, ble, hfxo, hfxoUsers>>

(* Fault model for SessionClose: closing forgets the timeslot's crystal    *)
(* request.                                                                *)
SessionCloseKeepsClock ==
  /\ MainRuns
  /\ \/ /\ session # "Closed"
        /\ session' = "Closed" /\ req' = NoRequest /\ left' = 0 /\ slotLen' = 0
        /\ UNCHANGED <<hfxo, hfxoUsers>>
        /\ lpq' = IF session = "Pending"
                  THEN Append(lpq, Entry(TIMESLOT_SIGNAL_CANCELLED)) ELSE lpq
        /\ ret' = 0
        /\ UNCHANGED <<epoch, hasPrev, hp, lp, ble>>
     \/ /\ session = "Closed" /\ ret' = -NRF_EAGAIN
        /\ UNCHANGED <<session, epoch, req, hasPrev, left, slotLen, hp, lp,
                       lpq, ble, hfxo, hfxoUsers>>

(* timeslot_session_close: a running timeslot is finished, a scheduled one *)
(* is cancelled (TIMESLOT_SIGNAL_CANCELLED, deferred); NRF_EAGAIN if closed.*)
SessionClose ==
  /\ MainRuns
  /\ \/ /\ session # "Closed"
        /\ session' = "Closed" /\ req' = NoRequest /\ left' = 0 /\ slotLen' = 0
        /\ SetClock(ClockFor(NoRequest))
        /\ lpq' = IF session = "Pending"
                  THEN Append(lpq, Entry(TIMESLOT_SIGNAL_CANCELLED)) ELSE lpq
        /\ ret' = 0
        /\ UNCHANGED <<epoch, hasPrev, hp, lp, ble>>
     \/ /\ session = "Closed" /\ ret' = -NRF_EAGAIN
        /\ UNCHANGED <<session, epoch, req, hasPrev, left, slotLen, hp, lp,
                       lpq, ble, hfxo, hfxoUsers>>

(* The return value of timeslot_request(r), checks in order. *)
(* Fault model for RequestResult: the earliest-first check is left out. *)
RequestResultAnyFirst(r) ==
  CASE ~ParamsValid(r)                -> -NRF_EINVAL
    [] session # "Idle"               -> -NRF_EAGAIN
    [] OTHER                          -> 0

RequestResult(r) ==
  CASE ~ParamsValid(r)                -> -NRF_EINVAL
    [] ~IsEarliest(r) /\ ~hasPrev     -> -NRF_EINVAL
    [] session # "Idle"               -> -NRF_EAGAIN
    [] OTHER                          -> 0

(* timeslot_request. *)
TimeslotRequest(r) ==
  /\ MainRuns /\ Len(lpq) < LPQ_MAX
  /\ ret' = RequestResult(r)
  /\ IF RequestResult(r) = 0
     THEN Accept(r)
     ELSE UNCHANGED <<session, req, left, slotLen, hfxo, hfxoUsers>>
  /\ UNCHANGED <<epoch, hasPrev, hp, lp, lpq, ble>>

-----------------------------------------------------------------------------
(* Fault model for Start: the BLE check missing. *)
StartOverBle ==
  /\ session = "Pending" /\ hp = NO_SIGNAL
  /\ NeedsXtal(req) => hfxo = "On"
  /\ session' = "Active" /\ hp' = TIMESLOT_SIGNAL_START /\ hasPrev' = TRUE
  /\ left' = Length(req) /\ slotLen' = Length(req)
  /\ UNCHANGED <<epoch, req, lp, lpq, ble, hfxo, hfxoUsers, ret>>

(* The scheduler grants the scheduled request: the radio is free of BLE   *)
(* and, for XTAL_GUARANTEED, the crystal runs. TIMER0 restarts, START is   *)
(* dispatched in the priority-0 context.                                   *)
Start ==
  /\ session = "Pending" /\ hp = NO_SIGNAL /\ ble # "Active"
  /\ NeedsXtal(req) => hfxo = "On"
  /\ session' = "Active" /\ hp' = TIMESLOT_SIGNAL_START /\ hasPrev' = TRUE
  /\ left' = Length(req) /\ slotLen' = Length(req)
  /\ UNCHANGED <<epoch, req, lp, lpq, ble, hfxo, hfxoUsers, ret>>

(* Fault model for Block: BLOCKED and SESSION_IDLE are put at the front of *)
(* the deferred queue, ahead of what is already waiting.                  *)
BlockFirst ==
  /\ session = "Pending" /\ hp = NO_SIGNAL /\ ble # "Idle"
  /\ session' = "Idle" /\ req' = NoRequest
  /\ SetClock(ClockFor(NoRequest))
  /\ lpq' = <<Entry(TIMESLOT_SIGNAL_BLOCKED),
              Entry(TIMESLOT_SIGNAL_SESSION_IDLE)>> \o lpq
  /\ UNCHANGED <<epoch, hasPrev, left, slotLen, hp, lp, ble, ret>>

(* The scheduler gives up on the request because a BLE event claims its   *)
(* window: BLOCKED is deferred, and the session, now without requests,    *)
(* is reported idle.                                                       *)
Block ==
  /\ session = "Pending" /\ hp = NO_SIGNAL /\ ble # "Idle"
  /\ session' = "Idle" /\ req' = NoRequest
  /\ SetClock(ClockFor(NoRequest))
  /\ lpq' = lpq \o <<Entry(TIMESLOT_SIGNAL_BLOCKED),
                     Entry(TIMESLOT_SIGNAL_SESSION_IDLE)>>
  /\ UNCHANGED <<epoch, hasPrev, left, slotLen, hp, lp, ble, ret>>

(* A TIMER0 or RADIO interrupt during the timeslot. *)
SlotIrq(s) ==
  /\ session = "Active" /\ hp = NO_SIGNAL
  /\ hp' = s
  /\ UNCHANGED <<session, epoch, req, hasPrev, left, slotLen, lp, lpq, ble,
                 hfxo, hfxoUsers, ret>>

(* Fault model for Tick: the remaining-time counter may wrap below zero. *)
TickUnguarded ==
  /\ session = "Active"
  /\ left' = left - 1
  /\ UNCHANGED <<session, epoch, req, hasPrev, slotLen, hp, lp, lpq, ble,
                 hfxo, hfxoUsers, ret>>

(* Time passes in the running timeslot. *)
Tick ==
  /\ session = "Active" /\ left > 0
  /\ left' = left - 1
  /\ UNCHANGED <<session, epoch, req, hasPrev, slotLen, hp, lp, lpq, ble,
                 hfxo, hfxoUsers, ret>>

(* The timeslot runs out: the controller takes the radio back. *)
Expire ==
  /\ session = "Active" /\ left = 0 /\ hp = NO_SIGNAL
  /\ EndSlot
  /\ lpq' = Append(lpq, Entry(TIMESLOT_SIGNAL_SESSION_IDLE))
  /\ UNCHANGED <<epoch, hasPrev, hp, lp, ble, ret>>

-----------------------------------------------------------------------------
(* The callback running in context ctx returns a. *)
Cur(ctx) == IF ctx = "hp" THEN hp ELSE lp.sig
SetSig(ctx, s) ==
  IF ctx = "hp" THEN hp' = s /\ lp' = lp
                ELSE lp' = [lp EXCEPT !.sig = s] /\ hp' = hp

(* Fault model for NextRequestOk: the request type is not checked inside *)
(* a timeslot.                                                             *)
NextRequestOkAnyType(r) ==
  /\ r # NoRequest /\ ParamsValid(r)
  /\ IF session = "Active" THEN TRUE
     ELSE session = "Idle" /\ (IsEarliest(r) \/ hasPrev)

(* A REQUEST return is valid when p_next is a valid request that may be   *)
(* scheduled now: normal only within a timeslot, otherwise from an idle   *)
(* session, earliest first.                                                *)
NextRequestOk(r) ==
  /\ r # NoRequest /\ ParamsValid(r)
  /\ IF session = "Active" THEN ~IsEarliest(r)
     ELSE session = "Idle" /\ (IsEarliest(r) \/ hasPrev)

ValidReturn(a) ==
  \/ a.callback_action = TIMESLOT_SIGNAL_ACTION_NONE
  \/ /\ a.callback_action \in {TIMESLOT_SIGNAL_ACTION_EXTEND, TIMESLOT_SIGNAL_ACTION_END}
     /\ session = "Active"
  \/ a.callback_action = TIMESLOT_SIGNAL_ACTION_REQUEST /\ NextRequestOk(a.p_next)

(* The extension fits: long enough, asked for at least the margin before  *)
(* the end.                                                                *)
ExtendFits(l) ==
  l >= TIMESLOT_EXTENSION_TIME_MIN_US /\ left >= TIMESLOT_EXTENSION_MARGIN_MIN_US

(* TIMESLOT_SIGNAL_ACTION_EXTEND: succeeds when it fits and no BLE event   *)
(* is in the way; EXTEND_FAILED or EXTEND_SUCCEEDED follows in the same   *)
(* context.                                                                *)
ReturnExtend(ctx, l) ==
  /\ \/ /\ ExtendFits(l) /\ ble = "Idle"
        /\ left' = left + l /\ slotLen' = slotLen + l
        /\ SetSig(ctx, TIMESLOT_SIGNAL_EXTEND_SUCCEEDED)
     \/ /\ ~ExtendFits(l) \/ ble # "Idle"
        /\ UNCHANGED <<left, slotLen>>
        /\ SetSig(ctx, TIMESLOT_SIGNAL_EXTEND_FAILED)
  /\ UNCHANGED <<session, epoch, req, hasPrev, lpq, ble, hfxo, hfxoUsers, ret>>

(* Fault model for ReturnInvalid: INVALID_RETURN is sent but the timeslot  *)
(* is not ended.                                                           *)
ReturnInvalidNoEnd(ctx) ==
  /\ SetSig(ctx, TIMESLOT_SIGNAL_INVALID_RETURN)
  /\ UNCHANGED <<session, req, left, slotLen, hfxo, hfxoUsers, lpq, epoch,
                 hasPrev, ble, ret>>

(* An invalid return: the timeslot, if one runs, ends at once, and        *)
(* INVALID_RETURN is dispatched in the same context.                       *)
ReturnInvalid(ctx) ==
  /\ IF session = "Active"
     THEN EndSlot /\ lpq' = Append(lpq, Entry(TIMESLOT_SIGNAL_SESSION_IDLE))
     ELSE UNCHANGED <<session, req, left, slotLen, hfxo, hfxoUsers, lpq>>
  /\ SetSig(ctx, TIMESLOT_SIGNAL_INVALID_RETURN)
  /\ UNCHANGED <<epoch, hasPrev, ble, ret>>

Return(ctx, a) ==
  /\ Cur(ctx) # NO_SIGNAL
  /\ ctx = "lp" => hp = NO_SIGNAL
  /\ a.callback_action = TIMESLOT_SIGNAL_ACTION_REQUEST => Len(lpq) < LPQ_MAX
  /\ a.callback_action = TIMESLOT_SIGNAL_ACTION_EXTEND => slotLen + a.length_us <= MAX_SLOT_US
  /\ IF ~ValidReturn(a) THEN ReturnInvalid(ctx)
     ELSE CASE a.callback_action = TIMESLOT_SIGNAL_ACTION_NONE ->
                 SetSig(ctx, NO_SIGNAL)
                 /\ UNCHANGED <<session, epoch, req, hasPrev, left, slotLen,
                                lpq, ble, hfxo, hfxoUsers, ret>>
            [] a.callback_action = TIMESLOT_SIGNAL_ACTION_EXTEND ->
                 ReturnExtend(ctx, a.length_us)
            [] a.callback_action = TIMESLOT_SIGNAL_ACTION_END ->
                 EndSlot /\ SetSig(ctx, NO_SIGNAL)
                 /\ lpq' = Append(lpq, Entry(TIMESLOT_SIGNAL_SESSION_IDLE))
                 /\ UNCHANGED <<epoch, hasPrev, ble, ret>>
            [] OTHER ->
                 Accept(a.p_next) /\ SetSig(ctx, NO_SIGNAL)
                 /\ UNCHANGED <<epoch, hasPrev, lpq, ble, ret>>

-----------------------------------------------------------------------------
(* ble_controller_low_prio_tasks_process takes the oldest deferred signal *)
(* and calls the session's callback with it; with no session open there   *)
(* is no callback and the signal is dropped.                               *)
LowPrioProcess ==
  /\ hp = NO_SIGNAL /\ lp.sig = NO_SIGNAL /\ lpq # <<>>
  /\ lp' = IF session = "Closed" THEN NoEntry ELSE Head(lpq)
  /\ lpq' = Tail(lpq)
  /\ UNCHANGED <<session, epoch, req, hasPrev, left, slotLen, hp, ble, hfxo,
                 hfxoUsers, ret>>

(* The controller's own BLE radio events, the competing demand. *)
BleSchedule ==
  /\ ble = "Idle"
  /\ ble' = "Scheduled" /\ SetClock(hfxoUsers \cup {"BLE"})
  /\ UNCHANGED <<session, epoch, req, hasPrev, left, slotLen, hp, lp, lpq, ret>>

BleStart ==
  /\ ble = "Scheduled" /\ hp = NO_SIGNAL /\ session # "Active" /\ hfxo = "On"
  /\ ble' = "Active"
  /\ UNCHANGED <<session, epoch, req, hasPrev, left, slotLen, hp, lp, lpq,
                 hfxo, hfxoUsers, ret>>

BleEnd ==
  /\ ble = "Active" /\ hp = NO_SIGNAL
  /\ ble' = "Idle" /\ SetClock(hfxoUsers \ {"BLE"})
  /\ UNCHANGED <<session, epoch, req, hasPrev, left, slotLen, hp, lp, lpq, ret>>

(* The crystal reports that it is stable (POWER_CLOCK interrupt). *)
HfxoStarted ==
  /\ hfxo = "Starting"
  /\ hfxo' = "On"
  /\ UNCHANGED <<session, epoch, req, hasPrev, left, slotLen, hp, lp, lpq, ble,
                 hfxoUsers, ret>>

-----------------------------------------------------------------------------
Next ==
  \/ SessionOpen \/ SessionClose
  \/ \E r \in Requests : TimeslotRequest(r)
  \/ Start \/ Block \/ Tick \/ Expire
  \/ \E s \in {TIMESLOT_SIGNAL_TIMER0, TIMESLOT_SIGNAL_RADIO} : SlotIrq(s)
  \/ \E ctx \in {"hp", "lp"}, a \in Returns : Return(ctx, a)
  \/ LowPrioProcess
  \/ BleSchedule \/ BleStart \/ BleEnd \/ HfxoStarted

(* Every scheduled request is eventually started or blocked (timeslot.h:  *)
(* "Successful requests will result in START. Unsuccessful requests will  *)
(* result in a BLOCKED event"), and a started crystal becomes stable.     *)
Fairness == WF_vars(Start \/ Block) /\ WF_vars(HfxoStarted)

Spec == Init /\ [][Next]_vars
FairSpec == Spec /\ Fairness

-----------------------------------------------------------------------------
(* Type invariant. *)
TypeOK ==
  /\ session \in {"Closed", "Idle", "Pending", "Active"}
  /\ epoch \in 0..MAX_OPENS
  /\ req \in Requests \cup {NoRequest}
  /\ hasPrev \in BOOLEAN
  /\ left \in 0..MAX_SLOT_US /\ slotLen \in 0..MAX_SLOT_US
  /\ hp \in Signals \cup {NO_SIGNAL}
  /\ lp \in [sig : Signals \cup {NO_SIGNAL}, epoch : 0..MAX_OPENS]
  /\ lpq \in Seq([sig : DeferredSignals, epoch : 0..MAX_OPENS])
  /\ ble \in {"Idle", "Scheduled", "Active"}
  /\ hfxo \in {"Off", "Starting", "On"}
  /\ hfxoUsers \subseteq {"BLE", "TS"}
  /\ ret \in {0, -NRF_EAGAIN, -NRF_EINVAL}

(* The radio belongs to one party: a granted timeslot and a BLE radio     *)
(* event never run together (timeslot.h: the controller does not touch    *)
(* RADIO or TIMER0 during the timeslot), across open, close, forced ends  *)
(* and requests returned from the callback.                                *)
RadioExclusive == ~(session = "Active" /\ ble = "Active")

(* A timeslot asked for with TIMESLOT_HFCLK_CFG_XTAL_GUARANTEED runs on    *)
(* the crystal for its whole duration, although BLE, which shares the     *)
(* crystal, may release its own request meanwhile.                         *)
XtalHeld ==
  session = "Active" /\ NeedsXtal(req) => hfxo = "On"

(* The timeslot holds a crystal request exactly while it has a scheduled  *)
(* or running XTAL_GUARANTEED request: every end, block, cancel and       *)
(* forced end gives the crystal back, so it is not left running.          *)
XtalReleased ==
  ("TS" \in hfxoUsers) <=> (session \in {"Pending", "Active"} /\ NeedsXtal(req))

(* The priority-0 callback sees START, TIMER0, RADIO and EXTEND_* only     *)
(* inside a timeslot, and INVALID_RETURN only after the timeslot it       *)
(* belonged to has been ended.                                             *)
SignalsMatchSlot ==
  /\ hp \in SlotSignals => session = "Active"
  /\ hp = TIMESLOT_SIGNAL_INVALID_RETURN => session # "Active"

(* Deferred BLOCKED, CANCELLED and SESSION_IDLE reach the low-priority    *)
(* callback in the order of the sessions that caused them: no signal of   *)
(* an older session waits behind, or is delivered after, one of a newer   *)
(* session, and none belongs to a session not yet opened.                 *)
DeferredInSessionOrder ==
  /\ \A i \in 1..Len(lpq) : lpq[i].epoch <= epoch
  /\ \A i, j \in 1..Len(lpq) : i < j => lpq[i].epoch <= lpq[j].epoch
  /\ lp.epoch <= epoch
  /\ \A i \in 1..Len(lpq) : lp.epoch <= lpq[i].epoch

(* Every scheduled request is eventually started, blocked or cancelled. *)
RequestResolved == session = "Pending" ~> session # "Pending"

-----------------------------------------------------------------------------
(* The refinement mapping to TimeslotArbiter: the radio is the session's  *)
(* while its timeslot runs and BLE's while a BLE event is on the air; the *)
(* request's kind is read from its request_type.                          *)
Owner ==
  IF session = "Active" THEN "App" ELSE IF ble = "Active" THEN "BLE" ELSE "None"
Kind ==
  IF req = NoRequest THEN "None"
  ELSE IF IsEarliest(req) THEN "Earliest" ELSE "Normal"

Arb == INSTANCE TimeslotArbiter
         WITH state <- session, owner <- Owner, kind <- Kind, started <- hasPrev

(* The interface implements the arbiter of the spec: every step of the    *)
(* three contexts is a session transition of section 4.3 or leaves it     *)
(* alone, the first request is earliest, no earliest request is made from *)
(* inside a timeslot, and a scheduled request is granted or given up.     *)
ImplementsArbiter == Arb!ArbSpec

(* The safety part: the steps alone, without the fairness of the grant. *)
ArbiterSafety == Arb!ArbSafe

(* "The first request in a session must always be of type EARLIEST"       *)
(* (timeslot.h:271), read on the code's state: a normal request is only   *)
(* scheduled or running once a timeslot of this session has started, so   *)
(* neither timeslot_request nor a callback's REQUEST can schedule one     *)
(* first, and a reopened session starts over.                              *)
FirstRequestEarliest == Arb!FirstEarliest

-----------------------------------------------------------------------------
(* The inductive strengthening used by the proofs of TimeslotProofs.       *)

(* The crystal is off exactly when nobody requests it. *)
ClockMatchesUsers == (hfxo = "Off") <=> (hfxoUsers = {})

(* A scheduled or running request is one that passed the parameter        *)
(* checks; a closed or idle session holds none; the time left never       *)
(* exceeds the granted length.                                             *)
RequestState ==
  /\ session \in {"Pending", "Active"} => req \in Requests /\ ParamsValid(req)
  /\ session \in {"Closed", "Idle"} => req = NoRequest
  /\ left <= slotLen

(* The conjunction is preserved by every step; it implies TypeOK,        *)
(* RadioExclusive, XtalHeld, XtalReleased and SignalsMatchSlot.           *)
IInv ==
  /\ TypeOK
  /\ RequestState
  /\ ClockMatchesUsers
  /\ RadioExclusive
  /\ XtalHeld
  /\ XtalReleased
  /\ SignalsMatchSlot

-----------------------------------------------------------------------------
(* Statements of the interface that the deferred delivery contradicts.    *)

(* A deferred signal reaches the callback of the session that caused it   *)
(* (timeslot.h: CANCELLED reports that "the previous request was          *)
(* cancelled").                                                            *)
SignalReachesItsSession == lp.sig # NO_SIGNAL => lp.epoch = epoch

(* SESSION_IDLE is seen only when "the timeslot session has no more       *)
(* pending requests".                                                      *)
IdleMeansNoRequest ==
  lp.sig = TIMESLOT_SIGNAL_SESSION_IDLE => session = "Idle"

=============================================================================
