--------------------------- MODULE TimeslotProofs ---------------------------
(***************************************************************************)
(* Proofs that every behaviour of Timeslot keeps IInv, for every value of *)
(* the constants allowed by TimingAssumption and InputAssumption, and so  *)
(* keeps the type invariant, the radio exclusion, the crystal bookkeeping *)
(* and the signal/timeslot correspondence.                                 *)
(***************************************************************************)
EXTENDS Timeslot, SequenceTheorems, TLAPS

(* The arithmetic facts on the constants that the steps use. *)
LEMMA ConstFacts ==
  /\ MAX_OPENS \in Nat /\ MAX_SLOT_US \in Nat /\ LPQ_MAX \in Nat
  /\ ExtLengths \subseteq Nat /\ NoRequest \notin Requests
BY InputAssumption

(* What the callback may return: a code, a length and a request pointer. *)
LEMMA ReturnsFacts ==
  ASSUME NEW a \in Returns
  PROVE  /\ a.callback_action \in Nat
         /\ a.length_us \in Nat
         /\ a.p_next \in Requests \cup {NoRequest}
BY InputAssumption DEF Returns, TIMESLOT_SIGNAL_ACTION_NONE,
   TIMESLOT_SIGNAL_ACTION_END, TIMESLOT_SIGNAL_ACTION_EXTEND,
   TIMESLOT_SIGNAL_ACTION_REQUEST

(* A request that passed the parameter checks has a length that fits the *)
(* bounds of TypeOK.                                                       *)
LEMMA LengthFits ==
  ASSUME NEW r \in Requests, ParamsValid(r)
  PROVE  Length(r) \in 0..MAX_SLOT_US
BY TimingAssumption, InputAssumption DEF ParamsValid, RequestLayout, Length,
   IsEarliest

(* The types of deferred-signal entries and of the low-priority context. *)
LpqType == [sig : DeferredSignals, epoch : 0..MAX_OPENS]
LpType == [sig : Signals \cup {NO_SIGNAL}, epoch : 0..MAX_OPENS]

(* An entry made in the current session has the entry type. *)
LEMMA EntryType ==
  ASSUME NEW s \in DeferredSignals, epoch \in 0..MAX_OPENS
  PROVE  Entry(s) \in LpqType
BY DEF Entry, LpqType

(* Appending one or two entries keeps a queue of entries. *)
LEMMA AppendType ==
  ASSUME NEW q \in Seq(LpqType), NEW e1 \in LpqType, NEW e2 \in LpqType
  PROVE  /\ Append(q, e1) \in Seq(LpqType)
         /\ q \o <<e1, e2>> \in Seq(LpqType)
OBVIOUS

(* The head and tail of a non-empty queue. *)
LEMMA HeadTailType ==
  ASSUME NEW q \in Seq(LpqType), q # <<>>
  PROVE  /\ Head(q) \in LpqType /\ Head(q) \in LpType
         /\ Tail(q) \in Seq(LpqType)
<1>1. Head(q) \in LpqType /\ Tail(q) \in Seq(LpqType)
  BY HeadTailProperties
<1>2. LpqType \subseteq LpType
  BY DEF LpqType, LpType, DeferredSignals, Signals, TIMESLOT_SIGNAL_BLOCKED,
     TIMESLOT_SIGNAL_CANCELLED, TIMESLOT_SIGNAL_SESSION_IDLE
<1>3. QED
  BY <1>1, <1>2

(* SetClock keeps the crystal off exactly when nobody requests it, and a  *)
(* running crystal keeps running while someone requests it.                *)
LEMMA SetClockFacts ==
  ASSUME NEW users \in SUBSET {"BLE", "TS"},
         hfxo \in {"Off", "Starting", "On"},
         SetClock(users)
  PROVE  /\ hfxoUsers' = users
         /\ hfxo' \in {"Off", "Starting", "On"}
         /\ (hfxo' = "Off") <=> (users = {})
         /\ users # {} /\ hfxo = "On" => hfxo' = "On"
BY DEF SetClock

(* The timeslot holds a crystal request after ClockFor(r) exactly when r *)
(* needs the crystal.                                                      *)
LEMMA ClockForFacts ==
  ASSUME NEW r, hfxoUsers \subseteq {"BLE", "TS"}
  PROVE  /\ ClockFor(r) \in SUBSET {"BLE", "TS"}
         /\ ("TS" \in ClockFor(r)) <=> NeedsXtal(r)
BY DEF ClockFor

LEMMA NoRequestNoXtal == ~NeedsXtal(NoRequest)
BY DEF NeedsXtal

-----------------------------------------------------------------------------
LEMMA InitIInv == Init => IInv
<1> SUFFICES ASSUME Init PROVE IInv
  OBVIOUS
<1>1. TypeOK
  <2>1. lp \in [sig : Signals \cup {NO_SIGNAL}, epoch : 0..MAX_OPENS]
    BY InputAssumption DEF Init, NoEntry, Signals, NO_SIGNAL
  <2>2. lpq \in Seq([sig : DeferredSignals, epoch : 0..MAX_OPENS])
    BY DEF Init
  <2>3. ret \in {0, -NRF_EAGAIN, -NRF_EINVAL}
    BY DEF Init
  <2>4. hp \in Signals \cup {NO_SIGNAL}
    BY DEF Init
  <2>5. epoch \in 0..MAX_OPENS /\ left \in 0..MAX_SLOT_US /\ slotLen \in 0..MAX_SLOT_US
    BY InputAssumption DEF Init
  <2>6. QED
    BY <2>1, <2>2, <2>3, <2>4, <2>5 DEF Init, TypeOK
<1>2. RequestState /\ ClockMatchesUsers /\ RadioExclusive
  BY DEF Init, RequestState, ClockMatchesUsers, RadioExclusive
<1>3. XtalHeld /\ XtalReleased /\ SignalsMatchSlot
  BY DEF Init, XtalHeld, XtalReleased, SignalsMatchSlot, NeedsXtal,
     SlotSignals, NO_SIGNAL, TIMESLOT_SIGNAL_START, TIMESLOT_SIGNAL_TIMER0,
     TIMESLOT_SIGNAL_RADIO, TIMESLOT_SIGNAL_EXTEND_FAILED,
     TIMESLOT_SIGNAL_EXTEND_SUCCEEDED, TIMESLOT_SIGNAL_INVALID_RETURN
<1>4. QED
  BY <1>1, <1>2, <1>3 DEF IInv

-----------------------------------------------------------------------------
(* The main-thread calls. *)
LEMMA SessionOpenIInv ==
  ASSUME IInv, SessionOpen
  PROVE  IInv'
<1>1. CASE session = "Closed" /\ epoch < MAX_OPENS /\ session' = "Idle"
  <2>0. /\ epoch' = epoch + 1 /\ ret' = 0 /\ hasPrev' = FALSE
        /\ UNCHANGED <<req, left, slotLen, hp, lp, lpq, ble, hfxo, hfxoUsers>>
    BY <1>1 DEF SessionOpen
  <2>1. TypeOK'
    <3>1. epoch' \in 0..MAX_OPENS
      BY <1>1, <2>0, ConstFacts DEF IInv, TypeOK
    <3>2. ret' \in {0, -NRF_EAGAIN, -NRF_EINVAL}
      BY <2>0
    <3>3. (lp \in [sig : Signals \cup {NO_SIGNAL}, epoch : 0..MAX_OPENS])'
      BY <2>0 DEF IInv, TypeOK
    <3>4. (lpq \in Seq([sig : DeferredSignals, epoch : 0..MAX_OPENS]))'
      BY <2>0 DEF IInv, TypeOK
    <3>5. session' \in {"Closed", "Idle", "Pending", "Active"}
      BY <1>1
    <3>6. QED
      BY <3>1, <3>2, <3>3, <3>4, <3>5, <2>0 DEF IInv, TypeOK
  <2>2. (RequestState /\ ClockMatchesUsers /\ RadioExclusive)'
    BY <1>1 DEF SessionOpen, IInv, RequestState, ClockMatchesUsers,
       RadioExclusive
  <2>3. (XtalHeld /\ XtalReleased /\ SignalsMatchSlot)'
    BY <1>1 DEF SessionOpen, IInv, XtalHeld, XtalReleased, SignalsMatchSlot,
       MainRuns, NO_SIGNAL, SlotSignals, TIMESLOT_SIGNAL_START,
       TIMESLOT_SIGNAL_TIMER0, TIMESLOT_SIGNAL_RADIO,
       TIMESLOT_SIGNAL_EXTEND_FAILED, TIMESLOT_SIGNAL_EXTEND_SUCCEEDED,
       TIMESLOT_SIGNAL_INVALID_RETURN
  <2>4. QED
    BY <2>1, <2>2, <2>3 DEF IInv
<1>2. CASE session # "Closed"
  BY <1>2 DEF SessionOpen, IInv, TypeOK, RequestState, ClockMatchesUsers,
     RadioExclusive, XtalHeld, XtalReleased, SignalsMatchSlot, NRF_EAGAIN
<1>3. QED
  BY <1>1, <1>2 DEF SessionOpen

LEMMA SessionCloseIInv ==
  ASSUME IInv, SessionClose
  PROVE  IInv'
<1>1. CASE session # "Closed"
  <2>0. /\ session' = "Closed" /\ req' = NoRequest /\ left' = 0 /\ slotLen' = 0
        /\ SetClock(ClockFor(NoRequest)) /\ ret' = 0
        /\ lpq' = IF session = "Pending"
                  THEN Append(lpq, Entry(TIMESLOT_SIGNAL_CANCELLED)) ELSE lpq
        /\ UNCHANGED <<epoch, hasPrev, hp, lp, ble>>
        /\ MainRuns
    BY <1>1 DEF SessionClose
  <2>1. /\ ClockFor(NoRequest) \in SUBSET {"BLE", "TS"}
        /\ "TS" \notin ClockFor(NoRequest)
    BY ClockForFacts, NoRequestNoXtal DEF IInv, TypeOK
  <2>2. /\ hfxoUsers' = ClockFor(NoRequest)
        /\ hfxo' \in {"Off", "Starting", "On"}
        /\ (hfxo' = "Off") <=> (hfxoUsers' = {})
    BY <2>0, <2>1, SetClockFacts DEF IInv, TypeOK
  <2>3. lpq' \in Seq(LpqType)
    <3>1. Entry(TIMESLOT_SIGNAL_CANCELLED) \in LpqType
      BY EntryType DEF IInv, TypeOK, DeferredSignals
    <3>2. lpq \in Seq(LpqType)
      BY DEF IInv, TypeOK, LpqType
    <3>3. QED
      BY <2>0, <3>1, <3>2, AppendType
  <2>4. TypeOK'
    BY <2>0, <2>1, <2>2, <2>3, ConstFacts
       DEF IInv, TypeOK, LpqType, NRF_EAGAIN, NRF_EINVAL
  <2>5. (RequestState /\ ClockMatchesUsers /\ RadioExclusive /\ XtalHeld)'
    BY <2>0, <2>2 DEF RequestState, ClockMatchesUsers, RadioExclusive, XtalHeld
  <2>6. (XtalReleased /\ SignalsMatchSlot)'
    BY <2>0, <2>1, <2>2 DEF XtalReleased, SignalsMatchSlot, MainRuns,
       NO_SIGNAL, SlotSignals, TIMESLOT_SIGNAL_START, TIMESLOT_SIGNAL_TIMER0,
       TIMESLOT_SIGNAL_RADIO, TIMESLOT_SIGNAL_EXTEND_FAILED,
       TIMESLOT_SIGNAL_EXTEND_SUCCEEDED, TIMESLOT_SIGNAL_INVALID_RETURN
  <2>7. QED
    BY <2>4, <2>5, <2>6 DEF IInv
<1>2. CASE session = "Closed"
  BY <1>2 DEF SessionClose, IInv, TypeOK, RequestState, ClockMatchesUsers,
     RadioExclusive, XtalHeld, XtalReleased, SignalsMatchSlot, NRF_EAGAIN
<1>3. QED
  BY <1>1, <1>2

(* The outcome of timeslot_request: 0 only from an idle session for a    *)
(* request that passes the checks.                                         *)
LEMMA RequestResultFacts ==
  ASSUME NEW r
  PROVE  /\ RequestResult(r) \in {0, -NRF_EAGAIN, -NRF_EINVAL}
         /\ RequestResult(r) = 0 => session = "Idle" /\ ParamsValid(r)
BY DEF RequestResult, NRF_EAGAIN, NRF_EINVAL

LEMMA TimeslotRequestIInv ==
  ASSUME IInv, NEW r \in Requests, TimeslotRequest(r)
  PROVE  IInv'
<1>0. /\ ret' = RequestResult(r) /\ MainRuns
      /\ UNCHANGED <<epoch, hasPrev, hp, lp, lpq, ble>>
  BY DEF TimeslotRequest
<1>1. CASE RequestResult(r) = 0
  <2>0. /\ session' = "Pending" /\ req' = r /\ left' = 0 /\ slotLen' = 0
        /\ SetClock(ClockFor(r))
        /\ session = "Idle" /\ ParamsValid(r)
    BY <1>1, RequestResultFacts DEF TimeslotRequest, Accept
  <2>1. /\ ClockFor(r) \in SUBSET {"BLE", "TS"}
        /\ ("TS" \in ClockFor(r)) <=> NeedsXtal(r)
    BY ClockForFacts DEF IInv, TypeOK
  <2>2. /\ hfxoUsers' = ClockFor(r)
        /\ hfxo' \in {"Off", "Starting", "On"}
        /\ (hfxo' = "Off") <=> (hfxoUsers' = {})
    BY <2>0, <2>1, SetClockFacts DEF IInv, TypeOK
  <2>3. (lp \in LpType /\ lpq \in Seq(LpqType))'
    BY <1>0 DEF IInv, TypeOK, LpType, LpqType
  <2>4. TypeOK'
    <3>1. req' \in Requests \cup {NoRequest}
      BY <2>0
    <3>2. left' \in 0..MAX_SLOT_US /\ slotLen' \in 0..MAX_SLOT_US
      BY <2>0, ConstFacts
    <3>3. ret' \in {0, -NRF_EAGAIN, -NRF_EINVAL}
      BY <1>0, <1>1
    <3>4. (lp \in [sig : Signals \cup {NO_SIGNAL}, epoch : 0..MAX_OPENS])'
      BY <2>3 DEF LpType
    <3>5. (lpq \in Seq([sig : DeferredSignals, epoch : 0..MAX_OPENS]))'
      BY <2>3 DEF LpqType
    <3>6. (/\ epoch \in 0..MAX_OPENS /\ hasPrev \in BOOLEAN
           /\ hp \in Signals \cup {NO_SIGNAL} /\ ble \in {"Idle", "Scheduled", "Active"})'
      BY <1>0 DEF IInv, TypeOK
    <3>7. QED
      BY <2>0, <2>1, <2>2, <3>1, <3>2, <3>3, <3>4, <3>5, <3>6 DEF TypeOK
  <2>5. (RequestState /\ ClockMatchesUsers /\ RadioExclusive /\ XtalHeld)'
    BY <2>0, <2>2 DEF RequestState, ClockMatchesUsers, RadioExclusive,
       XtalHeld
  <2>6. (XtalReleased /\ SignalsMatchSlot)'
    BY <1>0, <2>0, <2>1, <2>2 DEF XtalReleased, SignalsMatchSlot, MainRuns,
       NO_SIGNAL, SlotSignals, TIMESLOT_SIGNAL_START, TIMESLOT_SIGNAL_TIMER0,
       TIMESLOT_SIGNAL_RADIO, TIMESLOT_SIGNAL_EXTEND_FAILED,
       TIMESLOT_SIGNAL_EXTEND_SUCCEEDED, TIMESLOT_SIGNAL_INVALID_RETURN
  <2>7. QED
    BY <2>4, <2>5, <2>6 DEF IInv
<1>2. CASE RequestResult(r) # 0
  <2>0. UNCHANGED <<session, req, left, slotLen, hfxo, hfxoUsers>>
    BY <1>2 DEF TimeslotRequest
  <2>1. ret' \in {0, -NRF_EAGAIN, -NRF_EINVAL}
    BY <1>0, RequestResultFacts
  <2>2. QED
    BY <1>0, <2>0, <2>1 DEF IInv, TypeOK, RequestState, ClockMatchesUsers,
       RadioExclusive, XtalHeld, XtalReleased, SignalsMatchSlot
<1>3. QED
  BY <1>1, <1>2

-----------------------------------------------------------------------------
(* Which signals are timeslot signals. *)
LEMMA SignalFacts ==
  /\ SlotSignals \subseteq Signals
  /\ {TIMESLOT_SIGNAL_START, TIMESLOT_SIGNAL_TIMER0, TIMESLOT_SIGNAL_RADIO,
      TIMESLOT_SIGNAL_EXTEND_FAILED, TIMESLOT_SIGNAL_EXTEND_SUCCEEDED}
       \subseteq SlotSignals
  /\ TIMESLOT_SIGNAL_INVALID_RETURN \in Signals \ SlotSignals
  /\ NO_SIGNAL \notin SlotSignals /\ NO_SIGNAL # TIMESLOT_SIGNAL_INVALID_RETURN
BY DEF SlotSignals, Signals, NO_SIGNAL, TIMESLOT_SIGNAL_START,
   TIMESLOT_SIGNAL_TIMER0, TIMESLOT_SIGNAL_RADIO, TIMESLOT_SIGNAL_EXTEND_FAILED,
   TIMESLOT_SIGNAL_EXTEND_SUCCEEDED, TIMESLOT_SIGNAL_INVALID_RETURN

(* The scheduler's steps. *)
LEMMA StartIInv ==
  ASSUME IInv, Start
  PROVE  IInv'
<1>0. /\ session' = "Active" /\ hp' = TIMESLOT_SIGNAL_START /\ hasPrev' = TRUE
      /\ left' = Length(req) /\ slotLen' = Length(req)
      /\ UNCHANGED <<epoch, req, lp, lpq, ble, hfxo, hfxoUsers, ret>>
      /\ session = "Pending" /\ ble # "Active" /\ (NeedsXtal(req) => hfxo = "On")
  BY DEF Start
<1>1. req \in Requests /\ ParamsValid(req)
  BY <1>0 DEF IInv, RequestState
<1>2. Length(req) \in 0..MAX_SLOT_US
  BY <1>1, LengthFits
<1>3. TypeOK'
  BY <1>0, <1>2, SignalFacts DEF IInv, TypeOK
<1>4. (RequestState /\ ClockMatchesUsers /\ RadioExclusive /\ XtalHeld)'
  BY <1>0, <1>1, <1>2 DEF IInv, RequestState, ClockMatchesUsers,
     RadioExclusive, XtalHeld
<1>5. (XtalReleased /\ SignalsMatchSlot)'
  BY <1>0, SignalFacts DEF IInv, XtalReleased, SignalsMatchSlot
<1>6. QED
  BY <1>3, <1>4, <1>5 DEF IInv

LEMMA BlockIInv ==
  ASSUME IInv, Block
  PROVE  IInv'
<1>0. /\ session' = "Idle" /\ req' = NoRequest
      /\ SetClock(ClockFor(NoRequest))
      /\ lpq' = lpq \o <<Entry(TIMESLOT_SIGNAL_BLOCKED),
                        Entry(TIMESLOT_SIGNAL_SESSION_IDLE)>>
      /\ UNCHANGED <<epoch, hasPrev, left, slotLen, hp, lp, ble, ret>>
      /\ session = "Pending" /\ hp = NO_SIGNAL
  BY DEF Block
<1>1. /\ ClockFor(NoRequest) \in SUBSET {"BLE", "TS"}
      /\ "TS" \notin ClockFor(NoRequest)
  BY ClockForFacts, NoRequestNoXtal DEF IInv, TypeOK
<1>2. /\ hfxoUsers' = ClockFor(NoRequest)
      /\ hfxo' \in {"Off", "Starting", "On"}
      /\ (hfxo' = "Off") <=> (hfxoUsers' = {})
  BY <1>0, <1>1, SetClockFacts DEF IInv, TypeOK
<1>3. lpq' \in Seq(LpqType)
  <2>1. Entry(TIMESLOT_SIGNAL_BLOCKED) \in LpqType
        /\ Entry(TIMESLOT_SIGNAL_SESSION_IDLE) \in LpqType
    BY EntryType DEF IInv, TypeOK, DeferredSignals
  <2>2. lpq \in Seq(LpqType)
    BY DEF IInv, TypeOK, LpqType
  <2>3. QED
    BY <1>0, <2>1, <2>2, AppendType
<1>4. TypeOK'
  BY <1>0, <1>1, <1>2, <1>3, ConstFacts DEF IInv, TypeOK, LpqType
<1>5. (RequestState /\ ClockMatchesUsers /\ RadioExclusive /\ XtalHeld)'
  BY <1>0, <1>2 DEF IInv, RequestState, ClockMatchesUsers, RadioExclusive,
     XtalHeld
<1>6. (XtalReleased /\ SignalsMatchSlot)'
  BY <1>0, <1>1, <1>2, SignalFacts DEF IInv, XtalReleased, SignalsMatchSlot
<1>7. QED
  BY <1>4, <1>5, <1>6 DEF IInv

LEMMA SlotIrqIInv ==
  ASSUME IInv, NEW s \in {TIMESLOT_SIGNAL_TIMER0, TIMESLOT_SIGNAL_RADIO},
         SlotIrq(s)
  PROVE  IInv'
<1>0. /\ session = "Active" /\ hp' = s
      /\ UNCHANGED <<session, epoch, req, hasPrev, left, slotLen, lp, lpq, ble,
                     hfxo, hfxoUsers, ret>>
  BY DEF SlotIrq
<1>1. s \in SlotSignals
  BY SignalFacts
<1>2. QED
  BY <1>0, <1>1, SignalFacts DEF IInv, TypeOK, RequestState, ClockMatchesUsers,
     RadioExclusive, XtalHeld, XtalReleased, SignalsMatchSlot

LEMMA TickIInv ==
  ASSUME IInv, Tick
  PROVE  IInv'
<1>0. /\ session = "Active" /\ left > 0 /\ left' = left - 1
      /\ UNCHANGED <<session, epoch, req, hasPrev, slotLen, hp, lp, lpq, ble,
                     hfxo, hfxoUsers, ret>>
  BY DEF Tick
<1>1. left' \in 0..MAX_SLOT_US /\ left' <= slotLen'
  BY <1>0, ConstFacts DEF IInv, TypeOK, RequestState
<1>2. QED
  BY <1>0, <1>1 DEF IInv, TypeOK, RequestState, ClockMatchesUsers,
     RadioExclusive, XtalHeld, XtalReleased, SignalsMatchSlot

LEMMA ExpireIInv ==
  ASSUME IInv, Expire
  PROVE  IInv'
<1>0. /\ session' = "Idle" /\ req' = NoRequest /\ left' = 0 /\ slotLen' = 0
      /\ SetClock(ClockFor(NoRequest))
      /\ lpq' = Append(lpq, Entry(TIMESLOT_SIGNAL_SESSION_IDLE))
      /\ UNCHANGED <<epoch, hasPrev, hp, lp, ble, ret>>
      /\ hp = NO_SIGNAL
  BY DEF Expire, EndSlot
<1>1. /\ ClockFor(NoRequest) \in SUBSET {"BLE", "TS"}
      /\ "TS" \notin ClockFor(NoRequest)
  BY ClockForFacts, NoRequestNoXtal DEF IInv, TypeOK
<1>2. /\ hfxoUsers' = ClockFor(NoRequest)
      /\ hfxo' \in {"Off", "Starting", "On"}
      /\ (hfxo' = "Off") <=> (hfxoUsers' = {})
  BY <1>0, <1>1, SetClockFacts DEF IInv, TypeOK
<1>3. lpq' \in Seq(LpqType)
  <2>1. Entry(TIMESLOT_SIGNAL_SESSION_IDLE) \in LpqType
    BY EntryType DEF IInv, TypeOK, DeferredSignals
  <2>2. lpq \in Seq(LpqType)
    BY DEF IInv, TypeOK, LpqType
  <2>3. QED
    BY <1>0, <2>1, <2>2, AppendType
<1>4. TypeOK'
  BY <1>0, <1>1, <1>2, <1>3, ConstFacts DEF IInv, TypeOK, LpqType
<1>5. (RequestState /\ ClockMatchesUsers /\ RadioExclusive /\ XtalHeld)'
  BY <1>0, <1>2 DEF RequestState, ClockMatchesUsers, RadioExclusive, XtalHeld
<1>6. (XtalReleased /\ SignalsMatchSlot)'
  BY <1>0, <1>1, <1>2, SignalFacts DEF XtalReleased, SignalsMatchSlot
<1>7. QED
  BY <1>4, <1>5, <1>6 DEF IInv


-----------------------------------------------------------------------------
(* The callback's return. *)

(* Setting the signal of the returning context: the priority-0 signal     *)
(* becomes s or stays idle, since lp returns only while hp is idle.        *)
LEMMA SetSigFacts ==
  ASSUME NEW ctx \in {"hp", "lp"}, NEW s \in Signals \cup {NO_SIGNAL},
         hp \in Signals \cup {NO_SIGNAL}, lp \in LpType,
         ctx = "lp" => hp = NO_SIGNAL,
         SetSig(ctx, s)
  PROVE  /\ hp' \in {s, NO_SIGNAL}
         /\ hp' \in Signals \cup {NO_SIGNAL}
         /\ lp' \in LpType
BY DEF SetSig, LpType

(* The crystal bookkeeping when the timeslot's demand becomes that of r. *)
LEMMA ClockStep ==
  ASSUME NEW r, IInv, SetClock(ClockFor(r))
  PROVE  /\ hfxoUsers' \in SUBSET {"BLE", "TS"}
         /\ ("TS" \in hfxoUsers') <=> NeedsXtal(r)
         /\ hfxo' \in {"Off", "Starting", "On"}
         /\ (hfxo' = "Off") <=> (hfxoUsers' = {})
<1>1. /\ ClockFor(r) \in SUBSET {"BLE", "TS"}
      /\ ("TS" \in ClockFor(r)) <=> NeedsXtal(r)
  BY ClockForFacts DEF IInv, TypeOK
<1>2. QED
  BY <1>1, SetClockFacts DEF IInv, TypeOK

(* Appending a deferred signal of the current session keeps the queue    *)
(* typed.                                                                  *)
LEMMA AppendEntry ==
  ASSUME IInv, NEW s \in DeferredSignals
  PROVE  Append(lpq, Entry(s)) \in Seq([sig : DeferredSignals, epoch : 0..MAX_OPENS])
<1>1. Entry(s) \in LpqType /\ lpq \in Seq(LpqType)
  BY EntryType DEF IInv, TypeOK, LpqType
<1>2. QED
  BY <1>1, AppendType DEF LpqType

(* An invalid return, with or without a running timeslot. *)
LEMMA ReturnInvalidIInv ==
  ASSUME IInv, NEW ctx \in {"hp", "lp"}, ctx = "lp" => hp = NO_SIGNAL,
         ReturnInvalid(ctx)
  PROVE  IInv'
<1>0. /\ SetSig(ctx, TIMESLOT_SIGNAL_INVALID_RETURN)
      /\ UNCHANGED <<epoch, hasPrev, ble, ret>>
  BY DEF ReturnInvalid
<1>1. /\ hp' \in {TIMESLOT_SIGNAL_INVALID_RETURN, NO_SIGNAL}
      /\ hp' \in Signals \cup {NO_SIGNAL} /\ lp' \in LpType
  BY <1>0, SetSigFacts, SignalFacts DEF IInv, TypeOK, LpType
<1>2. hp' \notin SlotSignals
  BY <1>1, SignalFacts
<1>3. CASE session = "Active"
  <2>0. /\ session' = "Idle" /\ req' = NoRequest /\ left' = 0 /\ slotLen' = 0
        /\ SetClock(ClockFor(NoRequest))
        /\ lpq' = Append(lpq, Entry(TIMESLOT_SIGNAL_SESSION_IDLE))
    BY <1>3 DEF ReturnInvalid, EndSlot
  <2>1. /\ hfxoUsers' \in SUBSET {"BLE", "TS"} /\ "TS" \notin hfxoUsers'
        /\ hfxo' \in {"Off", "Starting", "On"}
        /\ (hfxo' = "Off") <=> (hfxoUsers' = {})
    BY <2>0, ClockStep, NoRequestNoXtal
  <2>2. lpq' \in Seq([sig : DeferredSignals, epoch : 0..MAX_OPENS])
    BY <2>0, AppendEntry DEF DeferredSignals
  <2>3. TypeOK'
    BY <1>0, <1>1, <2>0, <2>1, <2>2, ConstFacts DEF IInv, TypeOK, LpType
  <2>4. QED
    BY <1>0, <1>2, <2>0, <2>1, <2>3 DEF IInv, RequestState, ClockMatchesUsers,
       RadioExclusive, XtalHeld, XtalReleased, SignalsMatchSlot
<1>4. CASE session # "Active"
  <2>0. UNCHANGED <<session, req, left, slotLen, hfxo, hfxoUsers, lpq>>
    BY <1>4 DEF ReturnInvalid
  <2>1. TypeOK'
    BY <1>0, <1>1, <2>0 DEF IInv, TypeOK, LpType
  <2>2. QED
    BY <1>0, <1>2, <1>4, <2>0, <2>1 DEF IInv, RequestState, ClockMatchesUsers,
       RadioExclusive, XtalHeld, XtalReleased, SignalsMatchSlot
<1>5. QED
  BY <1>3, <1>4


(* TIMESLOT_SIGNAL_ACTION_NONE: only the context's signal changes. *)
LEMMA ReturnNoneIInv ==
  ASSUME IInv, NEW ctx \in {"hp", "lp"}, ctx = "lp" => hp = NO_SIGNAL,
         SetSig(ctx, NO_SIGNAL),
         UNCHANGED <<session, epoch, req, hasPrev, left, slotLen, lpq, ble,
                     hfxo, hfxoUsers, ret>>
  PROVE  IInv'
<1>1. hp' = NO_SIGNAL /\ lp' \in LpType
  BY SetSigFacts DEF IInv, TypeOK, LpType
<1>2. QED
  BY <1>1, SignalFacts DEF IInv, TypeOK, LpType, RequestState,
     ClockMatchesUsers, RadioExclusive, XtalHeld, XtalReleased,
     SignalsMatchSlot

(* TIMESLOT_SIGNAL_ACTION_EXTEND inside a timeslot, within the bound. *)
LEMMA ReturnExtendIInv ==
  ASSUME IInv, NEW ctx \in {"hp", "lp"}, ctx = "lp" => hp = NO_SIGNAL,
         NEW l \in Nat, session = "Active", slotLen + l <= MAX_SLOT_US,
         ReturnExtend(ctx, l)
  PROVE  IInv'
<1>0. UNCHANGED <<session, epoch, req, hasPrev, lpq, ble, hfxo, hfxoUsers, ret>>
  BY DEF ReturnExtend
<1>1. /\ \/ SetSig(ctx, TIMESLOT_SIGNAL_EXTEND_SUCCEEDED)
         \/ SetSig(ctx, TIMESLOT_SIGNAL_EXTEND_FAILED)
      /\ \/ left' = left + l /\ slotLen' = slotLen + l
         \/ left' = left /\ slotLen' = slotLen
  BY DEF ReturnExtend
<1>2. /\ hp' \in SlotSignals \cup {NO_SIGNAL}
      /\ hp' \in Signals \cup {NO_SIGNAL} /\ lp' \in LpType
  BY <1>1, SetSigFacts, SignalFacts DEF IInv, TypeOK, LpType
<1>3. /\ left' \in 0..MAX_SLOT_US /\ slotLen' \in 0..MAX_SLOT_US
      /\ left' <= slotLen'
  BY <1>1, ConstFacts DEF IInv, TypeOK, RequestState
<1>4. QED
  BY <1>0, <1>2, <1>3, SignalFacts DEF IInv, TypeOK, LpType, RequestState,
     ClockMatchesUsers, RadioExclusive, XtalHeld, XtalReleased,
     SignalsMatchSlot

(* TIMESLOT_SIGNAL_ACTION_END: the timeslot ends, SESSION_IDLE deferred. *)
LEMMA ReturnEndIInv ==
  ASSUME IInv, NEW ctx \in {"hp", "lp"}, ctx = "lp" => hp = NO_SIGNAL,
         EndSlot, SetSig(ctx, NO_SIGNAL),
         lpq' = Append(lpq, Entry(TIMESLOT_SIGNAL_SESSION_IDLE)),
         UNCHANGED <<epoch, hasPrev, ble, ret>>
  PROVE  IInv'
<1>0. /\ session' = "Idle" /\ req' = NoRequest /\ left' = 0 /\ slotLen' = 0
      /\ SetClock(ClockFor(NoRequest))
  BY DEF EndSlot
<1>1. hp' = NO_SIGNAL /\ lp' \in LpType
  BY SetSigFacts DEF IInv, TypeOK, LpType
<1>2. /\ hfxoUsers' \in SUBSET {"BLE", "TS"} /\ "TS" \notin hfxoUsers'
      /\ hfxo' \in {"Off", "Starting", "On"}
      /\ (hfxo' = "Off") <=> (hfxoUsers' = {})
  BY <1>0, ClockStep, NoRequestNoXtal
<1>3. lpq' \in Seq([sig : DeferredSignals, epoch : 0..MAX_OPENS])
  BY AppendEntry DEF DeferredSignals
<1>4. TypeOK'
  BY <1>0, <1>1, <1>2, <1>3, ConstFacts, SignalFacts DEF IInv, TypeOK, LpType
<1>5. QED
  BY <1>0, <1>1, <1>2, <1>4, SignalFacts DEF IInv, RequestState,
     ClockMatchesUsers, RadioExclusive, XtalHeld, XtalReleased,
     SignalsMatchSlot

(* TIMESLOT_SIGNAL_ACTION_REQUEST with an acceptable p_next. *)
LEMMA ReturnRequestIInv ==
  ASSUME IInv, NEW ctx \in {"hp", "lp"}, ctx = "lp" => hp = NO_SIGNAL,
         NEW r \in Requests, ParamsValid(r),
         Accept(r), SetSig(ctx, NO_SIGNAL),
         UNCHANGED <<epoch, hasPrev, lpq, ble, ret>>
  PROVE  IInv'
<1>0. /\ session' = "Pending" /\ req' = r /\ left' = 0 /\ slotLen' = 0
      /\ SetClock(ClockFor(r))
  BY DEF Accept
<1>1. hp' = NO_SIGNAL /\ lp' \in LpType
  BY SetSigFacts DEF IInv, TypeOK, LpType
<1>2. /\ hfxoUsers' \in SUBSET {"BLE", "TS"}
      /\ ("TS" \in hfxoUsers') <=> NeedsXtal(r)
      /\ hfxo' \in {"Off", "Starting", "On"}
      /\ (hfxo' = "Off") <=> (hfxoUsers' = {})
  BY <1>0, ClockStep
<1>3. TypeOK'
  BY <1>0, <1>1, <1>2, ConstFacts, SignalFacts DEF IInv, TypeOK, LpType
<1>4. QED
  BY <1>0, <1>1, <1>2, <1>3, SignalFacts DEF IInv, RequestState,
     ClockMatchesUsers, RadioExclusive, XtalHeld, XtalReleased,
     SignalsMatchSlot


LEMMA ReturnIInv ==
  ASSUME IInv, NEW ctx \in {"hp", "lp"}, NEW a \in Returns, Return(ctx, a)
  PROVE  IInv'
<1>0. /\ ctx = "lp" => hp = NO_SIGNAL
      /\ a.callback_action = TIMESLOT_SIGNAL_ACTION_EXTEND =>
           slotLen + a.length_us <= MAX_SLOT_US
  BY DEF Return
<1>1. /\ a.callback_action \in Nat /\ a.length_us \in Nat
      /\ a.p_next \in Requests \cup {NoRequest}
  BY ReturnsFacts
<1>2. CASE ~ValidReturn(a)
  BY <1>0, <1>2, ReturnInvalidIInv DEF Return
<1>3. CASE ValidReturn(a) /\ a.callback_action = TIMESLOT_SIGNAL_ACTION_NONE
  <2>1. /\ SetSig(ctx, NO_SIGNAL)
        /\ UNCHANGED <<session, epoch, req, hasPrev, left, slotLen,
                       lpq, ble, hfxo, hfxoUsers, ret>>
    BY <1>1, <1>3 DEF Return, TIMESLOT_SIGNAL_ACTION_NONE,
       TIMESLOT_SIGNAL_ACTION_EXTEND, TIMESLOT_SIGNAL_ACTION_END
  <2>2. QED
    BY <1>0, <2>1, ReturnNoneIInv
<1>4. CASE ValidReturn(a) /\ a.callback_action = TIMESLOT_SIGNAL_ACTION_EXTEND
  <2>1. ReturnExtend(ctx, a.length_us)
    BY <1>1, <1>4 DEF Return, TIMESLOT_SIGNAL_ACTION_NONE,
       TIMESLOT_SIGNAL_ACTION_EXTEND, TIMESLOT_SIGNAL_ACTION_END
  <2>2. session = "Active"
    BY <1>4 DEF ValidReturn, TIMESLOT_SIGNAL_ACTION_NONE,
       TIMESLOT_SIGNAL_ACTION_EXTEND, TIMESLOT_SIGNAL_ACTION_END,
       TIMESLOT_SIGNAL_ACTION_REQUEST
  <2>3. QED
    BY <1>0, <1>1, <1>4, <2>1, <2>2, ReturnExtendIInv
<1>5. CASE ValidReturn(a) /\ a.callback_action = TIMESLOT_SIGNAL_ACTION_END
  <2>1. /\ EndSlot /\ SetSig(ctx, NO_SIGNAL)
        /\ lpq' = Append(lpq, Entry(TIMESLOT_SIGNAL_SESSION_IDLE))
        /\ UNCHANGED <<epoch, hasPrev, ble, ret>>
    BY <1>5 DEF Return, TIMESLOT_SIGNAL_ACTION_NONE,
       TIMESLOT_SIGNAL_ACTION_EXTEND, TIMESLOT_SIGNAL_ACTION_END
  <2>2. QED
    BY <1>0, <2>1, ReturnEndIInv
<1>6. CASE /\ ValidReturn(a)
           /\ a.callback_action \notin {TIMESLOT_SIGNAL_ACTION_NONE,
                TIMESLOT_SIGNAL_ACTION_EXTEND, TIMESLOT_SIGNAL_ACTION_END}
  <2>1. /\ Accept(a.p_next) /\ SetSig(ctx, NO_SIGNAL)
        /\ UNCHANGED <<epoch, hasPrev, lpq, ble, ret>>
    BY <1>6 DEF Return
  <2>2. a.p_next \in Requests /\ ParamsValid(a.p_next)
    <3>1. NextRequestOk(a.p_next)
      BY <1>6 DEF ValidReturn
    <3>2. QED
      BY <1>1, <3>1 DEF NextRequestOk
  <2>3. QED
    BY <1>0, <2>1, <2>2, ReturnRequestIInv
<1>7. QED
  BY <1>2, <1>3, <1>4, <1>5, <1>6


-----------------------------------------------------------------------------
(* Low-priority processing and the BLE and crystal steps. *)
LEMMA LowPrioProcessIInv ==
  ASSUME IInv, LowPrioProcess
  PROVE  IInv'
<1>0. /\ lpq # <<>> /\ hp = NO_SIGNAL
      /\ lp' = IF session = "Closed" THEN NoEntry ELSE Head(lpq)
      /\ lpq' = Tail(lpq)
      /\ UNCHANGED <<session, epoch, req, hasPrev, left, slotLen, hp, ble,
                     hfxo, hfxoUsers, ret>>
  BY DEF LowPrioProcess
<1>1. lpq \in Seq(LpqType)
  BY DEF IInv, TypeOK, LpqType
<1>2. NoEntry \in LpType
  BY ConstFacts DEF NoEntry, LpType, NO_SIGNAL
<1>3. lp' \in LpType /\ lpq' \in Seq(LpqType)
  BY <1>0, <1>1, <1>2, HeadTailType
<1>4. TypeOK'
  BY <1>0, <1>3 DEF IInv, TypeOK, LpType, LpqType
<1>5. QED
  BY <1>0, <1>4 DEF IInv, RequestState, ClockMatchesUsers, RadioExclusive,
     XtalHeld, XtalReleased, SignalsMatchSlot

LEMMA BleScheduleIInv ==
  ASSUME IInv, BleSchedule
  PROVE  IInv'
<1>0. /\ ble' = "Scheduled" /\ SetClock(hfxoUsers \cup {"BLE"})
      /\ UNCHANGED <<session, epoch, req, hasPrev, left, slotLen, hp, lp, lpq, ret>>
  BY DEF BleSchedule
<1>1. /\ hfxoUsers' = hfxoUsers \cup {"BLE"}
      /\ hfxo' \in {"Off", "Starting", "On"}
      /\ hfxo' # "Off"
      /\ hfxo = "On" => hfxo' = "On"
  BY <1>0, SetClockFacts DEF IInv, TypeOK
<1>2. QED
  BY <1>0, <1>1 DEF IInv, TypeOK, RequestState, ClockMatchesUsers,
     RadioExclusive, XtalHeld, XtalReleased, SignalsMatchSlot

LEMMA BleStartIInv ==
  ASSUME IInv, BleStart
  PROVE  IInv'
<1>0. /\ ble' = "Active" /\ session # "Active"
      /\ UNCHANGED <<session, epoch, req, hasPrev, left, slotLen, hp, lp, lpq,
                     hfxo, hfxoUsers, ret>>
  BY DEF BleStart
<1>1. QED
  BY <1>0 DEF IInv, TypeOK, RequestState, ClockMatchesUsers,
     RadioExclusive, XtalHeld, XtalReleased, SignalsMatchSlot

(* BLE lets go of the crystal: a running XTAL_GUARANTEED timeslot still    *)
(* holds its own request, so the crystal keeps running.                    *)
LEMMA BleEndIInv ==
  ASSUME IInv, BleEnd
  PROVE  IInv'
<1>0. /\ ble' = "Idle" /\ SetClock(hfxoUsers \ {"BLE"})
      /\ UNCHANGED <<session, epoch, req, hasPrev, left, slotLen, hp, lp, lpq, ret>>
  BY DEF BleEnd
<1>1. /\ hfxoUsers' = hfxoUsers \ {"BLE"}
      /\ hfxo' \in {"Off", "Starting", "On"}
      /\ (hfxo' = "Off") <=> (hfxoUsers' = {})
      /\ hfxoUsers' # {} /\ hfxo = "On" => hfxo' = "On"
  BY <1>0, SetClockFacts DEF IInv, TypeOK
<1>2. XtalHeld'
  <2>1. SUFFICES ASSUME session' = "Active", NeedsXtal(req') PROVE hfxo' = "On"
    BY DEF XtalHeld
  <2>2. "TS" \in hfxoUsers /\ hfxo = "On"
    BY <1>0, <2>1 DEF IInv, XtalReleased, XtalHeld
  <2>3. QED
    BY <1>1, <2>2
<1>3. QED
  BY <1>0, <1>1, <1>2 DEF IInv, TypeOK, RequestState, ClockMatchesUsers,
     RadioExclusive, XtalReleased, SignalsMatchSlot

LEMMA HfxoStartedIInv ==
  ASSUME IInv, HfxoStarted
  PROVE  IInv'
<1>0. /\ hfxo = "Starting" /\ hfxo' = "On"
      /\ UNCHANGED <<session, epoch, req, hasPrev, left, slotLen, hp, lp, lpq,
                     ble, hfxoUsers, ret>>
  BY DEF HfxoStarted
<1>1. QED
  BY <1>0 DEF IInv, TypeOK, RequestState, ClockMatchesUsers,
     RadioExclusive, XtalHeld, XtalReleased, SignalsMatchSlot

-----------------------------------------------------------------------------
(* IInv is inductive: every step of Next, and every stuttering step, keeps *)
(* it.                                                                     *)
THEOREM IInvInductive == IInv /\ [Next]_vars => IInv'
<1> SUFFICES ASSUME IInv, [Next]_vars PROVE IInv'
  OBVIOUS
<1>1. CASE SessionOpen
  BY <1>1, SessionOpenIInv
<1>2. CASE SessionClose
  BY <1>2, SessionCloseIInv
<1>3. CASE \E r \in Requests : TimeslotRequest(r)
  BY <1>3, TimeslotRequestIInv
<1>4. CASE Start
  BY <1>4, StartIInv
<1>5. CASE Block
  BY <1>5, BlockIInv
<1>6. CASE Tick
  BY <1>6, TickIInv
<1>7. CASE Expire
  BY <1>7, ExpireIInv
<1>8. CASE \E s \in {TIMESLOT_SIGNAL_TIMER0, TIMESLOT_SIGNAL_RADIO} : SlotIrq(s)
  BY <1>8, SlotIrqIInv
<1>9. CASE \E ctx \in {"hp", "lp"}, a \in Returns : Return(ctx, a)
  BY <1>9, ReturnIInv
<1>10. CASE LowPrioProcess
  BY <1>10, LowPrioProcessIInv
<1>11. CASE BleSchedule
  BY <1>11, BleScheduleIInv
<1>12. CASE BleStart
  BY <1>12, BleStartIInv
<1>13. CASE BleEnd
  BY <1>13, BleEndIInv
<1>14. CASE HfxoStarted
  BY <1>14, HfxoStartedIInv
<1>15. CASE UNCHANGED vars
  BY <1>15 DEF vars, IInv, TypeOK, RequestState, ClockMatchesUsers,
     RadioExclusive, XtalHeld, XtalReleased, SignalsMatchSlot
<1>16. QED
  BY <1>1, <1>2, <1>3, <1>4, <1>5, <1>6, <1>7, <1>8, <1>9, <1>10, <1>11,
     <1>12, <1>13, <1>14, <1>15 DEF Next

(* The type invariant holds in every state of every behaviour. *)
THEOREM TypeCorrect == Spec => []TypeOK
<1>1. IInv => TypeOK
  BY DEF IInv
<1>2. QED
  BY InitIInv, IInvInductive, <1>1, PTL DEF Spec

(* No behaviour runs a timeslot and a BLE radio event together, whatever  *)
(* the order of opens, closes, requests, returns and BLE events.           *)
THEOREM RadioExclusiveHolds == Spec => []RadioExclusive
<1>1. IInv => RadioExclusive
  BY DEF IInv
<1>2. QED
  BY InitIInv, IInvInductive, <1>1, PTL DEF Spec

(* The inductive invariant holds in every state of every behaviour. *)
THEOREM IInvHolds == Spec => []IInv
BY InitIInv, IInvInductive, PTL DEF Spec

(* The timeslot's crystal request is held exactly while an XTAL_GUARANTEED *)
(* request is scheduled or running: every end, block, cancel, forced end  *)
(* and close releases it.                                                  *)
THEOREM XtalReleasedHolds == Spec => []XtalReleased
<1>1. IInv => XtalReleased
  BY DEF IInv
<1>2. QED
  BY IInvHolds, <1>1, PTL

(* Timeslot signals reach the priority-0 callback only inside a timeslot, *)
(* INVALID_RETURN only after the timeslot was ended.                      *)
THEOREM SignalsMatchSlotHolds == Spec => []SignalsMatchSlot
<1>1. IInv => SignalsMatchSlot
  BY DEF IInv
<1>2. QED
  BY InitIInv, IInvInductive, <1>1, PTL DEF Spec

=====
