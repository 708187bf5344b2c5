------------------------- MODULE TimeslotRefinement -------------------------
(***************************************************************************)
(* Proof that Timeslot implements the safety part of TimeslotArbiter under *)
(* the mapping Owner, Kind: the initial state maps to the arbiter's, and  *)
(* every step, under IInv, maps to an arbiter step or leaves the mapped   *)
(* state alone.                                                            *)
(***************************************************************************)
EXTENDS TimeslotProofs

(* The mapped state does not change. *)
ArbStutter == UNCHANGED <<session, Owner, Kind, hasPrev>>

(* A step that leaves the session, the request, BLE and hasPrev alone is a *)
(* stutter of the arbiter.                                                 *)
LEMMA StutterFromUnchanged ==
  ASSUME UNCHANGED <<session, req, ble, hasPrev>>
  PROVE  ArbStutter
BY DEF ArbStutter, Owner, Kind, IsEarliest

(* Kind of a request of Requests. *)
LEMMA KindOf ==
  ASSUME NEW r \in Requests
  PROVE  /\ IsEarliest(r) => (IF r = NoRequest THEN "None"
                              ELSE IF IsEarliest(r) THEN "Earliest" ELSE "Normal")
                             = "Earliest"
         /\ ~IsEarliest(r) => (IF r = NoRequest THEN "None"
                               ELSE IF IsEarliest(r) THEN "Earliest" ELSE "Normal")
                              = "Normal"
BY ConstFacts

LEMMA InitRefines == Init => Arb!ArbInit
BY DEF Init, Arb!ArbInit, Owner, Kind

-----------------------------------------------------------------------------
(* The radio's owner, read through RadioExclusive. *)
LEMMA OwnerFacts ==
  ASSUME IInv
  PROVE  /\ session = "Active" => Owner = "App" /\ ble # "Active"
         /\ session # "Active" /\ ble = "Active" => Owner = "BLE"
         /\ session # "Active" /\ ble # "Active" => Owner = "None"
BY DEF IInv, RadioExclusive, Owner

(* The kind of the request a step schedules. *)
LEMMA KindFacts ==
  ASSUME NEW r \in Requests, req' = r
  PROVE  /\ IsEarliest(r) => Kind' = "Earliest"
         /\ ~IsEarliest(r) => Kind' = "Normal"
         /\ Kind' \in Arb!Kinds
BY ConstFacts DEF Kind, Arb!Kinds

LEMMA SessionOpenRefines ==
  ASSUME IInv, SessionOpen
  PROVE  Arb!Open \/ ArbStutter
<1>1. CASE session = "Closed" /\ epoch < MAX_OPENS
  <2>1. /\ session' = "Idle" /\ hasPrev' = FALSE
        /\ UNCHANGED <<req, ble>>
    BY <1>1 DEF SessionOpen
  <2>2. Owner' = Owner /\ Kind' = Kind
    BY <1>1, <2>1 DEF Owner, Kind, IsEarliest
  <2>3. QED
    BY <1>1, <2>1, <2>2 DEF Arb!Open
<1>2. CASE ~(session = "Closed" /\ epoch < MAX_OPENS)
  BY <1>2, StutterFromUnchanged DEF SessionOpen
<1>3. QED
  BY <1>1, <1>2

LEMMA SessionCloseRefines ==
  ASSUME IInv, SessionClose
  PROVE  Arb!Close \/ ArbStutter
<1>1. CASE session # "Closed"
  <2>1. /\ session' = "Closed" /\ req' = NoRequest
        /\ UNCHANGED <<hasPrev, ble>>
    BY <1>1 DEF SessionClose
  <2>2. Kind' = "None"
    BY <2>1 DEF Kind
  <2>3. Owner' = IF Owner = "App" THEN "None" ELSE Owner
    BY <2>1, OwnerFacts DEF Owner
  <2>4. QED
    BY <1>1, <2>1, <2>2, <2>3 DEF Arb!Close
<1>2. CASE session = "Closed"
  BY <1>2, StutterFromUnchanged DEF SessionClose
<1>3. QED
  BY <1>1, <1>2

(* timeslot_request returns 0 only for an earliest request or after a    *)
(* timeslot has started.                                                   *)
LEMMA RequestResultEarliest ==
  ASSUME NEW r, RequestResult(r) = 0
  PROVE  IsEarliest(r) \/ hasPrev
BY DEF RequestResult, NRF_EAGAIN, NRF_EINVAL

LEMMA TimeslotRequestRefines ==
  ASSUME IInv, NEW r \in Requests, TimeslotRequest(r)
  PROVE  (\E k \in Arb!Kinds : Arb!Submit(k)) \/ ArbStutter
<1>1. CASE RequestResult(r) = 0
  <2>1. /\ session' = "Pending" /\ req' = r
        /\ UNCHANGED <<hasPrev, ble>>
        /\ session = "Idle"
        /\ IsEarliest(r) \/ hasPrev
    BY <1>1, RequestResultFacts, RequestResultEarliest DEF TimeslotRequest, Accept
  <2>2. Owner' = Owner
    BY <2>1 DEF Owner
  <2>3. /\ Kind' \in Arb!Kinds
        /\ Kind' = "Earliest" \/ hasPrev
    BY <2>1, KindFacts
  <2>4. Arb!Submit(Kind')
    BY <2>1, <2>2, <2>3 DEF Arb!Submit
  <2>5. QED
    BY <2>3, <2>4
<1>2. CASE RequestResult(r) # 0
  BY <1>2, StutterFromUnchanged DEF TimeslotRequest
<1>3. QED
  BY <1>1, <1>2

LEMMA StartRefines ==
  ASSUME IInv, Start
  PROVE  Arb!Grant
<1>1. /\ session = "Pending" /\ ble # "Active"
      /\ session' = "Active" /\ hasPrev' = TRUE /\ UNCHANGED <<req, ble>>
  BY DEF Start
<1>2. Owner = "None" /\ Owner' = "App" /\ Kind' = Kind
  BY <1>1, OwnerFacts DEF Owner, Kind, IsEarliest
<1>3. QED
  BY <1>1, <1>2 DEF Arb!Grant

LEMMA BlockRefines ==
  ASSUME IInv, Block
  PROVE  Arb!Deny
<1>1. /\ session = "Pending" /\ session' = "Idle" /\ req' = NoRequest
      /\ UNCHANGED <<hasPrev, ble>>
  BY DEF Block
<1>2. Owner' = Owner /\ Kind' = "None"
  BY <1>1 DEF Owner, Kind
<1>3. QED
  BY <1>1, <1>2 DEF Arb!Deny

(* Every way a timeslot ends maps to Finish. *)
LEMMA EndRefines ==
  ASSUME IInv, session = "Active", EndSlot, UNCHANGED <<hasPrev, ble>>
  PROVE  Arb!Finish
<1>1. session' = "Idle" /\ req' = NoRequest
  BY DEF EndSlot
<1>2. Owner' = "None" /\ Kind' = "None"
  BY <1>1, OwnerFacts DEF Owner, Kind
<1>3. QED
  BY <1>1, <1>2 DEF Arb!Finish

LEMMA ExpireRefines ==
  ASSUME IInv, Expire
  PROVE  Arb!Finish
BY EndRefines DEF Expire


(* A callback's REQUEST: from inside a timeslot a normal request, which  *)
(* closes it; from an idle session an earliest one or one after a start.  *)
LEMMA ReturnRequestRefines ==
  ASSUME IInv, NEW r \in Requests, NextRequestOk(r), Accept(r),
         UNCHANGED <<hasPrev, ble>>
  PROVE  \E k \in Arb!Kinds : Arb!Submit(k)
<1>1. session' = "Pending" /\ req' = r
  BY DEF Accept
<1>2. Kind' \in Arb!Kinds
  BY <1>1, KindFacts
<1>3. CASE session = "Active"
  <2>1. ~IsEarliest(r)
    BY <1>3 DEF NextRequestOk
  <2>2. Kind' = "Normal"
    BY <1>1, <2>1, KindFacts
  <2>3. ble' # "Active"
    BY <1>3, OwnerFacts
  <2>4. Owner' = "None"
    BY <1>1, <2>3 DEF Owner
  <2>5. QED
    BY <1>1, <1>2, <1>3, <2>2, <2>4 DEF Arb!Submit
<1>4. CASE session # "Active"
  <2>1. session = "Idle" /\ (IsEarliest(r) \/ hasPrev)
    BY <1>4 DEF NextRequestOk
  <2>2. (Kind' = "Earliest" \/ hasPrev) /\ Owner' = Owner
    BY <1>1, <2>1, KindFacts DEF Owner
  <2>3. QED
    BY <1>1, <1>2, <2>1, <2>2 DEF Arb!Submit
<1>5. QED
  BY <1>3, <1>4

LEMMA ReturnRefines ==
  ASSUME IInv, NEW ctx \in {"hp", "lp"}, NEW a \in Returns, Return(ctx, a)
  PROVE  (\E k \in Arb!Kinds : Arb!Submit(k)) \/ Arb!Finish \/ ArbStutter
<1>0. a.p_next \in Requests \cup {NoRequest} /\ a.callback_action \in Nat
  BY ReturnsFacts
<1>1. CASE ~ValidReturn(a)
  <2>1. ReturnInvalid(ctx)
    BY <1>1 DEF Return
  <2>2. CASE session = "Active"
    BY <2>1, <2>2, EndRefines DEF ReturnInvalid
  <2>3. CASE session # "Active"
    BY <2>1, <2>3, StutterFromUnchanged DEF ReturnInvalid
  <2>4. QED
    BY <2>2, <2>3
<1>2. CASE ValidReturn(a) /\ a.callback_action = TIMESLOT_SIGNAL_ACTION_NONE
  <2>1. UNCHANGED <<session, req, ble, hasPrev>>
    BY <1>0, <1>2 DEF Return, TIMESLOT_SIGNAL_ACTION_NONE,
       TIMESLOT_SIGNAL_ACTION_EXTEND, TIMESLOT_SIGNAL_ACTION_END
  <2>2. QED
    BY <2>1, StutterFromUnchanged
<1>3. CASE ValidReturn(a) /\ a.callback_action = TIMESLOT_SIGNAL_ACTION_EXTEND
  <2>1. ReturnExtend(ctx, a.length_us)
    BY <1>0, <1>3 DEF Return, TIMESLOT_SIGNAL_ACTION_NONE,
       TIMESLOT_SIGNAL_ACTION_EXTEND, TIMESLOT_SIGNAL_ACTION_END
  <2>2. QED
    BY <2>1, StutterFromUnchanged DEF ReturnExtend
<1>4. CASE ValidReturn(a) /\ a.callback_action = TIMESLOT_SIGNAL_ACTION_END
  <2>1. EndSlot /\ UNCHANGED <<hasPrev, ble>>
    BY <1>4 DEF Return, TIMESLOT_SIGNAL_ACTION_NONE,
       TIMESLOT_SIGNAL_ACTION_EXTEND, TIMESLOT_SIGNAL_ACTION_END
  <2>2. session = "Active"
    BY <1>4 DEF ValidReturn, TIMESLOT_SIGNAL_ACTION_NONE,
       TIMESLOT_SIGNAL_ACTION_END, TIMESLOT_SIGNAL_ACTION_REQUEST
  <2>3. QED
    BY <2>1, <2>2, EndRefines
<1>5. CASE /\ ValidReturn(a)
           /\ a.callback_action \notin {TIMESLOT_SIGNAL_ACTION_NONE,
                TIMESLOT_SIGNAL_ACTION_EXTEND, TIMESLOT_SIGNAL_ACTION_END}
  <2>1. Accept(a.p_next) /\ UNCHANGED <<hasPrev, ble>>
    BY <1>5 DEF Return
  <2>2. NextRequestOk(a.p_next) /\ a.p_next \in Requests
    BY <1>0, <1>5 DEF ValidReturn, NextRequestOk
  <2>3. QED
    BY <2>1, <2>2, ReturnRequestRefines
<1>6. QED
  BY <1>1, <1>2, <1>3, <1>4, <1>5

LEMMA BleStartRefines ==
  ASSUME IInv, BleStart
  PROVE  Arb!BleTake
<1>1. /\ ble = "Scheduled" /\ ble' = "Active" /\ session # "Active"
      /\ UNCHANGED <<session, req, hasPrev>>
  BY DEF BleStart
<1>2. Owner = "None" /\ Owner' = "BLE" /\ Kind' = Kind
  BY <1>1 DEF Owner, Kind, IsEarliest
<1>3. QED
  BY <1>1, <1>2 DEF Arb!BleTake

LEMMA BleEndRefines ==
  ASSUME IInv, BleEnd
  PROVE  Arb!BleGive
<1>1. /\ ble = "Active" /\ ble' = "Idle"
      /\ UNCHANGED <<session, req, hasPrev>>
  BY DEF BleEnd
<1>2. session # "Active"
  BY <1>1 DEF IInv, RadioExclusive
<1>3. Owner = "BLE" /\ Owner' = "None" /\ Kind' = Kind
  BY <1>1, <1>2 DEF Owner, Kind, IsEarliest
<1>4. QED
  BY <1>1, <1>3 DEF Arb!BleGive

(* Every step of Timeslot, under IInv, is a step of the arbiter or leaves *)
(* the mapped state alone.                                                 *)
LEMMA StepRefines ==
  ASSUME IInv, [Next]_vars
  PROVE  [Arb!ArbNext]_Arb!avars
<1>1. ArbStutter => UNCHANGED Arb!avars
  BY DEF ArbStutter, Arb!avars
<1>2. CASE SessionOpen
  BY <1>1, <1>2, SessionOpenRefines DEF Arb!ArbNext
<1>3. CASE SessionClose
  BY <1>1, <1>3, SessionCloseRefines DEF Arb!ArbNext
<1>4. CASE \E r \in Requests : TimeslotRequest(r)
  BY <1>1, <1>4, TimeslotRequestRefines DEF Arb!ArbNext
<1>5. CASE Start
  BY <1>5, StartRefines DEF Arb!ArbNext
<1>6. CASE Block
  BY <1>6, BlockRefines DEF Arb!ArbNext
<1>7. CASE Expire
  BY <1>7, ExpireRefines DEF Arb!ArbNext
<1>8. CASE \E ctx \in {"hp", "lp"}, a \in Returns : Return(ctx, a)
  BY <1>1, <1>8, ReturnRefines DEF Arb!ArbNext
<1>9. CASE BleStart
  BY <1>9, BleStartRefines DEF Arb!ArbNext
<1>10. CASE BleEnd
  BY <1>10, BleEndRefines DEF Arb!ArbNext
<1>11. CASE \/ Tick \/ LowPrioProcess \/ HfxoStarted
            \/ \E s \in {TIMESLOT_SIGNAL_TIMER0, TIMESLOT_SIGNAL_RADIO} : SlotIrq(s)
  <2>1. UNCHANGED <<session, req, ble, hasPrev>>
    BY <1>11 DEF Tick, LowPrioProcess, HfxoStarted, SlotIrq
  <2>2. QED
    BY <1>1, <2>1, StutterFromUnchanged
<1>12. CASE BleSchedule
  <2>1. /\ UNCHANGED <<session, req, hasPrev>>
        /\ ble = "Idle" /\ ble' = "Scheduled"
    BY <1>12 DEF BleSchedule
  <2>2. ArbStutter
    BY <2>1 DEF ArbStutter, Owner, Kind, IsEarliest
  <2>3. QED
    BY <1>1, <2>2
<1>13. CASE UNCHANGED vars
  <2>1. UNCHANGED <<session, req, ble, hasPrev>>
    BY <1>13 DEF vars
  <2>2. QED
    BY <1>1, <2>1, StutterFromUnchanged
<1>14. QED
  BY <1>2, <1>3, <1>4, <1>5, <1>6, <1>7, <1>8, <1>9, <1>10, <1>11, <1>13,
     <1>12 DEF Next

(* Timeslot implements the safety part of the arbiter: the session moves  *)
(* only along the transitions of spec section 4.3, a request is earliest  *)
(* first, no earliest request is made from inside a timeslot, and the     *)
(* radio passes between the session and BLE only through a free radio.    *)
THEOREM ArbiterRefinement == Spec => ArbiterSafety
<1>1. IInv /\ [Next]_vars => [Arb!ArbNext]_Arb!avars
  BY StepRefines
<1>2. QED
  BY InitIInv, IInvInductive, InitRefines, <1>1, PTL
     DEF Spec, ArbiterSafety, Arb!ArbSafe

-----------------------------------------------------------------------------
(* The arbiter's proved invariant, read through the same mapping. *)
ArbP == INSTANCE TimeslotArbiterProofs
          WITH state <- session, owner <- Owner, kind <- Kind, started <- hasPrev

(* A property of the abstract interface carries over: in every behaviour  *)
(* of Timeslot the first request of each session is earliest, whether it  *)
(* is made by timeslot_request or returned by a callback as REQUEST.      *)
THEOREM FirstRequestEarliestHolds == Spec => []FirstRequestEarliest
<1>1. [Arb!ArbNext]_Arb!avars => [ArbP!ArbNext]_ArbP!avars
  BY DEF Arb!ArbNext, ArbP!ArbNext, Arb!avars, ArbP!avars, Arb!Open, ArbP!Open,
     Arb!Close, ArbP!Close, Arb!Submit, ArbP!Submit, Arb!Kinds, ArbP!Kinds,
     Arb!Grant, ArbP!Grant, Arb!Deny, ArbP!Deny, Arb!Finish, ArbP!Finish,
     Arb!BleTake, ArbP!BleTake, Arb!BleGive, ArbP!BleGive
<1>2. Spec => ArbP!ArbSafe
  <2>1. Init => ArbP!ArbInit
    BY InitRefines DEF Arb!ArbInit, ArbP!ArbInit
  <2>2. IInv /\ [Next]_vars => [ArbP!ArbNext]_ArbP!avars
    BY StepRefines, <1>1
  <2>3. QED
    BY <2>1, <2>2, InitIInv, IInvInductive, PTL DEF Spec, ArbP!ArbSafe
<1>3. ArbP!ArbInv => FirstRequestEarliest
  BY DEF ArbP!ArbInv, ArbP!FirstEarliest, FirstRequestEarliest,
     Arb!FirstEarliest
<1>4. QED
  BY <1>2, <1>3, ArbP!ArbInvariant, PTL
=============================================================================
