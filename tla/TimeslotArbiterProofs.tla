------------------------ MODULE TimeslotArbiterProofs ------------------------
(***************************************************************************)
(* Proof that the abstract arbiter keeps ArbInv: the radio is the         *)
(* application's exactly while its timeslot runs, and a normal request    *)
(* exists only in a session whose first timeslot has started.  Timeslot   *)
(* inherits both through the refinement (TimeslotRefinement).            *)
(***************************************************************************)
EXTENDS TimeslotArbiter, TLAPS

LEMMA ArbInitInv == ArbInit => ArbInv
BY DEF ArbInit, ArbInv, ArbTypeOK, ArbExclusive, FirstEarliest

(* Each arbiter step keeps ArbInv; a step per action. *)
THEOREM ArbInvInductive == ArbInv /\ [ArbNext]_avars => ArbInv'
<1> SUFFICES ASSUME ArbInv, [ArbNext]_avars PROVE ArbInv'
  OBVIOUS
<1> USE DEF ArbInv, ArbTypeOK, ArbExclusive, FirstEarliest
<1>1. CASE Open
  BY <1>1 DEF Open
<1>2. CASE Close
  BY <1>2 DEF Close
<1>3. CASE \E k \in Kinds : Submit(k)
  <2>1. PICK k \in Kinds : Submit(k)
    BY <1>3
  <2>2. CASE state = "Idle" /\ (k = "Earliest" \/ started)
            /\ state' = "Pending" /\ kind' = k /\ UNCHANGED <<owner, started>>
    BY <2>1, <2>2 DEF Kinds
  <2>3. CASE state = "Active" /\ k = "Normal"
             /\ state' = "Pending" /\ kind' = k /\ owner' = "None"
             /\ UNCHANGED started
    BY <2>3
  <2>4. QED
    BY <2>1, <2>2, <2>3 DEF Submit
<1>4. CASE Grant
  BY <1>4 DEF Grant
<1>5. CASE Deny
  BY <1>5 DEF Deny
<1>6. CASE Finish
  BY <1>6 DEF Finish
<1>7. CASE BleTake
  BY <1>7 DEF BleTake
<1>8. CASE BleGive
  BY <1>8 DEF BleGive
<1>9. CASE UNCHANGED avars
  BY <1>9 DEF avars
<1>10. QED
  BY <1>1, <1>2, <1>3, <1>4, <1>5, <1>6, <1>7, <1>8, <1>9 DEF ArbNext

(* Every behaviour of the arbiter keeps the radio with the application    *)
(* exactly while its timeslot runs and schedules a normal request only    *)
(* after the session's first timeslot has started.                        *)
THEOREM ArbInvariant == ArbSafe => []ArbInv
BY ArbInitInv, ArbInvInductive, PTL DEF ArbSafe
=============================================================================
