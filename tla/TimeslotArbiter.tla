--------------------------- MODULE TimeslotArbiter ---------------------------
(***************************************************************************)
(* What the timeslot interface promises, without contexts, signals, time  *)
(* or crystal: one session walks Closed -> Idle -> Pending -> Active and  *)
(* back, requests are earliest first and never earliest from inside a     *)
(* timeslot, and the radio belongs to at most one of the session and the  *)
(* controller's own BLE activity.                                          *)
(***************************************************************************)

VARIABLES
  state,    \* the session: "Closed", "Idle", "Pending" or "Active"
  owner,    \* who holds RADIO and TIMER0: "None", "App" or "BLE"
  kind,     \* the scheduled or running request: "None", "Earliest", "Normal"
  started   \* a timeslot has started in this session

avars == <<state, owner, kind, started>>

Kinds == {"Earliest", "Normal"}

ArbTypeOK ==
  /\ state \in {"Closed", "Idle", "Pending", "Active"}
  /\ owner \in {"None", "App", "BLE"}
  /\ kind \in Kinds \cup {"None"}
  /\ started \in BOOLEAN

ArbInit ==
  state = "Closed" /\ owner = "None" /\ kind = "None" /\ started = FALSE

(* timeslot_session_open. *)
Open ==
  /\ state = "Closed"
  /\ state' = "Idle" /\ started' = FALSE
  /\ UNCHANGED <<owner, kind>>

(* timeslot_session_close: a running timeslot is finished, a scheduled one *)
(* cancelled.                                                              *)
Close ==
  /\ state # "Closed"
  /\ state' = "Closed" /\ kind' = "None"
  /\ owner' = IF owner = "App" THEN "None" ELSE owner
  /\ UNCHANGED started

(* A request is accepted from an idle session (timeslot_request or a       *)
(* callback's REQUEST), the first one of a session being earliest; from  *)
(* inside a timeslot only a normal one, which closes the timeslot.        *)
Submit(k) ==
  \/ /\ state = "Idle" /\ (k = "Earliest" \/ started)
     /\ state' = "Pending" /\ kind' = k
     /\ UNCHANGED <<owner, started>>
  \/ /\ state = "Active" /\ k = "Normal"
     /\ state' = "Pending" /\ kind' = k /\ owner' = "None"
     /\ UNCHANGED started

(* The scheduled request gets the radio (TIMESLOT_SIGNAL_START). *)
Grant ==
  /\ state = "Pending" /\ owner = "None"
  /\ state' = "Active" /\ owner' = "App" /\ started' = TRUE
  /\ UNCHANGED kind

(* The scheduled request is given up (TIMESLOT_SIGNAL_BLOCKED). *)
Deny ==
  /\ state = "Pending"
  /\ state' = "Idle" /\ kind' = "None"
  /\ UNCHANGED <<owner, started>>

(* The timeslot ends: by ACTION_END, by expiry or by an invalid return. *)
Finish ==
  /\ state = "Active"
  /\ state' = "Idle" /\ kind' = "None" /\ owner' = "None"
  /\ UNCHANGED started

(* The controller's own radio activity takes and gives back the radio. *)
BleTake ==
  /\ owner = "None" /\ state # "Active"
  /\ owner' = "BLE"
  /\ UNCHANGED <<state, kind, started>>

BleGive ==
  /\ owner = "BLE"
  /\ owner' = "None"
  /\ UNCHANGED <<state, kind, started>>

ArbNext ==
  \/ Open \/ Close \/ \E k \in Kinds : Submit(k)
  \/ Grant \/ Deny \/ Finish \/ BleTake \/ BleGive

ArbSafe == ArbInit /\ [][ArbNext]_avars

(* A scheduled request is not left waiting: it is granted or given up. *)
ArbSpec == ArbSafe /\ WF_avars(Grant \/ Deny)

-----------------------------------------------------------------------------
(* The radio belongs to the application exactly while its timeslot runs:  *)
(* "When a timeslot is granted, the application has exclusive access"     *)
(* (timeslot.h), and BLE can hold it only outside a timeslot.             *)
ArbExclusive == (owner = "App") <=> (state = "Active")

(* "The first request in a session must always be of type EARLIEST"       *)
(* (timeslot.h): a normal request is only ever scheduled or running in a  *)
(* session in which a timeslot has already started.                        *)
FirstEarliest == kind = "Normal" => started

(* The inductive form: a running timeslot has started, and a request is   *)
(* held exactly while the session is Pending or Active.                    *)
ArbInv ==
  /\ ArbTypeOK
  /\ ArbExclusive
  /\ FirstEarliest
  /\ state = "Active" => started
  /\ (kind = "None") <=> (state \in {"Closed", "Idle"})
=============================================================================
