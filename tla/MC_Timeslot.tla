---------------------------- MODULE MC_Timeslot ----------------------------
(* A small instance of Timeslot for TLC: times in units of one tick, two   *)
(* valid requests (an earliest one on the crystal, a normal one without    *)
(* clock guarantee) and two whose length is out of range, the second a     *)
(* normal request filled in through the earliest member of the union.      *)
EXTENDS Timeslot

MC_Requests ==
  { [request_type |-> TIMESLOT_REQ_TYPE_EARLIEST,
     hfclk |-> TIMESLOT_HFCLK_CFG_XTAL_GUARANTEED,
     priority |-> TIMESLOT_PRIORITY_HIGH, params |-> <<2, 1>>],
    [request_type |-> TIMESLOT_REQ_TYPE_NORMAL,
     hfclk |-> TIMESLOT_HFCLK_CFG_NO_GUARANTEE,
     priority |-> TIMESLOT_PRIORITY_NORMAL, params |-> <<1, 3>>],
    [request_type |-> TIMESLOT_REQ_TYPE_EARLIEST,
     hfclk |-> TIMESLOT_HFCLK_CFG_NO_GUARANTEE,
     priority |-> TIMESLOT_PRIORITY_NORMAL, params |-> <<1, 1>>],
    [request_type |-> TIMESLOT_REQ_TYPE_NORMAL,
     hfclk |-> TIMESLOT_HFCLK_CFG_XTAL_GUARANTEED,
     priority |-> TIMESLOT_PRIORITY_HIGH, params |-> <<2, 1>>] }
=============================================================================
