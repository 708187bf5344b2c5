------------------------- MODULE MC_BleController --------------------------
(* A small instance of BleController: the timeslot instance of             *)
(* MC_Timeslot, the default and three other clock configurations (one      *)
(* valid, two invalid), and cfg_set calls of every kind on the default tag.*)
EXTENDS BleController

MC_Requests ==
  { [request_type |-> TIMESLOT_REQ_TYPE_EARLIEST,
     hfclk |-> TIMESLOT_HFCLK_CFG_XTAL_GUARANTEED,
     priority |-> TIMESLOT_PRIORITY_HIGH, params |-> <<2, 1>>],
    [request_type |-> TIMESLOT_REQ_TYPE_NORMAL,
     hfclk |-> TIMESLOT_HFCLK_CFG_NO_GUARANTEE,
     priority |-> TIMESLOT_PRIORITY_NORMAL, params |-> <<1, 3>>] }

MC_ClkCfgInputs ==
  { [lf_clk_source |-> 1, rc_ctiv |-> 0, rc_temp_ctiv |-> 0, accuracy |-> 7],
    [lf_clk_source |-> 1, rc_ctiv |-> 16, rc_temp_ctiv |-> 2, accuracy |-> 0],
    [lf_clk_source |-> 0, rc_ctiv |-> 16, rc_temp_ctiv |-> 34, accuracy |-> 0] }

MC_CfgInputs ==
  { [tag |-> 0, type |-> 1, cfg |-> 2],
    [tag |-> 0, type |-> 3,
     cfg |-> [tx_packet_size |-> 251, rx_packet_size |-> 251,
              tx_packet_count |-> 3, rx_packet_count |-> 3]],
    [tag |-> 0, type |-> 3,
     cfg |-> [tx_packet_size |-> 26, rx_packet_size |-> 27,
              tx_packet_count |-> 3, rx_packet_count |-> 3]],
    [tag |-> 0, type |-> 4, cfg |-> 3750],
    [tag |-> 0, type |-> 0, cfg |-> 0],
    [tag |-> 0, type |-> 5, cfg |-> 0] }

(* A stand-in for the library's sizing: grows with the number of links. *)
MC_MemRequired(c) == 100 * (c.master_count + c.slave_count)
=============================================================================
