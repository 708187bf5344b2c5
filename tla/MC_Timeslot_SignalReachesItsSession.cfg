CONSTANTS
  TIMESLOT_LENGTH_MIN_US = 2
  TIMESLOT_LENGTH_MAX_US = 3
  TIMESLOT_DISTANCE_MAX_US = 2
  TIMESLOT_EARLIEST_TIMEOUT_MAX_US = 2
  TIMESLOT_EXTENSION_TIME_MIN_US = 2
  TIMESLOT_EXTENSION_MARGIN_MIN_US = 1
  Requests <- MC_Requests
  ExtLengths = {1, 2}
  BadActions = {4}
  NoRequest = NoRequest
  MAX_OPENS = 2
  MAX_SLOT_US = 4
  LPQ_MAX = 2

SPECIFICATION Spec
INVARIANT SignalReachesItsSession
