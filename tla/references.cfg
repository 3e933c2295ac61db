SPECIFICATION Spec
CONSTANTS
  Refs = {r1, odd, foreign}
  OurRefs = {r1, odd}
  ParseableRefs = {r1, foreign}
  Amounts = {1, 2}
  Handlers = {h1, h2}
  UpstreamConfigured = FALSE
  RecordedAlarms = {"upstream_differs", "awaiting_capture", "upstream_not_ok", "webhook_not_ok", "amount_changed", "created_pending", "no_debitor", "wrong_prefix"}
  Disturbances = {"failure", "duplicate", "crash", "reopen"}
  Unlimited = {}
  MaxDisturbances = 1
  Overlap = TRUE
CHECK_DEADLOCK FALSE
SYMMETRY HandlerSymmetry
INVARIANT ConfirmedIsBooked
