SPECIFICATION Spec
CONSTANTS
  Refs = {r1}
  OurRefs = {r1}
  ParseableRefs = {r1}
  Amounts = {1, 2}
  Handlers = {h1, h2}
  UpstreamConfigured = TRUE
  RecordedAlarms = {"upstream_differs", "awaiting_capture", "upstream_not_ok", "webhook_not_ok", "amount_changed", "created_pending", "no_debitor", "wrong_prefix"}
  Disturbances = {"omission", "failure", "duplicate", "crash", "reopen", "admin"}
  Unlimited = {}
  MaxDisturbances = 2
  Overlap = TRUE
CHECK_DEADLOCK FALSE
SYMMETRY HandlerSymmetry
INVARIANTS TypeOK ValidMeansPaid ConfirmedIsBooked PendingIsReported Inv
