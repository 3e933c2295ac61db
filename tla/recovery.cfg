SPECIFICATION FairSpec
CONSTANTS
  Refs = {r1}
  OurRefs = {r1}
  ParseableRefs = {r1}
  Amounts = {1, 2}
  Handlers = {h1, h2}
  UpstreamConfigured = TRUE
  RecordedAlarms = {"upstream_differs", "awaiting_capture", "upstream_not_ok", "webhook_not_ok", "amount_changed", "created_pending", "no_debitor", "wrong_prefix", "check_differs"}
  Disturbances = {"failure", "late", "crash", "duplicate"}
  Unlimited = {}
  MaxDisturbances = 1
  Overlap = TRUE
CHECK_DEADLOCK FALSE
PROPERTIES ReportedIsBooked PaidIsSettled ImplementsBooking
INVARIANT Inv
