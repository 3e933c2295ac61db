SPECIFICATION FairCheckoutSpec
CONSTANTS
  Refs = {r1, odd, foreign}
  OurRefs = {r1, odd}
  ParseableRefs = {r1, foreign}
  Amounts = {1}
  Handlers = {h1}
  UpstreamConfigured = TRUE
  RecordedAlarms = {"upstream_differs", "awaiting_capture", "upstream_not_ok", "webhook_not_ok", "amount_changed", "created_pending", "no_debitor", "check_differs", "wrong_prefix"}
  Disturbances = {"omission", "duplicate", "crash", "reopen"}
  Unlimited = {"failure"}
  MaxDisturbances = 1
  Overlap = FALSE
  Secrets = {s1, s2}
  Configurations <- SomeConfigurations
  MaxPaylinks = 2
  MaxBilled = 1
CHECK_DEADLOCK FALSE
INVARIANT CheckoutTypeOK
PROPERTIES FinalIsNotTouched ImplementsBooking PaidIsNoticed
