SPECIFICATION Spec
CONSTANTS
  Handlers = {h1, h2}
  Refs = {r1}
  GoodRefs = {r1}
  SampleRefs = {}
  BilledRefs = {r1}
  Orders <- SomeOrders
INVARIANT PaygateErrorsAreDocumented
