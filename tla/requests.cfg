SPECIFICATION Spec
CONSTANTS
  Handlers = {h1, h2}
  Refs = {r1, r2, r3}
  GoodRefs = {r1, r2}
  SampleRefs = {r2}
  BilledRefs = {r1}
  Orders <- SomeOrders
INVARIANTS
  TypeOK
  SessionsAddUp
  PaidMeansConfirmed
  
