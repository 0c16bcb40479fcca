\* Two handlers at work on repeated events of one booking, and a restart.
CONSTANTS
  None = None
  Kinds = {"BOOKING_CREATED", "PAYMENT_CAPTURED"}
  Channels = {"EMAIL", "PUSH"}
  Members = {m1}
  Handlers = {h1, h2}
  MaxEmitted = 2
  Screens = {}
  ClientIds = {}
  Page = 1
  Sends = {}
  MaxCrashes = 1
SPECIFICATION ChatSpec
SYMMETRY McSymmetry
INVARIANTS
  SentAsLogged
