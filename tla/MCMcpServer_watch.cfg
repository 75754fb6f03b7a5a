SPECIFICATION Spec
CONSTANTS
  a = a
  b = b
  connect = connect
  watch = watch
  close = close
  Session = {a, b}
  Connect = {connect}
  Watch = {watch}
  Close = {close}
  Held = {b}
  SessionOf <- SessionOfCall
  Resumes <- ResumeB
  FilterOf <- Release
  Waits = {watch}
  BufCap = 1
  PipeCap = 1
  BusCap = 1
  Happening <- SomeEvents
  MaxEvents = 2
  NoSession = NoSession
  None = None
  Parked = Parked
CHECK_DEADLOCK FALSE
INVARIANTS
    NoStrayStream
    WaiterIsReachable
    WakeupIsSound
