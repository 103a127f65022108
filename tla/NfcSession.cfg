SPECIFICATION Spec
CONSTANTS
  Passwords = {Default, Erased, pw1}
  Default = Default
  Erased = Erased
  NFC_PWTIMEOUT = 4
  Period = 12
INVARIANTS TypeOK OnlyAfterPassword SessionLasts
PROPERTY OnlyInTime
