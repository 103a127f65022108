CONSTANTS
  MaxWord = 3
  Payload = 2
  Configs <- SmallConfigs
  Defaults <- OneWord
  Passwords = {1, 3}
  DefaultPassword = 2
  None = None
  CRC <- DigitSum
SPECIFICATION Spec
INVARIANTS TypeOK LoadsWhatWasSaved PasswordWasSet PasswordChangedAsTold ChangesAreSaved
