SPECIFICATION Spec
CONSTANTS
  MAX_PASSWORD_LENGTH = 5
  Chars = {"0", "7", "-"}
  Keys = {"0", "7", "-", "NUL"}
  Weights = {1, 5}
  InitialPassword <- MCInitialPassword
  InitialTarget = 2
  IntMax = 8
  Mantissa = 2
  MaxTyped = 5
INVARIANTS
  TypeOK
  NoLockout
  BufferInv
PROPERTIES
  ImplementsKeypadSpec
  OnlyTheSecretOpens
