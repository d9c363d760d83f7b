SPECIFICATION APISpec
CONSTANTS
  MAX_PASSWORD_LENGTH = 4
  Chars = {"a", "b"}
INVARIANTS
  EvaluateSaysEqual
