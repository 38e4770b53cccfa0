\* A client that asks for HTML.
SPECIFICATION Spec
CONSTANTS
  NumQuads = 1
  Chains <- SomeChains
  Methods = {"GET"}
  Formats = {"html"}
CHECK_DEADLOCK FALSE
INVARIANTS
  ErrorsAreShown
