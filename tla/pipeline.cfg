\* Pages of up to two quads; chains with and without a last controller that answers 404.
\* A request that is answered does nothing more.
SPECIFICATION FairSpec
CONSTANTS
  NumQuads = 2
  Chains <- SomeChains
  Methods = {"GET", "HEAD", "PUT"}
  Formats = {"html", "turtle", "jsonld", "none"}
CHECK_DEADLOCK FALSE
INVARIANTS
  TypeOK
  CompleteFragment
  FailureIsVisible
  TextErrorsAreShown
PROPERTIES
  EveryRequestEnds
