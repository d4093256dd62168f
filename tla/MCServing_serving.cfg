\* Two requests on a backend limited to one, tried twice at most.
SPECIFICATION FairServing
CONSTANTS
  Requests = {r1, r2}
  QPS = 1
  Lengths <- LengthsDef
  Limits = {0, 1}
  MaxTries = 2
INVARIANTS TypeOK Counted RefusedMeansBusy ServingTypeOK LargeBodiesStay
PROPERTIES IsLimiter IsOneAnswer AnsweredInTime
