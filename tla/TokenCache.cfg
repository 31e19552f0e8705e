SPECIFICATION TokenCacheSpec
CONSTANTS
  Keys = {k1}
  Resources = {x1, x2}
  Exps = {0, 2, 4, 7}
  Window = 2
  LongLived = 20
  MaxTime = 6
INVARIANT ReadableTokensFresh
PROPERTY ImplementsTokenStore
CHECK_DEADLOCK FALSE
