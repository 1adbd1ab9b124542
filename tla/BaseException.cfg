SPECIFICATION ExceptionSpec
CONSTANTS
  ExceptionRules = {soft, hard}
  Blocking = {hard}
  Workers = {w1, w2}
  Unset = Unset
INVARIANTS CacheFollowsRules
PROPERTIES StoredIsCurrent
