SPECIFICATION Spec
CONSTANTS
  Themes <- MCSealed
CHECK_DEADLOCK FALSE
INVARIANT CrashesAreReported
