SPECIFICATION Spec
CONSTANTS
  Themes <- MCThemes
CHECK_DEADLOCK FALSE
INVARIANTS HonestIsVerified HiddenIsFound DamageIsNamed FalseStatementIsFound BlindIsNotCharged OnlyCrashesAreCharged TimesAreTrue SeriesIsUnbroken
