SPECIFICATION Spec
CONSTANTS
  Durations = {0, 1, 2, 3}
  QueryLength = 7
  SpacedLength = 4
  NameLength = 5
  PatternLength = 7
INVARIANTS SplitsLikePostgres NamesKeepTheirMeaning
INVARIANTS KeysLeadBack AdmittedKeepsPolling WarnsIfNothingGained ConfigFromOnePlace
CHECK_DEADLOCK FALSE
