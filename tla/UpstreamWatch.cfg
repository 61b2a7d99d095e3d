CONSTANTS
  LastRelease = 3
  FirstReleases = 2
  MinReleases = 2
  Tries = 2
  Fates <- MCFates
  Pretends = {1}
  MaxActs = 2
SPECIFICATION Spec
INVARIANTS
  NothingNewIsTrue
  ReportIsOnFile
  OneOpenIssue
  LostNoticeIsLoud
PROPERTIES
  DryRunFilesNothing
  NewReleaseIsFiled
