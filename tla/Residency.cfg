SPECIFICATION ResidencySpec
CONSTANTS
  Keys = {1, 2}
  MaxRestarts = 1
  Configs <- MCConfigs
  MaxUpsets = 1
INVARIANTS
  WithinCeilings
  NoServerForgotten
  TableTellsTheTruth
PROPERTY DeadIsHandled
