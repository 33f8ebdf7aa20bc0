SPECIFICATION Spec
CONSTANTS
  None = None
  Gutted = Gutted
  Husk = Husk
  Generation = {old, new}
  Target = {song, demo}
INVARIANTS TargetSurvives OnlyCommittedProjectsAppear BootSettles
PROPERTY RecoveryTerminates
