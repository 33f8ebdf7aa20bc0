SPECIFICATION Spec
CONSTANTS
    Generation = {g1, g2, g3, g4}
    None = None
    Invalid = Invalid
INVARIANTS CommittedGenerationSurvives ReportedSaveIsInstalled
PROPERTIES BackupOutlivesDoubt OpenSettles
