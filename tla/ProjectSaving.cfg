SPECIFICATION Spec
CONSTANTS
    Untitled = Untitled
    Named = {a}
    Content = {Blank, c}
    Blank = Blank
    None = None
    MaxRevision = 2
INVARIANTS CleanMeansSaved CheckpointedMeansStored RenameIsTracked BusyOnlyWhileQueued
PROPERTIES QueuedSaveSettles FailedNewKeepsProject AutosaveStaysHome OverwriteWasAsked
VIEW View
