SPECIFICATION MarkerSpec
CONSTANTS
    Named = {songA, songB}
    Untitled = Untitled
    None = None
    Torn = Torn
INVARIANTS PointerSurvives SavedIsCurrent BootHonoursMarkers
PROPERTIES RetainedBeforeReplaced
