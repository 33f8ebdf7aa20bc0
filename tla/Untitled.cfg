SPECIFICATION Spec
CONSTANTS
    Named = {song}
    Untitled = Untitled
    None = None
    Torn = Torn
    Generation = {g1, g2, g3}
    Gutted = Gutted
    Husk = Husk
INVARIANTS UntitledSurvives BootRestores AlwaysBoots
PROPERTIES PurgeIsFinal
SYMMETRY Interchangeable
