SPECIFICATION Spec
CONSTANTS
    None = None
    Text = Text
    Raised = Raised
    Texts <- MCTexts
    MaxRows = 3
INVARIANTS
    ParsedAsMeant
    SelectMeans
PROPERTIES
    IndexTransparent
    ChangesAsMeant
    UniqueKept
