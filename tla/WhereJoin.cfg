SPECIFICATION Spec
CONSTANTS
    None = None
    Text = Text
    Raised = Raised
    Texts <- MCTexts
    MaxRows = 2
INVARIANT JoinBeforeWhere
