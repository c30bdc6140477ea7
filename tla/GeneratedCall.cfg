SPECIFICATION Spec
CONSTANTS
    Forms = {"build_call", "push_preserved_call"}
    HomeUses <- BuildCallLeaf
INVARIANTS
    TypeOK
    StateRestored
    CallIsAligned
    DecisionSurvives
