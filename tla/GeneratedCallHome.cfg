SPECIFICATION Spec
CONSTANTS
    Forms = {"build_call"}
    HomeUses <- Everything
INVARIANT PreservesBoth
