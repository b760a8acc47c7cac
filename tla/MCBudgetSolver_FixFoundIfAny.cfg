SPECIFICATION Spec
CONSTANT Problems <- MCProblems
INVARIANT FixFoundIfAny
CHECK_DEADLOCK FALSE
