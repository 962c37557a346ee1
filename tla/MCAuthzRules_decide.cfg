SPECIFICATION Spec
CONSTANTS
    N = 3
    Matches <- Nested
    Requests <- Asked
    MaxOverrides = 2
INVARIANTS TypeOK RingIsACycle AdmittedNeverStuck OnlyRefutedAreSkipped MatchIsUndisputed RelationIsSound Inv
CHECK_DEADLOCK FALSE
