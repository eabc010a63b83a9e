SPECIFICATION Spec
CONSTANT MaxTerms = 2
INVARIANTS TypeOK ListCoversMounts ClosedAtEnd SuccessIsComplete FstabAfterCopy
CHECK_DEADLOCK FALSE
