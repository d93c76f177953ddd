SPECIFICATION Spec
CHECK_DEADLOCK FALSE
CONSTANT Clients <- Careful
INVARIANTS TypeOK FoldSound FoldStable
