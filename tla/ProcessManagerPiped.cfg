CONSTANT N = 2
SPECIFICATION FairSpec
INVARIANT NoDuplicateOutput
