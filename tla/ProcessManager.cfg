CONSTANT N = 3
SPECIFICATION FairSpec
INVARIANTS EachChildWaitedFor OutputComplete
PROPERTY AllEnd
