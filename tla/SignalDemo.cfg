CONSTANT MaxInterrupts = 3
SPECIFICATION FairSpec
INVARIANTS BlockedInterruptDelivered NoZombieMissed AlarmGoesOff SomethingToWaitFor
PROPERTY EndsUnlessChildInterrupted
