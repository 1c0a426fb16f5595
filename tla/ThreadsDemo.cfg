CONSTANTS
  Iterations = 3
  Items = 4
  N = 2
SPECIFICATION DemoSpec
INVARIANTS FinalCounter Transcript NoLostWakeup SimpleResults TlsIsolation DestructorsBeforeDelete
PROPERTIES ImplementsAtomicCounter MainEnds
