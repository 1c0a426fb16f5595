CONSTANT Length = 1
SPECIFICATION Spec
INVARIANT RedirectedToFile
