CONSTANT data_width = 3
SPECIFICATION Spec
INVARIANTS TypeOK IndexInRange UnusedBitsAreZero
PROPERTIES WriteIsAPulse ImplementsPackager
