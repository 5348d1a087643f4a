SPECIFICATION Spec
CONSTANTS
    None = None
    MaxRuns = 2
    MaxMisses = 2
INVARIANTS TypeOK UpdaterKept NewBinaryKept RecordedFirst TerminatedEarly
PROPERTY SwapsBinary
