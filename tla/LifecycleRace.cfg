\* A stop that overlaps the next start.
CONSTANTS
    Callers = {c1, c2}
    MaxListeners = 2
SPECIFICATION Spec
INVARIANT RunningWhileHeld
