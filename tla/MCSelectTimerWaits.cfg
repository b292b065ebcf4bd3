\* The three minutes a call of select is said to wait.
SPECIFICATION Spec
INVARIANT
    WaitsThreeMinutes
