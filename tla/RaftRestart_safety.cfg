CONSTANTS
    Server = {s1, s2, s3}
    None = None
    MaxTerm = 2
    MaxRounds = 2
    MaxRestarted = 1
SPECIFICATION RestartSpec
SYMMETRY Symmetry
CHECK_DEADLOCK FALSE
INVARIANTS
    SteadyVotersRemember
    DoubleWinnersShareAForgetter
