CONSTANTS
    Server = {s1, s2, s3, s4}
    None = None
    MaxTerm = 2
    MaxRounds = 3
SPECIFICATION Spec
SYMMETRY Symmetry
CHECK_DEADLOCK FALSE
INVARIANTS
    FreshLeadersAgree
    CampaignersOwnTheirTerm
PROPERTIES
    VotesAreFinal
    ImplementsElection
