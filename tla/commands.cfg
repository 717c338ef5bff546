SPECIFICATION Spec
CONSTANTS
    Requests = {r1, r2}
    Devices = {"d"}
    Things = {"t"}
    Asks <- MCAsks
SYMMETRY RequestSymmetry
INVARIANTS
    AtMostOnce
    AnswerTells
    CommandAfterLogin
    OnlyListed
