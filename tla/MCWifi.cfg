CONSTANT
    Failures = {"NO_AP_FOUND", "WRONG_PASSWORD"}
SPECIFICATION FairSpec
INVARIANTS TypeOK AgreesUnlessOvertaken
PROPERTIES FeedsStatus Converges
