SPECIFICATION Spec
CONSTANTS
    Rank <- MCRank
    CodeRank <- MCCodeRank
    Configs <- MCConfigs
    BadBody = 9
    BadMatter = 8
    MaxEdits = 2
INVARIANT DraftsStayOut
CHECK_DEADLOCK FALSE
