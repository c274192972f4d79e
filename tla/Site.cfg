SPECIFICATION Spec
CONSTANTS
    Rank <- MCRank
    CodeRank <- MCCodeRank
    Configs <- MCConfigs
    BadBody = 9
    BadMatter = 8
    MaxEdits = 2
INVARIANTS IncrementalFresh ListsResolve PagersCoverMain DraftsHidden LanguagesKept TranslationsExist QueriesComplete
PROPERTIES FailuresContained
CHECK_DEADLOCK FALSE
