\* Arrays of up to three entries, files for one.
SPECIFICATION Spec
CONSTANTS
    nan = nan
    inf = inf
    NaN = nan
    Inf = inf
    ShadowValues <- SomeShadowValues
    MeanValues <- SomeMeanValues
    StageReports <- SomeStageReports
    NumStages = 2
    MaxLength = 3
    MaxEntries = 1
    CancelLimit = 2
INVARIANT MeanOmissionsAnnounced
