\* Arrays of up to four entries, files for two.
SPECIFICATION Spec
CONSTANTS
    nan = nan
    inf = inf
    NaN = nan
    Inf = inf
    ShadowValues <- SomeShadowValues
    MeanValues <- SomeMeanValues
    StageReports <- SomeStageReports
    NumStages = 2
    MaxLength = 4
    MaxEntries = 2
    CancelLimit = 2
INVARIANTS MemoryOmissionsAnnounced NotableAreTold LibrariesFiltered StageReportsDistinct
