SPECIFICATION MCSpec
CONSTANTS
    s1 = s1
    s2 = s2
    e1 = e1
    e2 = e2
    skuFile = skuFile
    moreSkus = moreSkus
    badFile = badFile
    eventFile = eventFile
    mixedFile = mixedFile
    poisonFile = poisonFile
    None = None
    Skus = {s1, s2}
    Events = {e1, e2}
    Files = {skuFile, moreSkus, badFile, eventFile, mixedFile, poisonFile}
    MasterFiles = {skuFile, moreSkus, badFile}
    Content <- MCContent
    MaxBatches = 3
    MaxCrashes = 1
    here = here
    there = there
    skuCsv = skuCsv
    skuCsvNew = skuCsvNew
    eventCsv = eventCsv
    binary = binary
    skuHeader = skuHeader
    eventHeader = eventHeader
    Paths = {here, there}
    Contents = {skuCsv, skuCsvNew, eventCsv, binary}
    Gone = Gone
    Header <- MCHeader
    Suggests <- MCSuggests
    Hopeless = {skuCsvNew}
    Poisoned = {eventCsv}
    Nothing = Nothing
    MaxEdits = 1
    MaxImports = 2
INVARIANTS
    ErrorIsolation
    CountsMatchRows
    StaleOnlyBySyncOrCrash
    WizardTellsTruth
PROPERTIES
    BatchEnds
CHECK_DEADLOCK FALSE
