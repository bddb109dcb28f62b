SPECIFICATION Spec
CONSTANTS
    N = 2
    Flags <- EachFlag
    MaxRuns = 4
    MaxForeign = 1
INVARIANTS
    SparesWhatItFound
    UpMeansLab
    DownMeansGone
    FreshEvidenceTrue
    OneAtTemplateAddress
    TemplateInstalled
