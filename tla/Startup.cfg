SPECIFICATION Spec
CONSTANTS
    EndpointCount = 1
    MaxExtras = 2
    MaxDuration = 6
    MaxFactor = 3
    MaxAttempts = 5
    Configs <- SomeConfigs
    Example <- NotFilledIn
    Local <- LocalAddrs
    Loopbacks <- LoopbackAddrs
    Resolve <- Hosts
    TemplateName <- Tmpl
    MaxEdits = 2
INVARIANTS
    RingRight
    DelayIsCappedGrowth
    SameOuterHost
    InstallerAnswered
    TemplateRangeKept
