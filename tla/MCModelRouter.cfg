SPECIFICATION Spec
CONSTANTS
    cheap = cheap
    standard = standard
    main = main
    spare = spare
    Callers = {c1, c2, c3}
    Tiers <- MCTiers
    Providers <- MCProviders
    ProviderOf <- MCProviderOf
    NoProvider = NoProvider
    Threshold = 2
    RecoveryTimeout = 2
INVARIANTS
    TripsOnConsecutiveFailures
PROPERTIES
    FailingProviderIsLeftAlone
    OpenBreakerIsProbed
