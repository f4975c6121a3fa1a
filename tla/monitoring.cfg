SPECIFICATION FairSpec
CONSTANTS
    Backends = {"inline", "redis", "rabbitmq"}
    Probes = {p1}
    Readers = {r1}
    MaxDepth = 1
    MaxChanges = 2
    MaxFailures = 1
INVARIANTS HealthIsTruthful
PROPERTIES DepthsConverge DependenciesConverge
