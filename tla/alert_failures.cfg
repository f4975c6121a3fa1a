SPECIFICATION Spec
CONSTANTS
    Backends = {"rabbitmq"}
    Probes = {p1}
    Readers = {}
    MaxDepth = 0
    MaxChanges = 0
    MaxFailures = 1
INVARIANTS FailuresAreScraped
