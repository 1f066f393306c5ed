SPECIFICATION Spec
CONSTANTS
    a = a
    b = b
    c = c
    Tasks = {a, b, c}
    Resolvers = {w1, w2}
    Schedulers = {s1}
    NoTask = NoTask
    DependsOn <- Workflow
    Delayed = {c}
SYMMETRY ResolverSymmetry
CHECK_DEADLOCK FALSE
PROPERTY PrereqsFirst
