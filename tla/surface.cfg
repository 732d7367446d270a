\* Two requests at a time of two contexts and two invocations.
CONSTANTS
    Contexts = {b1, b2}
    Invocations = {i1, i2}
    Requests = {r1, r2}
    Tools <- SomeTools
    Toolsets = {"s1", "s2"}
    Identifiers <- SomeIdentifiers
    Configs <- Surfaces
    Attribute <- RawAttribute
    Parameter <- RawParameter
    ArtifactTools <- BuiltinTools
SPECIFICATION Spec
INVARIANTS
    TypeOK
    OneSurfacePerContext
    StubCallsArrive
SYMMETRY Symmetry
