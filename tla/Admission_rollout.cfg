SPECIFICATION Spec
CONSTANTS
    Generators = {g1}
    Readers = {r1}
    Probes = {p1, p2}
    Releases <- MCReleases
    ExpectedBuild = "expected"
    Inputs <- MCInputs
    None = None
SYMMETRY Ids
INVARIANTS
    TypeOK
    AdmittedIsAccepted
    PromptTagsMatchGraph
    GraphIsLegal
PROPERTY DocumentSurvivesFailures
