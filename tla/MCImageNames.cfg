\* Every reference of up to three components, with and without each part.
SPECIFICATION Spec
CONSTANTS
    Dotted <- MCDotted
    Numbers = {"5000"}
    Hosts <- MCHosts
    Components = {"a", "library", "5000", "1.25"}
    Tags = {"v1", "1.25", "5000"}
    MaxDepth = 3
    MaxLen = 20
    None = None
INVARIANTS
    ParseIsDenoted
    NamesKeepMeaning
\* Names with a digest grow until MaxLen stops them.
CHECK_DEADLOCK FALSE
