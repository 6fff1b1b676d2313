\* Bodies below, at and above both limits; an upstream that may stop, break or
\* send nothing.
CONSTANTS
    MaxBody = 4
    MaxPage = 2
    MaxSize = 6
SPECIFICATION FairSpec
INVARIANTS PageIsWhole FittingIsNotRefused
PROPERTIES UserEnds ImplementsBounded
CHECK_DEADLOCK FALSE
