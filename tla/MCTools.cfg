CONSTANTS
    Paths = {1, 2, 3, 4}
    Kind <- Kinds
    Chunks <- ChunksOf
    PathPrefixes <- Prefixes
    Configs <- Servers
    MaxCrashes = 1
    Inputs <- InputsTried
    Reserved = {}
    Int32Max = 1
    MaxPatches = 1
SPECIFICATION Spec
INVARIANTS  NonLocalClosed 
 
\* The parser stops at an error and at the bound on definitions, and the application may
\* never patch again.
CHECK_DEADLOCK FALSE
