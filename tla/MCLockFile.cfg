\* Three children, three lines each; a terminal, or a stdio buffer that holds
\* the three lines; fork, open and unlink may fail.
CONSTANTS
    num_children = 3
    count = 3
    StdioSizes = {1, 4}
    MayFail = TRUE
SPECIFICATION Spec
INVARIANTS
    MutualExclusion
    OutputInBlocks
PROPERTY Termination
