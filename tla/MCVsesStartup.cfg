\* vses_udp.c: the length of VS3.txt is compared with none.
CONSTANTS
    MaxTokens = 3
    MAX_ELEMENTS = 1
    Servers = {"vses"}
    Files <- MCFiles
    Compared <- MCCompared
    Columns <- MCColumns
    SIZE_MAX = 7
SPECIFICATION Spec
INVARIANT AllFilesAgree
CHECK_DEADLOCK FALSE
