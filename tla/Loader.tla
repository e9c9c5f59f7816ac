------------------------------- MODULE Loader -------------------------------
(***************************************************************************)
(* Reading a recording: load_data_from_file (one column) and the three     *)
(* loaders of vses_udp.c for rows (11, 29 and 2 columns), which differ     *)
(* only in the width of a row.  One step is one call of fscanf("%lf").     *)
(* The module of the servers' start, Startup, calls it once per recording. *)
(*                                                                         *)
(* fscanf returns 1 and moves on at a number, 0 without moving at anything *)
(* else, and EOF, which is -1, at the end; the row loaders add these up.   *)
(***************************************************************************)
EXTENDS Integers, Sequences, SequencesExt, FiniteSetsExt

CONSTANTS
    MaxTokens,     \* bound: tokens in a file
    MAX_ELEMENTS   \* rows the array has room for

ASSUME LoaderAssumption == MaxTokens \in Nat /\ MAX_ELEMENTS \in Nat

VARIABLES
    file,        \* the file's tokens, or that it is missing
    cols,        \* columns of a row, an argument
    pos,         \* tokens read
    row, col,    \* the slot read into next
    items_read,  \* sum of fscanf's results in this row
    data,        \* slot -> the token it was filled from
    loader,      \* "idle", "running" or "returned"
    result       \* the value it returned

loaderVars == <<file, cols, pos, row, col, items_read, data, loader, result>>

Token == {"number", "word"}
EOF == -1

NoSlots == [slot \in {} |-> 0]

LoaderIdle ==
    /\ file = << >> /\ cols = 0
    /\ pos = 0 /\ row = 0 /\ col = 0 /\ items_read = 0
    /\ data = NoSlots /\ loader = "idle" /\ result = 0

\* A call, for a recording that may hold anything.
Call(columns) ==
    /\ loader = "idle" /\ loader' = "running"
    /\ file' \in BoundedSeq(Token, MaxTokens) \cup {<<"missing">>}
    /\ cols' = columns
    /\ data' = [slot \in (0 .. MAX_ELEMENTS - 1) \X (0 .. columns - 1) |-> 0]
    /\ UNCHANGED <<pos, row, col, items_read, result>>

\* The caller has taken the result; the loader's variables are gone.
Forget ==
    /\ loader = "returned" /\ loader' = "idle"
    /\ file' = << >> /\ cols' = 0 /\ data' = NoSlots /\ result' = 0
    /\ pos' = 0 /\ row' = 0 /\ col' = 0 /\ items_read' = 0

Missing == file = <<"missing">>

Return(n) ==
    /\ loader = "running" /\ loader' = "returned" /\ result' = n
    /\ UNCHANGED <<file, cols, pos, row, col, items_read, data>>

OpenFails == Missing /\ Return(-1)

InRow == loader = "running" /\ ~Missing /\ row < MAX_ELEMENTS /\ col < cols

NoNumberNext == pos < Len(file) => file[pos + 1] # "number"

\* The next fscanf of the row: after a failed one the row is read to its end.
ScanNumber ==
    /\ InRow /\ ~NoNumberNext
    /\ data' = [data EXCEPT ![<<row, col>>] = pos + 1]
    /\ pos' = pos + 1
    /\ items_read' = items_read + 1
    /\ col' = col + 1
    /\ UNCHANGED <<file, cols, row, loader, result>>

\* Variations of a failed fscanf: counted as an item, and tried again.
ScanFailsCounted ==
    /\ InRow /\ NoNumberNext
    /\ items_read' = items_read + 1
    /\ col' = col + 1
    /\ UNCHANGED <<file, cols, pos, row, data, loader, result>>

ScanFailsRetries == InRow /\ NoNumberNext /\ UNCHANGED loaderVars

ScanFails ==
    /\ InRow /\ NoNumberNext
    /\ items_read' = items_read + (IF pos < Len(file) THEN 0 ELSE EOF)
    /\ col' = col + 1
    /\ UNCHANGED <<file, cols, pos, row, data, loader, result>>

RowRead == loader = "running" /\ ~Missing /\ row < MAX_ELEMENTS /\ col = cols

KeepRowIfAny ==
    /\ RowRead /\ items_read # 0
    /\ row' = row + 1 /\ col' = 0 /\ items_read' = 0
    /\ UNCHANGED <<file, cols, pos, data, loader, result>>

KeepRow ==
    /\ RowRead /\ items_read = cols
    /\ row' = row + 1 /\ col' = 0 /\ items_read' = 0
    /\ UNCHANGED <<file, cols, pos, data, loader, result>>

BreakOff == RowRead /\ items_read # cols /\ Return(row)

ArrayFull == ~Missing /\ row = MAX_ELEMENTS /\ Return(row)

LoaderNext ==
    \/ OpenFails \/ ScanNumber \/ ScanFails
    \/ KeepRow \/ BreakOff \/ ArrayFull
-----------------------------------------------------------------------------
\* The reference: the numbers before the first token that is not one.
LeadingNumbers ==
    Max({0} \cup {n \in DOMAIN file : \A k \in 1 .. n : file[k] = "number"})

\* A loader returns the number of complete rows of numbers at the head of the
\* file, no more than the array holds, and -1 for a file it cannot open: no
\* sum of fscanf results is mistaken for a full row.
CountsCompleteRows ==
    loader = "returned" =>
        result = IF Missing THEN -1 ELSE Min({MAX_ELEMENTS, LeadingNumbers \div cols})

\* Each element of a counted row is the number at its place in the file, and
\* what was read of an incomplete row is not counted.
RowsInPlace ==
    \A k \in 0 .. row - 1, c \in 0 .. cols - 1 : data[<<k, c>>] = k * cols + c + 1

\* A loader returns, also for a file with something in it that fscanf never
\* gets past.
Returns == (loader = "running") ~> (loader = "returned")
=============================================================================
