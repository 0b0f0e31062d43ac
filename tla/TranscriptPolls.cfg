\* Two transcripts, one post that fails, one truncation, one deletion.
SPECIFICATION TailSpec
CONSTANTS
    f1 = f1
    f2 = f2
    Absent = Absent
    File = {f1, f2}
    Context <- FirstLines
    Wide <- SecondLine
    IncludeHistory = FALSE
    MaxLines <- LongAndShort
    MaxFailures = 1
    MaxTruncations = 1
    MaxDeletions = 1
INVARIANTS
    TailIsExact
    AttachBoundary
PROPERTY
    CatchesUp
CHECK_DEADLOCK FALSE
