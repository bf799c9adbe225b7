\* Two HTTP goroutines start a backup at the same time; Execute re-reads the field.
CONSTANTS
    r1 = r1
    r2 = r2
    j1 = j1
    j2 = j2
    j3 = j3
    j4 = j4
    NoJob = NoJob
    Requests <- TwoRequests
    JobIds <- FourJobs
SPECIFICATION Spec
SYMMETRY JobAndRequestSymmetry
INVARIANT ExecutedOnce
