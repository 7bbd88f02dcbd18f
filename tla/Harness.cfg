\* Three measurements in a row, every process may crash.
SPECIFICATION FairLoop
CONSTANTS MaxRuns = 3
INVARIANTS OwnExperiment CompleteUnlessFailed
PROPERTIES Ends
