---------------------------- MODULE CompactionJob ---------------------------
(***************************************************************************)
(* What a caller of compact or compact_sharded sees (compaction/mod.rs):   *)
(* the call is under way, and then returns once, with the compacted        *)
(* dataset or with an error and nothing at all.                            *)
(***************************************************************************)
EXTENDS BottommostContract

VARIABLES
    sources,   \* what the call was given
    panicked,  \* whether some code of the compaction has panicked
    status,    \* "running", "ok" or "err"
    result     \* the entries of each of the returned files

jobVars == <<sources, panicked, status, result>>

JobInit == ~panicked /\ status = "running" /\ result = <<>>

(* A panic in the compaction; it may come after an error was returned.     *)
Panic ==
    /\ status # "ok"
    /\ panicked' = TRUE
    /\ UNCHANGED <<sources, status, result>>

(* Ok(bytes), with everything the sources hold.                            *)
ReturnOk ==
    /\ status = "running" /\ ~panicked
    /\ status' = "ok"
    /\ IsBottommostAcross(result', sources)
    /\ UNCHANGED <<sources, panicked>>

(* An error has a panic as its cause and brings no output.                 *)
ReturnErr ==
    /\ status = "running" /\ panicked
    /\ status' = "err"
    /\ UNCHANGED <<sources, panicked, result>>

JobNext == Panic \/ ReturnOk \/ ReturnErr

JobSafety == JobInit /\ [][JobNext]_jobVars

JobSpec == JobSafety /\ <>(status # "running")
=============================================================================
