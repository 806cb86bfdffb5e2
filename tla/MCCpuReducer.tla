---------------------------- MODULE MCCpuReducer ----------------------------
(* Small instances of CpuReducer for TLC. *)
EXTENDS CpuReducer

CONSTANTS MaxThreads, MaxJobs, MaxRows, JobSizes, Buffers

\* Every division of few jobs of few rows over few threads, with a buffer that
\* is too small for several jobs per thread or is not, with groups of several
\* threads or not.
SmallCalls ==
    [nthr : 1..MaxThreads, job_size : JobSizes, njobs : 1..MaxJobs,
     reduction_size : 1..MaxRows, max_buffer_size : Buffers,
     allow_nthr_in_group : BOOLEAN]
=============================================================================
