--------------------------- MODULE MCPipelineJobs ---------------------------
(***************************************************************************)
(* Finite instances of PipelineJobs: every account is of one platform.     *)
(***************************************************************************)
EXTENDS PipelineJobsProperties, TLC

CONSTANTS platform, limit

MCPlatform == {platform}
MCPlatformOf == [a \in Account |-> platform]
MCPlatformOfJob == [j \in Job |-> platform]
\* Jobs and accounts are interchangeable: all of one platform.
MCSymmetry == Permutations(Job) \cup Permutations(Account)

MCLimit == [p \in {platform} |-> limit]
=============================================================================
