---------------------------- MODULE MCVideoJobs ----------------------------
(* Constants for model-checking VideoJobs.                                 *)
EXTENDS VideoJobs

CONSTANTS v1, v2

TwoVideos == {v1, v2}
OneVideo == {v1}

\* The configuration gets a manual mapping for one of the videos, or none.
MappingsTwo == {{}, {v1}}
NoMappings == {{}}
=============================================================================
