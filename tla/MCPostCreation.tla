--------------------------- MODULE MCPostCreation ---------------------------
(* One program with a sub-builder for each platform.                        *)
EXTENDS PostCreation

CONSTANTS ig, yt

MCPlatformOf == [s \in {ig, yt} |-> IF s = ig THEN "instagram" ELSE "youtube"]
=============================================================================
