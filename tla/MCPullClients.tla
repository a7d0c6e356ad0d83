---------------------------- MODULE MCPullClients ---------------------------
(* PullClients with two blobs, one a prefix of the other, and downloads    *)
(* that are right, wrong and too short, or empty.                          *)
EXTENDS PullClients, TLC

CONSTANTS x, y, r1, r2

MCPayloads == {<<x>>, <<x, y>>}

MCDownloads == (<<x>> :> {<<x>>}) @@ (<<x, y>> :> {<<x, y>>, <<y>>, << >>})

MCRefOf == (<<x>> :> r1) @@ (<<x, y>> :> r2)

(* One blob, and a download that is longer than it.                        *)
CorruptPayloads == {<<x, y>>}

CorruptDownloads == <<x, y>> :> {<<x, y>>, <<y, y, y>>}

CorruptRefOf == <<x, y>> :> r1
=============================================================================
