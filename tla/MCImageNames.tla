---------------------------- MODULE MCImageNames ----------------------------
(* Words of each kind, a component and a tag that look like a port.        *)
EXTENDS ImageNames

MCDotted == {"docker.io", "registry-1.docker.io", "ghcr.io", "1.25"}
MCHosts == {"docker.io", "registry-1.docker.io", "ghcr.io", "localhost"}
=============================================================================
