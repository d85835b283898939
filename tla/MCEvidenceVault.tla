---------------------------- MODULE MCEvidenceVault ----------------------------
(***************************************************************************)
(* Small instances of DepthVault: two threads of the server and one        *)
(* command-line run that share the data directory.                         *)
(***************************************************************************)
EXTENDS DepthVault, TLC

CONSTANTS desk1, desk2, cli, server, console, nobody, noImage, noKey, emptyKey,
          photo, scan

ThreeClients == {desk1, desk2, cli}
BothProcesses == {server, console}
Hosts == [c \in ThreeClients |-> IF c = cli THEN console ELSE server]
OneImage == {photo}
Symmetry == Permutations({desk1, desk2})
=============================================================================
