----------------------------- MODULE MCModelCleanup -----------------------------
(* Instances of ModelCleanup for TLC: two metadata files, two staging        *)
(* directories, so that one is left behind while another is in use.          *)
EXTENDS ModelCleanup, TLC

CONSTANTS config, labels

MCNames == {config, labels}
MCIdentities == {1, 2}
MCStages == {1, 2}
=============================================================================
