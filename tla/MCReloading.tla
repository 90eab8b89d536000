---------------------------- MODULE MCReloading -----------------------------
(***************************************************************************)
(* Contents of workflow files for the runs of Reloading: "base", with      *)
(* another label or another key for the tracker, with hosts, with another  *)
(* root, and one that is refused.                                          *)
(***************************************************************************)
EXTENDS Reloading

CONSTANTS h1, h2

AllContents == {"base", "labels", "key", "refused", "hosts", "fewer", "root"}
Good == AllContents \ {"refused"}

Trackers == [c \in AllContents |-> IF c \in {"labels", "key"} THEN c ELSE "base"]
Transports == [c \in AllContents |-> IF c = "key" THEN "key" ELSE "base"]
Pools == [c \in AllContents |-> IF c = "hosts" THEN <<h1, h2>> ELSE IF c = "fewer" THEN <<h2>> ELSE <<>>]
RootsOf == [c \in AllContents |-> IF c = "root" THEN "moved" ELSE "base"]

=============================================================================
