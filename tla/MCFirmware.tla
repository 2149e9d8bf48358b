----------------------------- MODULE MCFirmware -----------------------------
(***************************************************************************)
(* Instances of FirmwareUpdate for TLC.  Forced checks are interchangeable.*)
(***************************************************************************)
EXTENDS FirmwareUpdate, TLC

CheckSymmetry == Permutations(Forced)
=============================================================================
