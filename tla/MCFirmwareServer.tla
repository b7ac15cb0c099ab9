-------------------------- MODULE MCFirmwareServer --------------------------
(* Instances of FirmwareServer for TLC. *)
EXTENDS FirmwareServer, TLC

CONSTANTS f1, f2, junk

MCNoMentions == {{}}
MCMentionsApp == {{}, {"app"}}
MCMentionsSecond == {{}, {"secondApp"}}
MCSymmetry == Permutations(Bootable)
=============================================================================
