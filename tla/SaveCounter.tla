---------------------------- MODULE SaveCounter ----------------------------
(* What the save chips of a cartridge share with the front end: the countdown *)
(* from the last write of the game to the writing of the battery file.        *)
EXTENDS Integers

CONSTANT SYSTEM_SAVE_UPDATED  \* the frames to wait after a write: 30
ASSUME SaveAssumption == SYSTEM_SAVE_UPDATED \in Nat \ {0}
SYSTEM_SAVE_NOT_UPDATED == 0

VARIABLE systemSaveUpdateCounter

\* Mutant: the countdown takes a frame more.
saveUpdatedLate == systemSaveUpdateCounter' = SYSTEM_SAVE_UPDATED + 1

saveUpdated == systemSaveUpdateCounter' = SYSTEM_SAVE_UPDATED
=============================================================================
