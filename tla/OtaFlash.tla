------------------------------ MODULE OtaFlash ------------------------------
(* The application partitions of src/partitions.csv and what the code in     *)
(* src/main uses of ESP-IDF's app_update component and of the second stage   *)
(* boot loader.  The functions are external; they are modelled from how      *)
(* file_server.c and ota_by_sockets.c call them and from the sdkconfig       *)
(* (factory reset by GPIO, erase of otadata, rollback disabled).             *)
(*                                                                           *)
(* A partition is an array of NumChunks chunks.  A chunk holds a piece of    *)
(* one firmware, or nothing: firmwares are told apart, their bytes are not.  *)
EXTENDS Naturals

CONSTANTS
    Images,      \* the firmwares clients send
    Bootable,    \* those of them that pass image validation
    Blank,       \* an erased chunk
    NumChunks,   \* chunks in a partition, and in a complete firmware
    NoPart       \* "no entry in otadata": the boot loader starts factory

ASSUME ImagesAssumption == Bootable \subseteq Images /\ Blank \notin Images
ASSUME NumChunksAssumption == NumChunks \in Nat \ {0}

AppParts == {"app", "flashApp", "secondApp"}

ASSUME NoPartAssumption == NoPart \notin AppParts

Chunk == Images \cup {Blank}
PartImage == [1..NumChunks -> Chunk]

Whole(f) == [i \in 1..NumChunks |-> f]

\* A slip the properties are tried against: only the header is looked at.
Verifies_HeaderOnly(img) == \E f \in Bootable : img[1] = f

\* esp_image_verify(), as esp_ota_end() and esp_ota_set_boot_partition() call it.
Verifies(img) == \E f \in Bootable : img = Whole(f)

\* A firmware's remains: every chunk is the firmware's own, or erased.
RemainsOf(f, img) == \A i \in 1..NumChunks : img[i] \in {f, Blank}

-----------------------------------------------------------------------------
\* The slots ota_0, ota_1, ota_2 in the order of partitions.csv.
Slot == [app |-> 0, flashApp |-> 1, secondApp |-> 2]

\* esp_ota_get_next_update_partition(): the slot after p's, wrapping around.
NextUpdatePartition(p) ==
    CHOOSE q \in AppParts : Slot[q] = (Slot[p] + 1) % 3

\* bootloader_utility_load_boot_image(): the selected slot, then the slots
\* below it, then factory.  (Factory itself always starts, so the slots above
\* the selected one are never tried.)
Candidates(img, boot) ==
    IF boot = NoPart
    THEN {}
    ELSE {p \in AppParts : Slot[p] <= Slot[boot] /\ Verifies(img[p])}

BootedFrom(img, boot) ==
    IF Candidates(img, boot) = {}
    THEN "factory"
    ELSE CHOOSE p \in Candidates(img, boot) :
            \A q \in Candidates(img, boot) : Slot[q] <= Slot[p]
=============================================================================
