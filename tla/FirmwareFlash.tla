--------------------------- MODULE FirmwareFlash ---------------------------
(***************************************************************************)
(* Installing a firmware: src/src/network/FirmwareFlasher.cpp (from a file *)
(* on the SD card), OtaUpdater.cpp (streamed over WiFi), OtaBootSwitch.cpp *)
(* (the switch in otadata), SdFirmwareUpdateActivity and                   *)
(* OtaUpdateActivity, which drive them.                                    *)
(*                                                                         *)
(* Two app partitions, 0 and 1. otadata holds two slots; the valid one     *)
(* with the highest sequence number s selects partition (s - 1) % 2. Power *)
(* may be lost between any two writes to the flash. The bootloader of      *)
(* ESP-IDF is external: it starts the selected partition and, built with   *)
(* rollback, gives a new image one start to call itself valid.             *)
(*                                                                         *)
(* Left out: the image format (an image fits or does not), the version     *)
(* check before a download, the progress bar, and a card that is exchanged *)
(* while a file is being read.                                             *)
(***************************************************************************)
EXTENDS Naturals

CONSTANTS
    Images,     \* what a firmware file or a download may contain
    Fit,        \* the images that are whole and pass for this device
    Broken,     \* no image: a partition that is partly erased or written
    Blocks,     \* an image is written in so many blocks
    Erased,     \* an erased slot of otadata, or one with a bad CRC
    Rollback,   \* whether the bootloader is built with rollback
    MaxSeq      \* bound on the sequence numbers, for TLC

ASSUME ImagesAssumption == Fit \subseteq Images /\ Broken \notin Images
ASSUME BlocksAssumption == Blocks \in Nat /\ Blocks >= 2
ASSUME RollbackAssumption == Rollback \in BOOLEAN
ASSUME MaxSeqAssumption == MaxSeq \in Nat

Partitions == {0, 1}
Slots == {0, 1}
SlotStates == {"new", "pending", "valid", "aborted"}
Entries == [seq : Nat \ {0}, state : SlotStates]

ASSUME ErasedAssumption == Erased \notin Entries

VARIABLES
    part,       \* what each partition contains
    slot,       \* otadata: what each slot contains
    running,    \* the partition the app was started from
    stage,      \* "off": no app runs; then how far the app is with an update
    file,       \* the image being installed, Broken if none
    pos         \* blocks of it written

flashVars == <<part, slot, running, stage, file, pos>>

Installing == {"copy", "stream", "erase", "write"}
Stages == {"off", "starting", "idle", "prompt", "failed", "done"} \cup Installing

FlashTypeOK ==
    /\ part \in [Partitions -> Images \cup {Broken}]
    /\ slot \in [Slots -> Entries \cup {Erased}]
    /\ running \in Partitions
    /\ stage \in Stages
    /\ file \in Images \cup {Broken}
    /\ pos \in 0..Blocks

-----------------------------------------------------------------------------
(* otadata, as OtaBootSwitch and the bootloader read it. *)

Valid(s, i) == s[i] # Erased /\ s[i].state # "aborted"
IsActive(s, i) == Valid(s, i) /\ \A j \in Slots : Valid(s, j) => s[j].seq <= s[i].seq
ActiveSeq(s) ==
    IF IsActive(s, 0) THEN s[0].seq ELSE IF IsActive(s, 1) THEN s[1].seq ELSE 0

(* The partition that starts next; ota_0 when no slot is valid. *)
Selected(s) == IF ActiveSeq(s) = 0 THEN 0 ELSE (ActiveSeq(s) - 1) % 2

(* The smallest number above the active one that selects partition dest. *)
NewSeqNext(s, dest) == ActiveSeq(s) + 1     \* a mutant of NewSeq
NewSeq(s, dest) == IF ActiveSeq(s) % 2 = dest THEN ActiveSeq(s) + 1 ELSE ActiveSeq(s) + 2

(* The slot that is not active is the one to write. *)
TargetSlotActive(s) == IF IsActive(s, 0) THEN 0 ELSE 1     \* a mutant of TargetSlot
TargetSlot(s) == IF IsActive(s, 0) THEN 1 ELSE 0

(* esp_ota_get_next_update_partition() *)
Dest == 1 - running

(* validateImageFile(), and what the OTA path checks while it streams and at its end. *)
Passes(img) == img \in Fit

-----------------------------------------------------------------------------
(* From power-up to setup(). *)

(* What the bootloader makes of otadata: a new image is given its one start, one that
   was started and did not call itself valid is given up. *)
Probed(s) ==
    [i \in Slots |->
        IF Rollback /\ IsActive(s, i) /\ s[i].state \in {"new", "pending"}
        THEN [s[i] EXCEPT !.state = IF s[i].state = "new" THEN "pending" ELSE "aborted"]
        ELSE s[i]]

Bootloader ==
    /\ stage = "off"
    /\ slot' = Probed(slot)
    /\ running' = LET p == Selected(slot') IN IF part[p] = Broken THEN 1 - p ELSE p
    /\ stage' = "starting"
    /\ UNCHANGED <<part, file, pos>>

(* The Arduino core marks the running image valid before setup(). *)
AppStarts ==
    /\ stage = "starting"
    /\ slot' = [i \in Slots |->
                  IF IsActive(slot, i) /\ slot[i].state = "pending"
                  THEN [slot[i] EXCEPT !.state = "valid"] ELSE slot[i]]
    /\ stage' = "idle"
    /\ UNCHANGED <<part, running, file, pos>>

(* A restart, deep sleep, a crash or a loss of power, whatever was going on. *)
FlashReset ==
    /\ stage # "off" /\ stage' = "off"
    /\ file' = Broken /\ pos' = 0
    /\ UNCHANGED <<part, slot, running>>

-----------------------------------------------------------------------------
(* From the SD card: the file is validated before the prompt, and again after it, for
   the card may have been exchanged meanwhile. *)

PickFile(img) ==
    /\ stage = "idle" /\ file' = img
    /\ stage' = IF Passes(img) THEN "prompt" ELSE "failed"
    /\ UNCHANGED <<part, slot, running, pos>>

Decline ==
    /\ stage \in {"prompt", "failed"} /\ stage' = "idle"
    /\ file' = Broken /\ pos' = 0
    /\ UNCHANGED <<part, slot, running>>

Confirm(img) ==
    /\ stage = "prompt" /\ NewSeq(slot, Dest) <= MaxSeq
    /\ file' = img /\ pos' = 0
    /\ stage' = IF Passes(img) THEN "copy" ELSE "failed"
    /\ UNCHANGED <<part, slot, running>>

(* One turn of the loop of flashFromSdPath(): the block is erased, read and written. *)
WriteBlock ==
    /\ pos < Blocks
    /\ pos' = pos + 1
    /\ part' = [part EXCEPT ![Dest] = IF pos' = Blocks THEN file ELSE Broken]
    /\ UNCHANGED <<slot, running, stage, file>>
CopyBlock == stage = "copy" /\ WriteBlock

(* Erasing, reading or writing fails; what is erased stays erased. *)
CopyFails ==
    /\ stage = "copy" /\ pos < Blocks /\ stage' = "failed"
    /\ \E now \in {part[Dest], Broken} : part' = [part EXCEPT ![Dest] = now]
    /\ UNCHANGED <<slot, running, file, pos>>

CopyEndsEarly ==     \* a mutant of CopyEnds
    /\ stage = "copy" /\ pos >= Blocks - 1 /\ stage' = "erase"
    /\ UNCHANGED <<part, slot, running, file, pos>>
CopyEnds ==
    /\ stage = "copy" /\ pos = Blocks /\ stage' = "erase"
    /\ UNCHANGED <<part, slot, running, file, pos>>

-----------------------------------------------------------------------------
(* Over WiFi: the partition is erased first, the stream is checked as it comes. *)

OtaBegin(img) ==
    /\ stage = "idle" /\ NewSeq(slot, Dest) <= MaxSeq
    /\ part' = [part EXCEPT ![Dest] = Broken]
    /\ file' = img /\ pos' = 0 /\ stage' = "stream"
    /\ UNCHANGED <<slot, running>>

StreamBlock == stage = "stream" /\ WriteBlock

(* The wrong chip or board, a lost connection, a failed write; esp_ota_abort(). *)
StreamAborts ==
    /\ stage = "stream" /\ stage' = "failed"
    /\ UNCHANGED <<part, slot, running, file, pos>>

(* esp_ota_end() and esp_ota_set_boot_partition() verify the image. *)
StreamEnds ==
    /\ stage = "stream" /\ pos = Blocks
    /\ stage' = IF Passes(file) THEN "erase" ELSE "failed"
    /\ UNCHANGED <<part, slot, running, file, pos>>

-----------------------------------------------------------------------------
(* switchTo(): the other slot is erased, then written. *)

SwitchErases ==
    /\ stage = "erase" /\ stage' = "write"
    /\ slot' = [slot EXCEPT ![TargetSlot(slot)] = Erased]
    /\ UNCHANGED <<part, running, file, pos>>

SwitchWrites ==
    /\ stage = "write" /\ stage' = "done"
    /\ slot' = [slot EXCEPT ![TargetSlot(slot)] = [seq |-> NewSeq(slot, Dest), state |-> "new"]]
    /\ UNCHANGED <<part, running, file, pos>>

SwitchFails ==
    /\ stage \in {"erase", "write"} /\ stage' = "failed"
    /\ UNCHANGED <<part, slot, running, file, pos>>

-----------------------------------------------------------------------------
(* A device as it leaves the factory or a flashing tool: one image, in partition 0, and
   otadata erased or selecting it. *)
FlashInit ==
    /\ part \in [Partitions -> Images \cup {Broken}] /\ part[0] \in Fit
    /\ slot \in {[i \in Slots |-> Erased],
                 [i \in Slots |-> IF i = 0 THEN [seq |-> 1, state |-> "valid"] ELSE Erased]}
    /\ running = 0 /\ stage = "off"
    /\ file = Broken /\ pos = 0

(* What the update itself does while the app runs. *)
Update ==
    \/ \E img \in Images : PickFile(img) \/ Confirm(img) \/ OtaBegin(img)
    \/ Decline
    \/ CopyBlock \/ CopyFails \/ CopyEnds
    \/ StreamBlock \/ StreamAborts \/ StreamEnds
    \/ SwitchErases \/ SwitchWrites \/ SwitchFails

FlashNext == Bootloader \/ AppStarts \/ FlashReset \/ Update

FlashSpec == FlashInit /\ [][FlashNext]_flashVars

-----------------------------------------------------------------------------
(* What must never go wrong. *)

(* At every moment, if power is lost now, what otadata selects is a whole image for
   this device: the switch never points at a partition that is still to be written,
   and never becomes unreadable between its erasure and its write (OtaBootSwitch.cpp:69). *)
SelectedBoots == part[Selected(slot)] \in Fit

(* An update that reports success is the one that starts next. *)
SwitchTakes == stage = "done" => Selected(slot) = Dest /\ part[Dest] = file

(* A new image that does not come up can be given up: what is selected without it is
   the other partition, and that is whole. *)
Without(i) == [slot EXCEPT ![i] = Erased]
FallbackBoots ==
    \A i \in Slots :
        Rollback /\ IsActive(slot, i) /\ slot[i].state \in {"new", "pending"} =>
            /\ Selected(Without(i)) # Selected(slot)
            /\ part[Selected(Without(i))] \in Fit

-----------------------------------------------------------------------------
(* The inductive invariant behind these. *)

SeqsDiffer == Valid(slot, 0) /\ Valid(slot, 1) => slot[0].seq # slot[1].seq

(* The app runs from the selected partition until the switch. *)
RunsSelected == stage \notin {"off", "done"} => running = Selected(slot)

(* What has been written is what passed. *)
Written ==
    /\ stage = "copy" => file \in Fit
    /\ stage \in {"copy", "stream"} /\ pos = Blocks => part[Dest] = file
    /\ stage \in {"erase", "write", "done"} => file \in Fit /\ part[Dest] = file

(* Only the image that starts next is on trial, and no update begins before it is over. *)
OneTrial ==
    Rollback =>
        \A i \in Slots : Valid(slot, i) =>
            /\ slot[i].state \in {"new", "pending"} =>
                    IsActive(slot, i) /\ stage \in {"off", "starting", "done"}
            /\ stage = "starting" => slot[i].state # "new"

FlashIInv ==
    /\ FlashTypeOK /\ SeqsDiffer /\ RunsSelected /\ Written /\ OneTrial
    /\ SelectedBoots /\ SwitchTakes /\ FallbackBoots

=============================================================================
