------------------------------ MODULE ImageSwap ------------------------------
(***************************************************************************)
(* What an A/B firmware update keeps to (hil-firmware-support/src/         *)
(* fw_update.rs) when the image it is given may be damaged on the way to   *)
(* the flash: what is staged is taken on trial at the next boot and is     *)
(* given up for the image that ran before unless it is confirmed; a        *)
(* damaged image is never confirmed, so there is always a whole one.       *)
(***************************************************************************)
CONSTANTS
    Images,     \* the firmware images there are
    NoImage,
    Damaged     \* what is no image of these as a whole

VARIABLES
    running,    \* the image in the active partition
    pending,    \* the image staged for the next boot, if any
    fallback    \* while `running' is on trial, the image it replaced

vars == <<running, pending, fallback>>

Init == running \in Images /\ pending = NoImage /\ fallback = NoImage

Stage(x) ==
    /\ pending = NoImage /\ fallback = NoImage
    /\ pending' = x
    /\ UNCHANGED <<running, fallback>>

Swap ==
    /\ pending # NoImage
    /\ running' = pending /\ fallback' = running /\ pending' = NoImage

Confirm ==
    /\ fallback # NoImage /\ running \in Images
    /\ fallback' = NoImage
    /\ UNCHANGED <<running, pending>>

Revert ==
    /\ fallback # NoImage
    /\ running' = fallback /\ fallback' = NoImage
    /\ UNCHANGED pending

Next == (\E x \in Images \union {Damaged} : Stage(x)) \/ Swap \/ Confirm \/ Revert

Spec == Init /\ [][Next]_vars
===============================================================================
