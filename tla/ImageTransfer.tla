---------------------------- MODULE ImageTransfer ----------------------------
(***************************************************************************)
(* IC 18, ImageTransfer (include/dlms/cosem/image_transfer.hpp): a firmware*)
(* image is announced, stored block by block, verified and activated.  The *)
(* object keeps its callers to no order, so every method and attribute may *)
(* be called at any time, as by several clients that share the meter.      *)
(*                                                                         *)
(* It checks little: the index of a block is ignored, blocks are appended  *)
(* as they come, verification compares sizes only, and verify() and        *)
(* activate() report ok when they fail.  A block has one unit of size.     *)
(***************************************************************************)
EXTENDS Integers, Sequences

CONSTANTS
    Identifiers, \* identifiers of firmware images
    Blocks,      \* contents of a block
    MaxSize,     \* bound: size of an image
    MaxStored    \* bound: blocks transferred after one initiate

ASSUME ImageAssumption == MaxSize \in Nat /\ MaxStored \in Nat

VARIABLES
    identifier,        \* image_identifier_
    imageSize,         \* image_size_
    status,            \* status_
    imageData,         \* image_data_
    transferredBlocks, \* transferred_blocks_
    \* History, for the properties:
    acknowledged,      \* blocks the caller was told were accepted
    checked,           \* size and data at the last successful verification
    resized            \* image_size was written since the last initiate

history == <<acknowledged, checked, resized>>
vars == <<identifier, imageSize, status, imageData, transferredBlocks, history>>

Sizes == 0 .. MaxSize
Statuses == {"NotInitiated", "Initiated", "VerificationSuccessful",
             "VerificationFailed", "ActivationSuccessful", "ActivationFailed"}

Init ==
    /\ identifier = <<>>
    /\ imageSize = 0
    /\ status = "NotInitiated"
    /\ imageData = <<>>
    /\ transferredBlocks = 0
    /\ acknowledged = <<>>
    /\ checked = [size |-> 0, data |-> <<>>]
    /\ resized = FALSE

InitiateKeepsData(id, size) ==  \* mutation: image_data_ is not cleared
    /\ identifier' = id
    /\ imageSize' = size
    /\ transferredBlocks' = 0
    /\ status' = "Initiated"
    /\ acknowledged' = <<>>
    /\ resized' = FALSE
    /\ UNCHANGED <<imageData, checked>>

Initiate(id, size) ==
    /\ identifier' = id
    /\ imageSize' = size
    /\ imageData' = <<>>
    /\ transferredBlocks' = 0
    /\ status' = "Initiated"
    /\ acknowledged' = <<>>
    /\ resized' = FALSE
    /\ UNCHANGED checked

AcceptAlways == TRUE  \* mutation: the status is not looked at
Accepting == status = "Initiated"

TransferBlock(block) ==  \* otherwise the caller gets NotSupported
    /\ Accepting
    /\ Len(imageData) < MaxStored
    /\ imageData' = Append(imageData, block)
    /\ transferredBlocks' = transferredBlocks + 1
    /\ acknowledged' = Append(acknowledged, block)
    /\ UNCHANGED <<identifier, imageSize, status, checked, resized>>

Verify ==
    /\ IF Len(imageData) >= imageSize
       THEN /\ status' = "VerificationSuccessful"
            /\ checked' = [size |-> imageSize, data |-> imageData]
       ELSE /\ status' = "VerificationFailed"
            /\ UNCHANGED checked
    /\ UNCHANGED <<identifier, imageSize, imageData, transferredBlocks,
                   acknowledged, resized>>

ActivateUnverified ==  \* mutation: the status is not looked at
    /\ status' = "ActivationSuccessful"
    /\ UNCHANGED <<identifier, imageSize, imageData, transferredBlocks, history>>

Activate ==  \* from ActivationSuccessful too: a second activation fails
    /\ status' = IF status = "VerificationSuccessful" THEN "ActivationSuccessful"
                                                      ELSE "ActivationFailed"
    /\ UNCHANGED <<identifier, imageSize, imageData, transferredBlocks, history>>

(***************************************************************************)
(* set_attribute: the identifier and the size can be written at any time,  *)
(* also in the middle of a transfer and after the verification.            *)
(***************************************************************************)
SetIdentifier(id) ==
    /\ identifier' = id
    /\ UNCHANGED <<imageSize, status, imageData, transferredBlocks, history>>

SetLastIndex(size) ==  \* mutation: the number taken for the last index
    /\ imageSize' = size + 1
    /\ resized' = TRUE
    /\ UNCHANGED <<identifier, status, imageData, transferredBlocks,
                   acknowledged, checked>>

SetSize(size) ==
    /\ imageSize' = size
    /\ resized' = TRUE
    /\ UNCHANGED <<identifier, status, imageData, transferredBlocks,
                   acknowledged, checked>>

Next ==
    \/ \E id \in Identifiers, size \in Sizes : Initiate(id, size)
    \/ \E block \in Blocks : TransferBlock(block)
    \/ Verify
    \/ Activate
    \/ \E id \in Identifiers : SetIdentifier(id)
    \/ \E size \in Sizes : SetSize(size)

Spec == Init /\ [][Next]_vars

-----------------------------------------------------------------------------
TypeOK ==
    /\ identifier \in Identifiers \union {<<>>}
    /\ imageSize \in Sizes
    /\ status \in Statuses
    /\ imageData \in Seq(Blocks)
    /\ transferredBlocks \in Nat
    /\ acknowledged \in Seq(Blocks)
    /\ checked \in [size : Sizes, data : Seq(Blocks)]
    /\ resized \in BOOLEAN

(***************************************************************************)
(* image_data_ holds the blocks acknowledged since the last initiate, in   *)
(* the order in which they came, and transferred_blocks_ counts them: a    *)
(* block of an upload that was given up never becomes part of the next     *)
(* image (initiate, transfer_block).                                       *)
(***************************************************************************)
HoldsWhatItAcknowledged ==
    imageData = acknowledged /\ transferredBlocks = Len(imageData)

(***************************************************************************)
(* The data of an image that is verified, or activated, is the data that   *)
(* verification saw, and it was as long as the size then announced:        *)
(* however the callers interleave, no block is added between the two       *)
(* (transfer_block, verify, activate).                                     *)
(***************************************************************************)
ActivatedIsVerified ==
    status \in {"VerificationSuccessful", "ActivationSuccessful"} =>
        imageData = checked.data /\ Len(imageData) >= checked.size

(***************************************************************************)
(* A verification that failed is final: unless the image is announced      *)
(* again, or someone writes its size, no call makes the object say that    *)
(* the image is verified, nor activated (a caller that verifies in the     *)
(* middle of somebody's upload ends that upload).                          *)
(***************************************************************************)
Short == Len(imageData) < imageSize
Stopped == status \notin {"NotInitiated", "Initiated"}

FailureIsFinal ==
    [][Stopped /\ Short /\ ~resized' /\ status' # "Initiated" =>
         status' \notin {"VerificationSuccessful", "ActivationSuccessful"}
           /\ imageData' = imageData]_vars

(***************************************************************************)
(* The inductive invariant: what relates the size announced to the data    *)
(* that was verified is broken only by writing the size.                   *)
(***************************************************************************)
VerifiedFits ==
    status \in {"VerificationSuccessful", "ActivationSuccessful"} /\ ~resized
        => ~Short

IndInv == TypeOK /\ HoldsWhatItAcknowledged /\ ActivatedIsVerified /\ VerifiedFits
=============================================================================
