------------------------- MODULE ImageTransfer_proofs -------------------------
(***************************************************************************)
(* Proofs about ImageTransfer, for any identifiers, blocks and bounds.     *)
(***************************************************************************)
EXTENDS ImageTransfer, TLAPS

(***************************************************************************)
(* The invariant holds when the object is constructed.                     *)
(***************************************************************************)
LEMMA Constructed == Init => IndInv
<1> SUFFICES ASSUME Init PROVE IndInv
  OBVIOUS
<1>1. <<>> \in Seq(Blocks) /\ Len(<<>>) = 0
  OBVIOUS
<1>2. [size |-> 0, data |-> <<>>] \in [size : Sizes, data : Seq(Blocks)]
  BY <1>1, ImageAssumption DEF Sizes
<1>3. TypeOK
  BY <1>1, <1>2, ImageAssumption DEF Init, TypeOK, Sizes, Statuses
<1> QED
  BY <1>1, <1>3 DEF Init, IndInv, HoldsWhatItAcknowledged, ActivatedIsVerified,
                    VerifiedFits

(***************************************************************************)
(* Appending a block keeps the types and lengths of the stored data.       *)
(***************************************************************************)
LEMMA AppendBlock ==
    ASSUME NEW s \in Seq(Blocks), NEW b \in Blocks
    PROVE  Append(s, b) \in Seq(Blocks) /\ Len(Append(s, b)) = Len(s) + 1
OBVIOUS

(***************************************************************************)
(* Every method and attribute write preserves the invariant.               *)
(***************************************************************************)
LEMMA Preserved == IndInv /\ [Next]_vars => IndInv'
<1> SUFFICES ASSUME IndInv, [Next]_vars PROVE IndInv'
  OBVIOUS
<1> USE ImageAssumption
<1> USE DEF IndInv, HoldsWhatItAcknowledged, ActivatedIsVerified, VerifiedFits,
            Short, history
<1>1. ASSUME NEW id \in Identifiers, NEW size \in Sizes, Initiate(id, size)
      PROVE  IndInv'
  <2>1. <<>> \in Seq(Blocks) /\ Len(<<>>) = 0
    OBVIOUS
  <2>2. TypeOK'
    BY <1>1, <2>1 DEF Initiate, TypeOK, Sizes, Statuses
  <2> QED
    BY <1>1, <2>1, <2>2 DEF Initiate
<1>2. ASSUME NEW block \in Blocks, TransferBlock(block) PROVE IndInv'
  <2>1. TypeOK'
    BY <1>2, AppendBlock DEF TransferBlock, TypeOK
  <2>2. HoldsWhatItAcknowledged'
    BY <1>2, AppendBlock DEF TransferBlock, TypeOK
  <2>3. status' = "Initiated"
    BY <1>2 DEF TransferBlock, Accepting
  <2> QED
    BY <2>1, <2>2, <2>3
<1>3. CASE Verify
  <2>1. TypeOK'
    BY <1>3 DEF Verify, TypeOK, Statuses
  <2>2. HoldsWhatItAcknowledged'
    BY <1>3 DEF Verify
  <2>3. ActivatedIsVerified' /\ VerifiedFits'
    BY <1>3 DEF Verify, TypeOK, Sizes
  <2> QED
    BY <2>1, <2>2, <2>3
<1>4. CASE Activate
  BY <1>4 DEF Activate, TypeOK, Statuses
<1>5. ASSUME NEW id \in Identifiers, SetIdentifier(id) PROVE IndInv'
  BY <1>5 DEF SetIdentifier, TypeOK
<1>6. ASSUME NEW size \in Sizes, SetSize(size) PROVE IndInv'
  BY <1>6 DEF SetSize, TypeOK
<1>7. CASE UNCHANGED vars
  BY <1>7 DEF vars, TypeOK
<1> QED
  BY <1>1, <1>2, <1>3, <1>4, <1>5, <1>6, <1>7 DEF Next

(***************************************************************************)
(* IndInv is an invariant of every execution.                              *)
(***************************************************************************)
THEOREM Inductive == Spec => []IndInv
BY Constructed, Preserved, PTL DEF Spec

(***************************************************************************)
(* Every field keeps its type, for any identifiers, blocks and sizes.      *)
(***************************************************************************)
THEOREM TypeCorrect == Spec => []TypeOK
<1>1. IndInv => TypeOK
  BY DEF IndInv
<1> QED
  BY <1>1, Inductive, PTL

(***************************************************************************)
(* The object holds exactly the blocks it acknowledged since the last      *)
(* initiate (initiate, transfer_block).                                    *)
(***************************************************************************)
THEOREM HoldsWhatItAcknowledgedHolds == Spec => []HoldsWhatItAcknowledged
<1>1. IndInv => HoldsWhatItAcknowledged
  BY DEF IndInv
<1> QED
  BY <1>1, Inductive, PTL

(***************************************************************************)
(* Verified or activated data is what verification saw (verify, activate). *)
(***************************************************************************)
THEOREM ActivatedIsVerifiedHolds == Spec => []ActivatedIsVerified
<1>1. IndInv => ActivatedIsVerified
  BY DEF IndInv
<1> QED
  BY <1>1, Inductive, PTL

(***************************************************************************)
(* A verification that failed is final (transfer_block refuses, verify     *)
(* compares the same sizes again, activate wants a successful one).        *)
(***************************************************************************)
THEOREM FailureIsFinalHolds == Spec => FailureIsFinal
<1> DEFINE Final == Stopped /\ Short /\ ~resized' /\ status' # "Initiated" =>
         status' \notin {"VerificationSuccessful", "ActivationSuccessful"}
           /\ imageData' = imageData
<1>1. IndInv /\ [Next]_vars => [Final]_vars
  <2> SUFFICES ASSUME IndInv, Next, Stopped, Short, ~resized', status' # "Initiated"
               PROVE  status' \notin {"VerificationSuccessful", "ActivationSuccessful"}
                        /\ imageData' = imageData
    OBVIOUS
  <2>1. ~resized \/ \E id \in Identifiers, size \in Sizes : Initiate(id, size)
    BY DEF Next, TransferBlock, Verify, Activate, SetIdentifier, SetSize, history
  <2>2. status \notin {"VerificationSuccessful", "ActivationSuccessful"}
    BY <2>1 DEF IndInv, VerifiedFits, Initiate
  <2>3. CASE Verify
    BY <2>3 DEF Verify, Short, IndInv, TypeOK, Sizes
  <2>4. CASE Activate
    BY <2>2, <2>4 DEF Activate
  <2>5. CASE \E id \in Identifiers : SetIdentifier(id)
    BY <2>2, <2>5 DEF SetIdentifier
  <2> QED
    BY <2>2, <2>3, <2>4, <2>5
       DEF Next, Initiate, TransferBlock, Accepting, Stopped, SetSize
<1> QED
  BY <1>1, Inductive, PTL DEF Spec, FailureIsFinal
===============================================================================
