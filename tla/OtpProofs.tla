----------------------------- MODULE OtpProofs -----------------------------
(***************************************************************************)
(* Proofs about Otp, for every set of manifests, every key and any number  *)
(* of power failures and of fuses that do not take.                        *)
(*                                                                         *)
(* The argument for the mask: the BMC task only ever writes over the first *)
(* copy in the buffer, and only makes the pulse in flight miss.  So the    *)
(* second and the third copy get nothing that was not asked for, and one   *)
(* disturbance spoils one copy; two of three decide.                       *)
(*                                                                         *)
(* The argument for the keys: a wrong bit changes the parity of all the    *)
(* data and of the check bits that cover it, whatever the word is.         *)
(***************************************************************************)
EXTENDS Otp, FiniteSetTheorems, TLAPS

Burning == pc \in {"byte", "read", "bit", "pulse"}

(* The mask is in the fuses of copy j as far as the burning has got, and what
   is about to happen to that copy is right. *)
Sound(j) ==
  /\ \A b \in kmt.mask :
       j < i \/ (j = i /\ pc \in {"bit", "pulse"} /\ b \notin todo) => b \in fustrap2[j]
  /\ j = 1 /\ i = 1 /\ pc = "byte" => encoded[1] = kmt.mask
  /\ j = i /\ pc = "read" => todo = kmt.mask
  /\ j = i /\ pc \in {"read", "pulse"} => addr = i

(* What the buffer and the bits to burn hold. *)
BufferInv ==
  /\ fustrap2[2] \subseteq asked /\ fustrap2[3] \subseteq asked
  /\ Burning => /\ kmt.mask \subseteq asked
                /\ encoded[2] = kmt.mask /\ encoded[3] = kmt.mask
                /\ pc # "byte" => i \in Copies
                /\ pc # "byte" /\ i # 1 => todo \subseteq kmt.mask

(* At most one copy is spoilt while there has been one disturbance at most. *)
CopyInv ==
  /\ pc \in {"patch", "table", "mask"} => slips = 0
  /\ Burning /\ slips <= 1 =>
       \E c \in Copies : \A j \in Copies : slips = 0 \/ j # c => Sound(j)
  /\ pc = "running" /\ slips <= 1 =>
       \E c \in Copies : \A j \in Copies \ {c} : kmt.mask \subseteq fustrap2[j]

IInv == TypeOK /\ BufferInv /\ CopyInv
----------------------------------------------------------------------------
(* The masks of the manifests, and the flag, are sets of keys. *)
LEMMA KeysOfManifests ==
  /\ \A m \in Manifests : m.mask \subseteq Keys
  /\ Junk \subseteq Keys
  <1>1. ASSUME NEW m \in Manifests, NEW k \in m.mask PROVE k \in Keys
    <2>1. m.mask \in {n.mask : n \in Manifests}
      OBVIOUS
    <2>2. QED
      BY <1>1, <2>1 DEF Keys
  <1>2. ASSUME NEW k \in Junk PROVE k \in Keys
    BY <1>2 DEF Keys
  <1>3. QED
    BY <1>1, <1>2

LEMMA TypeInit == Init => TypeOK
  BY OtpAssumption DEF Init, TypeOK, Zero, Encode, Copies, Off

LEMMA TypeStep == TypeOK /\ [Next]_vars => TypeOK'
  <1> SUFFICES ASSUME TypeOK, [Next]_vars PROVE TypeOK'
    OBVIOUS
  <1> USE OtpAssumption, KeysOfManifests DEF TypeOK, Copies, Off
  <1>fresh. ASSUME Fresh
            PROVE  /\ encoded' \in [Copies -> SUBSET Keys] /\ addr' \in 0..3
                   /\ i' = 1 /\ todo' = {} /\ count' = 2 /\ failed' = 0
                   /\ key' = <<>> /\ slips' = 0
    BY <1>fresh DEF Fresh, Zero, Encode
  <1>boot. ASSUME Boot, regs' \in {0, 1} PROVE TypeOK'
    BY <1>boot, <1>fresh DEF Boot, fuses
  <1>1. CASE PowerOn
    BY <1>1, <1>boot DEF PowerOn
  <1>2. CASE PowerFails
    BY <1>2, <1>fresh DEF PowerFails, fuses
  <1>3. CASE TipReset
    BY <1>3, <1>boot DEF TipReset
  <1>4. CASE SkipPatch
    BY <1>4 DEF SkipPatch, fuses
  <1>5. CASE StartPatch
    BY <1>5 DEF StartPatch, fuses, Written
  <1>6. CASE BurnPatch
    <2>1. /\ i' \in 1..(Bytes + 1) /\ pc' = "table" /\ pc = "table"
          /\ failed' \in {0, 1} /\ refused' \in 0..MaxRefused
      BY <1>6 DEF BurnPatch
    <2>2. i \in 1..Bytes
      BY <1>6 DEF BurnPatch
    <2>3. burnt' = burnt \union {i} \/ burnt' = burnt
      BY <1>6 DEF BurnPatch
    <2>4. burnt' \subseteq 1..Bytes
      BY <2>2, <2>3
    <2>5. QED
      BY <1>6, <2>1, <2>4 DEF BurnPatch
  <1>7. CASE PatchDone
    BY <1>7, <1>boot DEF PatchDone
  <1>8. CASE NextRound
    BY <1>8 DEF NextRound, LastRound, fuses
  <1>9. CASE NoMask \/ MaskDone
    BY <1>9 DEF NoMask, MaskDone, fuses
  <1>10. CASE RefuseMask
    BY <1>10, <1>boot DEF RefuseMask
  <1>11. CASE StartMask
    BY <1>11 DEF StartMask, Encode, fuses
  <1>12. CASE NextByte
    BY <1>12 DEF NextByte, Copies, fuses
  <1>19. CASE ReadByte
    <2>1. todo' \subseteq Keys /\ i \in Copies /\ i' \in {i, i + 1}
      BY <1>19 DEF ReadByte
    <2>2. pc' \in {"byte", "bit"} /\ (pc' = "bit" => i' = i)
      BY <1>19 DEF ReadByte
    <2>3. QED
      BY <1>19, <2>1, <2>2 DEF ReadByte, fuses
  <1>13. CASE SetAddress
    BY <1>13 DEF SetAddress, fuses
  <1>14. CASE Pulse
    <2>1. /\ todo' \subseteq Keys /\ refused' \in 0..MaxRefused
          /\ slips' \in 0..2
      BY <1>14 DEF Pulse, Slip
    <2>2. fustrap2' \in [Copies -> SUBSET Keys]
      BY <1>14 DEF Pulse
    <2>3. /\ pc' \in {"byte", "bit"} /\ i' \in 1..4
          /\ pc' = "bit" => i' \in Copies
      BY <1>14 DEF Pulse
    <2>4. QED
      BY <1>14, <2>1, <2>2, <2>3 DEF Pulse
  <1>15. CASE ReadAesFlag
    BY <1>15 DEF ReadAesFlag, Slip, fuses
  <1>16. CASE ReadKey \/ EraseKey
    BY <1>16 DEF ReadKey, EraseKey, fuses
  <1>17. CASE UNCHANGED vars
    BY <1>17 DEF vars
  <1>18. QED
    BY <1>1, <1>2, <1>3, <1>4, <1>5, <1>6, <1>7, <1>8, <1>9, <1>10, <1>11,
       <1>12, <1>13, <1>14, <1>15, <1>16, <1>17, <1>19 DEF Next, CerberusInit

(* Every variable keeps its type: the rounds of the patch never run below zero,
   however many fuses fail. *)
THEOREM TypeCorrect == Spec => []TypeOK
  BY TypeInit, TypeStep, PTL DEF Spec

----------------------------------------------------------------------------
LEMMA MaskInit == Init => BufferInv /\ CopyInv
  BY DEF Init, BufferInv, CopyInv, Burning, Zero, Encode, Copies, Off

(* What a boot and a failure of the power keep: the fuses and what was asked. *)
LEMMA MaskBoot ==
  ASSUME TypeOK, BufferInv, UNCHANGED <<fustrap2, asked>>,
         pc' \in {Off, "patch"}, slips' = 0
  PROVE  (BufferInv /\ CopyInv)'
  BY DEF BufferInv, CopyInv, Burning, Off

(* What the steps of the patch and of the keys keep. *)
LEMMA MaskElsewhere ==
  ASSUME TypeOK, BufferInv, CopyInv,
         UNCHANGED <<fustrap2, kmt, asked, slips>>,
         ~Burning, pc' = pc \/ (pc = "patch" /\ pc' \in {"table", "mask"})
                            \/ (pc = "table" /\ pc' = "mask")
                            \/ (pc = "mask" /\ pc' = "running" /\ kmt.mask = {})
  PROVE  (BufferInv /\ CopyInv)'
  <1>1. ~Burning' /\ BufferInv'
    BY DEF BufferInv, Burning
  <1>2. CopyInv'
    BY <1>1 DEF CopyInv, Burning, Copies
  <1>3. QED
    BY <1>1, <1>2

LEMMA BufferStep == TypeOK /\ BufferInv /\ CerberusInit /\ Burning => BufferInv'
  <1> SUFFICES ASSUME TypeOK, BufferInv, CerberusInit, Burning PROVE BufferInv'
    OBVIOUS
  <1>1. CASE NextByte \/ ReadByte
    BY <1>1 DEF NextByte, ReadByte, TypeOK, BufferInv, Burning, Copies, fuses
  <1>2. CASE SetAddress
    BY <1>2 DEF SetAddress, TypeOK, BufferInv, Burning, Copies, fuses
  <1>3. CASE Pulse
    <2> USE DEF TypeOK, Burning, Copies
    <2>1. /\ i \in Copies /\ kmt' = kmt /\ asked' = asked /\ encoded' = encoded
          /\ todo' \subseteq todo /\ pc' \in {"byte", "bit"}
          /\ pc' = "bit" => i' = i
      BY <1>3 DEF Pulse
    <2>2. ASSUME NEW j \in {2, 3} PROVE fustrap2'[j] \subseteq asked
      <3>1. CASE j # i
        BY <1>3, <3>1 DEF Pulse, BufferInv
      <3>2. CASE j = i
        <4>1. todo \subseteq asked
          BY <1>3, <3>2 DEF Pulse, BufferInv
        <4>2. QED
          BY <1>3, <4>1, <3>2 DEF Pulse, BufferInv
      <3>3. QED
        BY <3>1, <3>2
    <2>3. /\ fustrap2'[2] \subseteq asked' /\ fustrap2'[3] \subseteq asked'
          /\ kmt'.mask \subseteq asked'
          /\ encoded'[2] = kmt'.mask /\ encoded'[3] = kmt'.mask
      BY <2>1, <2>2, <1>3 DEF BufferInv
    <2>4. pc' # "byte" => /\ i' \in Copies
                          /\ i' # 1 => todo' \subseteq kmt'.mask
      <3>1. pc # "byte"
        BY <1>3 DEF Pulse
      <3>2. QED
        BY <2>1, <3>1 DEF BufferInv
    <2>5. QED
      BY <2>3, <2>4 DEF BufferInv
  <1>4. CASE MaskDone
    BY <1>4 DEF MaskDone, BufferInv, Burning, fuses
  <1>5. QED
    BY <1>1, <1>2, <1>3, <1>4 DEF CerberusInit, Burning, SkipPatch, StartPatch,
       BurnPatch, PatchDone, NextRound, NoMask, RefuseMask, StartMask

(* A step of the burning that takes keeps every copy sound that is sound. *)
LEMMA SoundStep ==
  ASSUME TypeOK, BufferInv, NEW j \in Copies, Sound(j), Burning,
         NextByte \/ ReadByte \/ SetAddress \/ (Pulse /\ slips' = slips /\ slips <= 1)
  PROVE  Sound(j)'
  <1> USE DEF TypeOK, Copies, Burning
  <1>1. CASE NextByte
    <2>1. j = i => encoded[j] = kmt.mask
      BY <1>1 DEF NextByte, Sound, BufferInv
    <2>2. QED
      BY <1>1, <2>1 DEF NextByte, Sound, fuses
  <1>5. CASE ReadByte
    <2>1. j = i => todo = kmt.mask /\ todo' = todo \ fustrap2[j]
      BY <1>5 DEF ReadByte, Sound
    <2>2. QED
      BY <1>5, <2>1 DEF ReadByte, Sound, fuses
  <1>2. CASE SetAddress
    BY <1>2 DEF SetAddress, Sound, fuses
  <1>3. CASE Pulse /\ slips' = slips /\ slips <= 1
    <2>1. PICK bit \in todo :
            /\ todo' = todo \ {bit}
            /\ fustrap2' = IF addr = i
                            THEN [fustrap2 EXCEPT ![i] = @ \union {bit}]
                            ELSE fustrap2
      BY <1>3 DEF Pulse, Slip
    <2>2. /\ kmt' = kmt /\ encoded' = encoded /\ addr' = addr
          /\ pc = "pulse" /\ i \in 1..3
          /\ \/ todo' = {} /\ pc' = "byte" /\ i' = i + 1
             \/ todo' # {} /\ pc' = "bit" /\ i' = i
      BY <1>3 DEF Pulse
    <2>3. fustrap2[j] \subseteq fustrap2'[j]
      BY <2>1
    <2>4. CASE j = i
      <3>1. fustrap2'[j] = fustrap2[j] \union {bit}
        BY <2>1, <2>2, <2>4 DEF Sound
      <3>2. \A b \in kmt.mask : b \notin todo' => b \in fustrap2'[j]
        BY <2>1, <2>2, <2>4, <3>1 DEF Sound
      <3>3. QED
        BY <2>2, <2>4, <3>2 DEF Sound
    <2>5. CASE j # i
      BY <2>2, <2>3, <2>5 DEF Sound
    <2>6. QED
      BY <2>4, <2>5
  <1>4. QED
    BY <1>1, <1>2, <1>3, <1>5

(* A disturbance spoils the copy that is burnt, and no other. *)
LEMMA SoundSlip ==
  ASSUME TypeOK, NEW j \in Copies, j # i, Sound(j), Burning,
         Pulse \/ ReadAesFlag
  PROVE  Sound(j)'
  <1> USE DEF TypeOK, Copies, Burning
  <1>1. CASE ReadAesFlag
    BY <1>1 DEF ReadAesFlag, Sound, fuses
  <1>2. CASE Pulse
    <2>1. /\ kmt' = kmt /\ pc = "pulse" /\ i \in 1..3
          /\ fustrap2'[j] = fustrap2[j]
          /\ \/ pc' = "byte" /\ i' = i + 1
             \/ pc' = "bit" /\ i' = i
      BY <1>2 DEF Pulse
    <2>2. QED
      BY <2>1 DEF Sound
  <1>3. QED
    BY <1>1, <1>2

LEMMA CopyStep ==
  TypeOK /\ BufferInv /\ CopyInv /\ Burning /\ (CerberusInit \/ ReadAesFlag)
    => CopyInv'
  <1> SUFFICES ASSUME TypeOK, BufferInv, CopyInv, Burning,
                      CerberusInit \/ ReadAesFlag
               PROVE  CopyInv'
    OBVIOUS
  <1>1. NextByte \/ ReadByte \/ SetAddress \/ Pulse \/ MaskDone \/ ReadAesFlag
    BY DEF CerberusInit, Burning, SkipPatch, StartPatch, BurnPatch, PatchDone,
       NextRound, NoMask, RefuseMask, StartMask
  <1>2. CASE MaskDone
    <2>1. /\ slips' = slips /\ kmt' = kmt /\ fustrap2' = fustrap2
          /\ i = 4 /\ pc' = "running" /\ i' = i
      BY <1>2 DEF MaskDone, fuses
    <2>2. ASSUME slips <= 1
          PROVE  \E c \in Copies :
                   \A j \in Copies \ {c} : kmt.mask \subseteq fustrap2[j]
      <3>1. PICK c \in Copies : \A j \in Copies : slips = 0 \/ j # c => Sound(j)
        BY <2>2 DEF CopyInv
      <3>2. ASSUME NEW j \in Copies \ {c} PROVE kmt.mask \subseteq fustrap2[j]
        BY <2>1, <3>1, <3>2 DEF Sound, Copies
      <3>3. QED
        BY <3>2
    <2>3. QED
      BY <2>1, <2>2 DEF CopyInv, Burning
  <1>3. CASE NextByte \/ ReadByte \/ SetAddress \/ Pulse \/ ReadAesFlag
    <2>1. Burning' /\ pc' \notin {"patch", "table", "mask", "running"}
      BY <1>3 DEF NextByte, ReadByte, SetAddress, Pulse, ReadAesFlag, Burning
    <2>2. SUFFICES ASSUME slips' <= 1
                   PROVE  \E c \in Copies : \A j \in Copies :
                            (slips = 0)' \/ j # c => Sound(j)'
      BY <2>1 DEF CopyInv
    <2>3. CASE slips' = slips
      <3>1. NextByte \/ ReadByte \/ SetAddress \/ (Pulse /\ slips' = slips /\ slips <= 1)
        BY <1>3, <2>2, <2>3 DEF ReadAesFlag, Slip, TypeOK
      <3>2. PICK c \in Copies : \A j \in Copies : slips = 0 \/ j # c => Sound(j)
        BY <2>2, <2>3 DEF CopyInv
      <3>3. ASSUME NEW j \in Copies, (slips = 0)' \/ j # c PROVE Sound(j)'
        <4>1. Sound(j)
          BY <2>3, <3>2, <3>3
        <4>2. QED
          BY <3>1, <4>1, SoundStep
      <3>4. QED
        BY <3>3
    <2>4. CASE slips' # slips
      <3>1. slips = 0 /\ slips' = 1 /\ (Pulse \/ ReadAesFlag)
        BY <1>3, <2>2, <2>4 DEF NextByte, ReadByte, SetAddress, Pulse, ReadAesFlag,
           Slip, TypeOK
      <3>2. \A j \in Copies : Sound(j)
        BY <3>1 DEF CopyInv
      <3>3. PICK c \in Copies : i \in Copies => c = i
        BY DEF Copies
      <3>4. ASSUME NEW j \in Copies, j # c PROVE Sound(j)'
        BY <3>1, <3>2, <3>3, <3>4, SoundSlip
      <3>5. QED
        BY <3>1, <3>4
    <2>5. QED
      BY <2>3, <2>4
  <1>4. QED
    BY <1>1, <1>2, <1>3

LEMMA StartStep ==
  ASSUME TypeOK, BufferInv, CopyInv, StartMask
  PROVE  (BufferInv /\ CopyInv)'
  <1>1. /\ pc' = "byte" /\ i' = 1 /\ kmt' = kmt /\ fustrap2' = fustrap2
        /\ slips' = 0 /\ asked' = asked \union kmt.mask
        /\ encoded' = Encode(kmt.mask)
    BY DEF StartMask, CopyInv, fuses
  <1>2. \A j \in Copies : encoded'[j] = kmt.mask
    BY <1>1 DEF Encode
  <1>3. BufferInv'
    BY <1>1, <1>2 DEF BufferInv, Burning, Copies
  <1>4. ASSUME NEW j \in Copies PROVE Sound(j)'
    BY <1>1, <1>2 DEF Sound, Copies
  <1>5. 1 \in Copies
    BY DEF Copies
  <1>6. CopyInv'
    BY <1>1, <1>4, <1>5 DEF CopyInv, Burning
  <1>7. QED
    BY <1>3, <1>6

LEMMA InvStep == IInv /\ [Next]_vars => IInv'
  <1> SUFFICES ASSUME IInv, [Next]_vars PROVE IInv'
    OBVIOUS
  <1>inv. TypeOK /\ BufferInv /\ CopyInv
    BY DEF IInv
  <1>type. TypeOK'
    BY <1>inv, TypeStep
  <1>1. CASE Boot \/ PowerFails
    <2>1. /\ UNCHANGED <<fustrap2, asked>> /\ pc' \in {Off, "patch"}
          /\ slips' = 0
      BY <1>1 DEF Boot, PowerFails, Fresh, fuses
    <2>2. QED
      BY <1>inv, <1>type, <2>1, MaskBoot DEF IInv
  <1>2. CASE StartMask
    BY <1>inv, <1>type, <1>2, StartStep DEF IInv
  <1>3. CASE Burning /\ (CerberusInit \/ ReadAesFlag)
    <2>1. BufferInv'
      <3>1. CASE ReadAesFlag
        BY <1>inv, <3>1 DEF ReadAesFlag, BufferInv, Burning, TypeOK, Copies, fuses
      <3>2. QED
        BY <1>3, <1>inv, <3>1, BufferStep
    <2>2. QED
      BY <1>3, <1>inv, <1>type, <2>1, CopyStep DEF IInv
  <1>4. CASE /\ ~Burning
             /\ SkipPatch \/ StartPatch \/ BurnPatch \/ NextRound \/ NoMask
                  \/ ((ReadKey \/ EraseKey) /\ UNCHANGED pc)
    <2>1. /\ UNCHANGED <<fustrap2, kmt, asked, slips>>
          /\ pc' = pc \/ (pc = "patch" /\ pc' \in {"table", "mask"})
                      \/ (pc = "table" /\ pc' = "mask")
                      \/ (pc = "mask" /\ pc' = "running" /\ kmt.mask = {})
      BY <1>4 DEF SkipPatch, StartPatch, BurnPatch, NextRound, NoMask, ReadKey,
         EraseKey, fuses
    <2>2. QED
      BY <1>4, <1>inv, <1>type, <2>1, MaskElsewhere DEF IInv
  <1>5. CASE ReadKey \/ EraseKey \/ UNCHANGED vars
    <2>1. /\ UNCHANGED <<fustrap2, kmt, asked, slips, encoded, addr, pc, i, todo>>
      BY <1>5 DEF ReadKey, EraseKey, vars, fuses
    <2>2. BufferInv' /\ CopyInv'
      BY <1>inv, <2>1 DEF BufferInv, CopyInv, Burning, Sound
    <2>3. QED
      BY <1>type, <2>2 DEF IInv
  <1>6. QED
    BY <1>1, <1>2, <1>3, <1>4, <1>5 DEF Next, CerberusInit, PowerOn, TipReset,
       PatchDone, RefuseMask, SkipPatch, StartPatch, BurnPatch, NextRound,
       NoMask, NextByte, ReadByte, SetAddress, Pulse, MaskDone, ReadAesFlag, Burning, Off

(* The majority of the three copies holds what two of them hold. *)
LEMMA MajorityOfTwo ==
  ASSUME NEW f \in [Copies -> SUBSET Keys], NEW S,
         NEW c \in Copies, \A j \in Copies \ {c} : S \subseteq f[j]
  PROVE  S \subseteq Majority(f)
  BY DEF Majority, Copies

(* No key is revoked that no manifest asked for, and one disturbance of the
   burning leaves all that was asked revoked: the second and third copy are
   out of the reach of what the BMC task reads. *)
THEOREM Revoked == Spec => []RevokedAsAsked
  <1>1. Init => IInv
    BY TypeInit, MaskInit DEF IInv
  <1>2. IInv => RevokedAsAsked
    <2> SUFFICES ASSUME IInv PROVE RevokedAsAsked
      OBVIOUS
    <2>1. Majority(fustrap2) \subseteq asked
      BY DEF IInv, BufferInv, Majority
    <2>2. ASSUME pc = "running", slips <= 1
          PROVE  kmt.mask \subseteq Majority(fustrap2)
      <3>1. PICK c \in Copies :
              \A j \in Copies \ {c} : kmt.mask \subseteq fustrap2[j]
        BY <2>2 DEF IInv, CopyInv
      <3>2. fustrap2 \in [Copies -> SUBSET Keys]
        BY DEF IInv, TypeOK
      <3>3. QED
        BY <3>1, <3>2, MajorityOfTwo
    <2>3. QED
      BY <2>1, <2>2 DEF RevokedAsAsked
  <1>3. QED
    BY <1>1, <1>2, InvStep, PTL DEF Spec

----------------------------------------------------------------------------
(* The code of the public keys.  A wrong bit of the data changes the parity of
   the data and of the check bits that cover it, no other; read as a number,
   those name its position. *)

LEMMA OddFlip ==
  ASSUME NEW S, IsFiniteSet(S), NEW x
  PROVE  Odd(SymDiff(S, {x})) <=> ~Odd(S)
  <1>1. Cardinality(S) \in Nat
    BY FS_CardinalityType
  <1>0. \A n \in Int : (n + 1) % 2 = 1 <=> n % 2 # 1
    OBVIOUS
  <1>2. CASE x \in S
    <2>1. SymDiff(S, {x}) = S \ {x}
      BY <1>2 DEF SymDiff
    <2>2. Cardinality(S \ {x}) = Cardinality(S) - 1
      BY <1>2, FS_RemoveElement
    <2>3. (Cardinality(S) - 1) % 2 = 1 <=> Cardinality(S) % 2 # 1
      BY <1>0, <1>1
    <2>4. QED
      BY <2>1, <2>2, <2>3 DEF Odd
  <1>3. CASE x \notin S
    <2>1. SymDiff(S, {x}) = S \union {x}
      BY <1>3 DEF SymDiff
    <2>2. Cardinality(S \union {x}) = Cardinality(S) + 1
      BY <1>3, FS_AddElement
    <2>3. (Cardinality(S) + 1) % 2 = 1 <=> Cardinality(S) % 2 # 1
      BY <1>0, <1>1
    <2>4. QED
      BY <2>1, <2>2, <2>3 DEF Odd
  <1>4. QED
    BY <1>2, <1>3

LEMMA FiniteData == ASSUME NEW S \in SUBSET (1..64) PROVE IsFiniteSet(S)
  <1>1. IsFiniteSet(1..64)
    BY FS_Interval, 1 \in Int, 64 \in Int
  <1>2. QED
    BY <1>1, FS_Subset

LEMMA CheckBitsFlip ==
  ASSUME NEW data \in SUBSET (1..64), NEW b \in 1..64
  PROVE  SymDiff(FUSE_get_CRC(SymDiff(data, {b})), FUSE_get_CRC(data))
           = Bits(Position[b]) \union {8}
  <1> DEFINE flipped == SymDiff(data, {b})
  <1>1. Odd(flipped) <=> ~Odd(data)
    BY FiniteData, OddFlip
  <1>2. ASSUME NEW c \in 1..7
        PROVE  (Odd(flipped \intersect Covered[c]) <=> Odd(data \intersect Covered[c]))
                 <=> c \notin Bits(Position[b])
    <2>1. b \in Covered[c] <=> c \in Bits(Position[b])
      BY DEF Covered
    <2>2. CASE b \in Covered[c]
      <3>1. flipped \intersect Covered[c] = SymDiff(data \intersect Covered[c], {b})
        BY <2>2 DEF SymDiff
      <3>2. IsFiniteSet(data \intersect Covered[c])
        BY FiniteData
      <3>3. QED
        BY <2>1, <2>2, <3>1, <3>2, OddFlip
    <2>3. CASE b \notin Covered[c]
      <3>1. flipped \intersect Covered[c] = data \intersect Covered[c]
        BY <2>3 DEF SymDiff
      <3>2. QED
        BY <2>1, <2>3, <3>1
    <2>4. QED
      BY <2>2, <2>3
  <1>3. ASSUME NEW c
        PROVE  c \in SymDiff(FUSE_get_CRC(flipped), FUSE_get_CRC(data))
                 <=> c \in Bits(Position[b]) \union {8}
    <2>1. CASE c = 8
      BY <1>1, <2>1 DEF SymDiff, FUSE_get_CRC
    <2>2. CASE c \in 1..7
      <3>1. c # 8
        BY <2>2
      <3>2. c \in FUSE_get_CRC(flipped) <=> Odd(flipped \intersect Covered[c])
        BY <2>2, <3>1 DEF FUSE_get_CRC
      <3>3. c \in FUSE_get_CRC(data) <=> Odd(data \intersect Covered[c])
        BY <2>2, <3>1 DEF FUSE_get_CRC
      <3>4. QED
        BY <1>2, <2>2, <3>1, <3>2, <3>3 DEF SymDiff
    <2>3. CASE c # 8 /\ c \notin 1..7
      BY <2>3 DEF SymDiff, FUSE_get_CRC, Bits
    <2>4. QED
      BY <2>1, <2>2, <2>3
  <1>4. QED
    BY <1>3

(* A number is the value of its bits. *)
LEMMA SyndromeOfBits ==
  ASSUME NEW p \in 1..127
  PROVE  Syndrome(Bits(p) \union {8}) = p /\ \E c \in 1..7 : c \in Bits(p)
  <1> DEFINE bit(w) == IF (p \div w) % 2 = 1 THEN w ELSE 0
  <1>1. bit(1) + bit(2) + bit(4) + bit(8) + bit(16) + bit(32) + bit(64) = p
    OBVIOUS
  <1>2. /\ Value(1, Bits(p) \union {8}) = bit(1)
        /\ Value(2, Bits(p) \union {8}) = bit(2)
        /\ Value(3, Bits(p) \union {8}) = bit(4)
        /\ Value(4, Bits(p) \union {8}) = bit(8)
        /\ Value(5, Bits(p) \union {8}) = bit(16)
        /\ Value(6, Bits(p) \union {8}) = bit(32)
        /\ Value(7, Bits(p) \union {8}) = bit(64)
    BY DEF Value, Bits, Weight
  <1>3. Syndrome(Bits(p) \union {8}) = p
    BY <1>1, <1>2 DEF Syndrome
  <1>4. \E c \in 1..7 : c \in Bits(p)
    BY <1>1 DEF Bits, Weight
  <1>5. QED
    BY <1>3, <1>4

(* The position of a data bit, less the check bits before it, is its number. *)
LEMMA ErrorBitOfPosition ==
  ASSUME NEW n \in 1..64
  PROVE  Position[n] \in 3..71 /\ ErrorBit(Position[n]) = n - 1
  <1>1. CASE n = 1
    <2>1. Position[n] = n + 2 /\ (n + 2) - 1 = n + 1
      BY <1>1 DEF Position
    <2>2. /\ Skip(n + 1, 64) = n + 1  /\ Skip(n + 1, 32) = n + 1
          /\ Skip(n + 1, 16) = n + 1  /\ Skip(n + 1, 8) = n + 1
          /\ Skip(n + 1, 4) = n + 1  /\ Skip(n + 1, 2) = n
          /\ Skip(n, 1) = n - 1
      BY <1>1 DEF Skip
    <2>3. QED
      BY <1>1, <2>1, <2>2 DEF ErrorBit, Skipped
  <1>2. CASE n \in 2..4
    <2>1. Position[n] = n + 3 /\ (n + 3) - 1 = n + 2
      BY <1>2 DEF Position
    <2>2. /\ Skip(n + 2, 64) = n + 2  /\ Skip(n + 2, 32) = n + 2
          /\ Skip(n + 2, 16) = n + 2  /\ Skip(n + 2, 8) = n + 2
          /\ Skip(n + 2, 4) = n + 1  /\ Skip(n + 1, 2) = n
          /\ Skip(n, 1) = n - 1
      BY <1>2 DEF Skip
    <2>3. QED
      BY <1>2, <2>1, <2>2 DEF ErrorBit, Skipped
  <1>3. CASE n \in 5..11
    <2>1. Position[n] = n + 4 /\ (n + 4) - 1 = n + 3
      BY <1>3 DEF Position
    <2>2. /\ Skip(n + 3, 64) = n + 3  /\ Skip(n + 3, 32) = n + 3
          /\ Skip(n + 3, 16) = n + 3  /\ Skip(n + 3, 8) = n + 2
          /\ Skip(n + 2, 4) = n + 1  /\ Skip(n + 1, 2) = n
          /\ Skip(n, 1) = n - 1
      BY <1>3 DEF Skip
    <2>3. QED
      BY <1>3, <2>1, <2>2 DEF ErrorBit, Skipped
  <1>4. CASE n \in 12..26
    <2>1. Position[n] = n + 5 /\ (n + 5) - 1 = n + 4
      BY <1>4 DEF Position
    <2>2. /\ Skip(n + 4, 64) = n + 4  /\ Skip(n + 4, 32) = n + 4
          /\ Skip(n + 4, 16) = n + 3  /\ Skip(n + 3, 8) = n + 2
          /\ Skip(n + 2, 4) = n + 1  /\ Skip(n + 1, 2) = n
          /\ Skip(n, 1) = n - 1
      BY <1>4 DEF Skip
    <2>3. QED
      BY <1>4, <2>1, <2>2 DEF ErrorBit, Skipped
  <1>5. CASE n \in 27..57
    <2>1. Position[n] = n + 6 /\ (n + 6) - 1 = n + 5
      BY <1>5 DEF Position
    <2>2. /\ Skip(n + 5, 64) = n + 5  /\ Skip(n + 5, 32) = n + 4
          /\ Skip(n + 4, 16) = n + 3  /\ Skip(n + 3, 8) = n + 2
          /\ Skip(n + 2, 4) = n + 1  /\ Skip(n + 1, 2) = n
          /\ Skip(n, 1) = n - 1
      BY <1>5 DEF Skip
    <2>3. QED
      BY <1>5, <2>1, <2>2 DEF ErrorBit, Skipped
  <1>6. CASE n \in 58..64
    <2>1. Position[n] = n + 7 /\ (n + 7) - 1 = n + 6
      BY <1>6 DEF Position
    <2>2. /\ Skip(n + 6, 64) = n + 5  /\ Skip(n + 5, 32) = n + 4
          /\ Skip(n + 4, 16) = n + 3  /\ Skip(n + 3, 8) = n + 2
          /\ Skip(n + 2, 4) = n + 1  /\ Skip(n + 1, 2) = n
          /\ Skip(n, 1) = n - 1
      BY <1>6 DEF Skip
    <2>3. QED
      BY <1>6, <2>1, <2>2 DEF ErrorBit, Skipped
  <1>7. QED
    BY <1>1, <1>2, <1>3, <1>4, <1>5, <1>6

LEMMA TwoBitsAtLeast ==
  ASSUME NEW S \in SUBSET (1..8), NEW c \in S, NEW d \in S, c # d
  PROVE  ~(Cardinality(S) <= 1)
  <1>1. IsFiniteSet(1..8)
    BY FS_Interval, 1 \in Int, 8 \in Int
  <1>2. IsFiniteSet(S)
    BY <1>1, FS_Subset
  <1>3. Cardinality(S) \in Nat /\ Cardinality(S) # 0 /\ Cardinality(S) # 1
    BY <1>2, FS_CardinalityType, FS_EmptySet, FS_Singleton
  <1>4. QED
    BY <1>3

LEMMA OneWrongBit ==
  ASSUME NEW b \in 1..72
  PROVE  Fused({b}) = <<Word, "ok">>
  <1> USE OtpAssumption
  <1>1. CASE b \in 1..64
    <2> DEFINE data  == SymDiff(Word, {b})
               error == SymDiff(FUSE_get_CRC(data), FUSE_get_CRC(Word))
    <2>1. Fused({b}) = Decode(data, FUSE_get_CRC(Word))
      <3>1. {b} \intersect (1..64) = {b} /\ {b} \ (1..64) = {}
        BY <1>1
      <3>2. {a - 64 : a \in {b} \ (1..64)} = {}
        BY <3>1
      <3>3. SymDiff(FUSE_get_CRC(Word), {}) = FUSE_get_CRC(Word)
        BY DEF SymDiff
      <3>4. QED
        BY <3>1, <3>2, <3>3 DEF Fused
    <2>2. error = Bits(Position[b]) \union {8}
      BY <1>1, CheckBitsFlip
    <2> HIDE DEF error, data
    <2>3. Position[b] \in 1..127 /\ ErrorBit(Position[b]) = b - 1
      BY <1>1, ErrorBitOfPosition
    <2>4. PICK c \in 1..7 : c \in Bits(Position[b])
      BY <2>3, SyndromeOfBits
    <2>5. Syndrome(error) = Position[b]
      BY <2>2, <2>3, SyndromeOfBits
    <2>6. error \in SUBSET (1..8) /\ c \in error /\ 8 \in error /\ c # 8
      BY <2>2, <2>4 DEF Bits
    <2>7. ~(Cardinality(error) <= 1)
      BY <2>6, TwoBitsAtLeast
    <2>8. SymDiff(data, {ErrorBit(Syndrome(error)) + 1} \intersect (1..64)) = Word
      <3>1. ErrorBit(Syndrome(error)) + 1 = b
        BY <1>1, <2>3, <2>5
      <3>2. SymDiff(data, {b}) = Word
        BY DEF SymDiff, data
      <3>3. {b} \intersect (1..64) = {b}
        BY <1>1
      <3>4. QED
        BY <3>1, <3>2, <3>3
    <2>9. QED
      BY <2>1, <2>6, <2>7, <2>8 DEF Decode, error
  <1>2. CASE b \in 65..72
    <2> DEFINE crc == SymDiff(FUSE_get_CRC(Word), {b - 64})
    <2>1. Fused({b}) = Decode(Word, crc)
      <3>1. {b} \intersect (1..64) = {} /\ {b} \ (1..64) = {b}
        BY <1>2
      <3>2. {a - 64 : a \in {b} \ (1..64)} = {b - 64}
        BY <3>1
      <3>3. SymDiff(Word, {}) = Word
        BY DEF SymDiff
      <3>4. QED
        BY <3>1, <3>2, <3>3 DEF Fused
    <2>2. SymDiff(FUSE_get_CRC(Word), crc) = {b - 64}
      BY DEF SymDiff
    <2>3. Cardinality({b - 64}) = 1
      BY FS_Singleton
    <2> HIDE DEF crc
    <2>4. Decode(Word, crc) = <<Word, "ok">>
      <3>1. Cardinality(SymDiff(FUSE_get_CRC(Word), crc)) <= 1
        BY <2>2, <2>3
      <3>2. QED
        BY <3>1, Zenon DEF Decode
    <2>5. QED
      BY <2>1, <2>4
  <1>3. QED
    BY <1>1, <1>2

LEMMA NoWrongBit == Fused({}) = <<Word, "ok">>
  <1>1. SymDiff(Word, {} \intersect (1..64)) = Word
    BY DEF SymDiff
  <1>2. SymDiff(FUSE_get_CRC(Word), {b - 64 : b \in {} \ (1..64)}) = FUSE_get_CRC(Word)
    BY DEF SymDiff
  <1>3. SymDiff(FUSE_get_CRC(Word), FUSE_get_CRC(Word)) = {}
    BY DEF SymDiff
  <1>4. Cardinality({}) = 0
    BY FS_EmptySet
  <1>5. Fused({}) = Decode(Word, FUSE_get_CRC(Word))
    BY <1>1, <1>2 DEF Fused
  <1>6. Decode(Word, FUSE_get_CRC(Word)) = <<Word, "ok">>
    <2>1. Cardinality(SymDiff(FUSE_get_CRC(Word), FUSE_get_CRC(Word))) <= 1
      BY <1>3, <1>4
    <2>2. QED
      BY <2>1, Zenon DEF Decode
  <1>7. QED
    BY <1>5, <1>6

(* Every word reads as it was burnt, whichever of its 72 bits reads wrong, as
   long as it is one at most: the syndrome names the right bit, or a check bit
   only.  With two wrong bits this fails (run fuse_double). *)
THEOREM KeysRead == MaxWrong <= 1 => (Spec => []KeyReadable)
  <1> SUFFICES ASSUME MaxWrong <= 1 PROVE Spec => []KeyReadable
    OBVIOUS
  <1>1. TypeOK => KeyReadable
    <2>1. ASSUME NEW f \in [1..MaxWrong -> 0..72]
          PROVE  Fused(Range(f) \ {0}) = <<Word, "ok">>
      <3>1. MaxWrong \in {0, 1}
        BY OtpAssumption
      <3>2. Range(f) \ {0} = {} \/ \E b \in 1..72 : Range(f) \ {0} = {b}
        <4>1. CASE MaxWrong = 0
          <5>1. 1..MaxWrong = {}
            BY <4>1
          <5>2. QED
            BY <5>1 DEF Range
        <4>2. CASE MaxWrong = 1
          <5>1. 1..MaxWrong = {1}
            BY <4>2
          <5>2. Range(f) = {f[1]} /\ f[1] \in 0..72
            BY <5>1 DEF Range
          <5>3. CASE f[1] = 0
            BY <5>2, <5>3
          <5>4. CASE f[1] # 0
            <6>1. f[1] \in 1..72 /\ Range(f) \ {0} = {f[1]}
              BY <5>2, <5>4
            <6>2. QED
              BY <6>1
          <5>5. QED
            BY <5>3, <5>4
        <4>3. QED
          BY <3>1, <4>1, <4>2
      <3>3. QED
        BY <3>2, NoWrongBit, OneWrongBit
    <2>2. QED
      BY <2>1 DEF TypeOK, Reads, KeyReadable
  <1>2. QED
    BY <1>1, TypeCorrect, PTL
=============================================================================
