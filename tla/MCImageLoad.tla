---------------------------- MODULE MCImageLoad ----------------------------
EXTENDS ImageLoad

Img(d, s) == [dst |-> d, size |-> s]

Boot  == Img(28, 3)
Optee == Img(16, 3)
Uboot == Img(24, 4)   \* up to the end of the DRAM

(* BL31 at every offset in a block, from one word of signed area to three
   blocks, and behind it OP-TEE, reached through the window or not. *)
Offsets ==
  {<<Boot, Img(d, s), Img(e, t), Uboot>> :
     d \in 0 .. 2, s \in 2 .. 9, e \in {12, 16}, t \in {3, 6}}

(* BL31 in RAM2, beside a boot block that is cleared all or in part. *)
InRam2 == {<<Boot, Img(32, 4), Optee, Uboot>>, <<Img(33, 4), Img(29, 3), Optee, Uboot>>}

(* Each image begins below its range, or ends one word behind it. *)
Outside ==
  {<<b, Img(0, 6), Optee, Uboot>> : b \in {Img(26, 3), Img(34, 4)}} \cup
  {<<Boot, Img(34, 4), Optee, Uboot>>, <<Boot, Img(0, 6), Img(26, 3), Uboot>>} \cup
  {<<Boot, Img(4, 6), Optee, u>> : u \in {Img(0, 2), Img(25, 4)}}

Devices == Offsets \cup InRam2 \cup Outside
=============================================================================
