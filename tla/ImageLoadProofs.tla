-------------------------- MODULE ImageLoadProofs --------------------------
(* Proofs about ImageLoad: for blocks, headers and images of any size, at    *)
(* any place that LoadAssumption allows, provided that images do not overlap *)
(* (Apart) and that no signature of another kind is taken to follow an image *)
(* that is seen through the window (NoFooter).                               *)
(*                                                                           *)
(* The argument is one of addresses.  In every turn of a loop the window     *)
(* shows the block of the next word: for the copy the word at dst + count    *)
(* (CopyInv), for the hash the one behind the words hashed so far (HashInv). *)
(* The first turn has it because an address is the start of its block and an *)
(* offset (Split), each later one because the turn before ended at the end   *)
(* of a block, or was the last.                                              *)
EXTENDS ImageLoad, SequenceTheorems, TLAPS

NoFooter == FooterRead = {FALSE}

Apart ==
  \A l \in Layouts : \A i, j \in 1 .. 4 :
    i # j => \/ l[i].dst + l[i].size <= l[j].dst
             \/ l[j].dst + l[j].size <= l[i].dst

(* The first n words of image i are in their place. *)
Placed(i, n) ==
  \A a \in images[i].dst .. images[i].dst + n - 1 : mem[a] = <<i, a - images[i].dst>>

Holds(i) == Placed(i, images[i].size)

FirstBlock == Image.dst \div Block

(* A verified image is in place but for what was cleared of the boot block. *)
Kept(i) ==
  \A a \in Extent(i) :
    \/ mem[a] = <<i, a - images[i].dst>>
    \/ /\ Types[i] = "bootblock" /\ img > 1 /\ images[2].dst >= Ram2
       /\ a \in Ram2Cleared /\ mem[a] = Zero

StateInv ==
  /\ pc # "copyFooter" /\ digest \in Seq(Nat \X Nat)
  /\ pc \notin {"hashBlocks", "authenticate", "refused"} => digest = <<>>

(* From the check of its range on, an image is in its range. *)
RangeInv ==
  /\ pc \notin {"load", "refused"} => InRange(img)
  /\ pc = "refused" => fault \/ ~InRange(img)
  /\ pc = "clear" => ClearsRam2(img)

(* It is an image before this one, or this one. *)
GoodInv ==
  \A i \in good : /\ Kept(i) /\ InRange(i)
                  /\ i < img \/ (i = img /\ pc \in {"table", "running"})

CopyInv ==
  pc \in {"clear", "copy"} =>
    /\ pc = "clear" => job.count = 0
    /\ job.src = 0 /\ job.dst = Image.dst /\ job.size = Image.size
    /\ job.first = FirstBlock
    /\ job.count <= job.size /\ job.offset < Block
    /\ job.count < job.size => job.block * Block + job.offset = Image.dst + job.count
    /\ Placed(img, job.count)

LoadedInv ==
  pc \in {"loaded", "hash", "hashBlocks", "authenticate", "table"} =>
    /\ Holds(img)
    /\ Windowed /\ pc # "hashBlocks" => win = FirstBlock

HashInv ==
  /\ pc = "hashBlocks" =>
       /\ Windowed /\ job.first = FirstBlock /\ Len(digest) <= SignedLen
       /\ Len(digest) < SignedLen =>
            job.block * Block = Image.dst + Unsigned + Len(digest)
  /\ pc = "authenticate" => Len(digest) = SignedLen
  /\ \A k \in 1 .. Len(digest) : digest[k] = <<img, Unsigned + k - 1>>

IInv == TypeOK /\ StateInv /\ RangeInv /\ GoodInv /\ CopyInv /\ LoadedInv /\ HashInv
-----------------------------------------------------------------------------
LEMMA Sizes ==
  /\ Block \in Nat \ {0} /\ Unsigned \in Nat \ {0} /\ Footer \in Nat \ {0}
  /\ {WindowTop, UbootMin, Flash, Ram2, ClearEnd, Top} \subseteq Nat
  /\ UbootMin <= Flash /\ Flash <= Ram2 /\ Ram2 <= ClearEnd /\ ClearEnd <= Top
  BY LoadAssumption

LEMMA BlockSize == Block \in Nat /\ Block > 0
  BY LoadAssumption

LEMMA FourTypes ==
  /\ Len(Types) = 4
  /\ Types[1] = "bootblock" /\ Types[2] = "bl31" /\ Types[3] = "optee" /\ Types[4] = "uboot"
  BY DEF Types

(* An address is the start of its block and the offset in it. *)
LEMMA Split ==
  ASSUME NEW a \in Nat
  PROVE  /\ a \div Block \in Nat /\ a % Block \in Nat /\ a % Block < Block
         /\ (a \div Block) * Block + (a % Block) = a
         /\ a < Block => a % Block = a
  BY LoadAssumption

(* The next block begins where this one ends. *)
LEMMA NextBlock ==
  ASSUME NEW b \in Nat PROVE (b + 1) * Block = b * Block + Block
  BY LoadAssumption

(* What LoadAssumption says of an image of the layout. *)
LEMMA Images ==
  ASSUME images \in Layouts, NEW i \in 1 .. 4
  PROVE  /\ images[i].dst \in Nat /\ images[i].size \in Nat
         /\ images[i].size > Unsigned
         /\ (images[i].dst % Block) + Unsigned < Block
  <1>1. images \in [1 .. 4 -> [dst : Nat, size : Nat]]
    BY LoadAssumption
  <1>2. images[i] \in [dst : Nat, size : Nat]
    BY <1>1
  <1>3. QED
    BY <1>2, LoadAssumption

(* The range of a type lies in memory ... *)
LEMMA Ranges ==
  ASSUME NEW i \in 1 .. 4
  PROVE  /\ AddrMin(i) \in Nat /\ AddrMax(i) \in Nat
         /\ AddrMin(i) <= AddrMax(i) /\ AddrMax(i) <= Top + 1
  BY Sizes, FourTypes DEF AddrMin, AddrMax

(* ... and the checks keep an image in it, all of it. *)
LEMMA RangeChecked ==
  ASSUME images \in Layouts, NEW i \in 1 .. 4
  PROVE  /\ InRange(i) <=> Extent(i) \subseteq Place(i)
         /\ InRange(i) => images[i].dst + images[i].size <= Top + 1
  <1> DEFINE d == images[i].dst
             n == images[i].size
             lo == AddrMin(i)
             hi == AddrMax(i)
  <1>1. d \in Nat /\ n \in Nat /\ n > 0 /\ lo \in Nat /\ hi \in Nat /\ lo <= hi /\ hi <= Top + 1
    BY Images, Ranges, Sizes
  <1>2. /\ InRange(i) <=> (n <= hi - lo /\ d >= lo /\ d <= hi - n)
        /\ Extent(i) = d .. d + n - 1 /\ Place(i) = lo .. hi - 1
    BY DEF InRange, Extent, Place
  <1> HIDE DEF d, n, lo, hi
  <1>3. InRange(i) => d + n <= hi /\ d >= lo
    BY <1>1, <1>2
  <1>4. ASSUME d .. d + n - 1 \subseteq lo .. hi - 1 PROVE n <= hi - lo /\ d >= lo /\ d <= hi - n
    <2>1. d \in d .. d + n - 1 /\ d + n - 1 \in d .. d + n - 1
      BY <1>1
    <2>2. d \in lo .. hi - 1 /\ d + n - 1 \in lo .. hi - 1
      BY <1>4, <2>1
    <2>3. QED
      BY <1>1, <2>2
  <1>5. ASSUME d + n <= hi, d >= lo PROVE d .. d + n - 1 \subseteq lo .. hi - 1
    BY <1>1, <1>5
  <1>6. QED
    <2>1. d + n <= hi => d + n <= Top + 1
      BY <1>1, Sizes
    <2>2. QED
      BY <1>2, <1>3, <1>4, <1>5, <2>1 DEF d, n

(* A copy of n words of this image to their place changes those words only. *)
LEMMA WrittenInPlace ==
  ASSUME TypeOK, InRange(img),
         NEW c \in Nat, NEW n \in Nat, c + n <= Image.size, Placed(img, c),
         mem' = Written(Image.dst + c, n, c), UNCHANGED <<images, img>>
  PROVE  /\ mem' \in [Address -> (1 .. 4) \X Nat \cup {Junk, Zero}]
         /\ \A a \in Image.dst .. Image.dst + (c + n) - 1 : mem'[a] = <<img, a - Image.dst>>
         /\ \A a \in Address : mem'[a] # mem[a] => a \in Extent(img)
         /\ Apart => \A i \in 1 .. 4 : i # img /\ InRange(i) =>
                       \A a \in Extent(i) : mem'[a] = mem[a]
  <1> DEFINE d == Image.dst
             size == Image.size
             new == d + c .. d + c + n - 1
             Contents == (1 .. 4) \X Nat \cup {Junk, Zero}
  <1>1. d \in Nat /\ size \in Nat /\ c + n <= size /\ d + size <= Top + 1
    BY Images, RangeChecked DEF TypeOK, Image
  <1>2. /\ images' = images /\ img' = img /\ img \in 1 .. 4
        /\ d = images[img].dst /\ size = images[img].size
    BY Images DEF TypeOK, Image
  <1>3. mem \in [Address -> Contents]
    BY DEF TypeOK
  <1> HIDE DEF d, size
  <1>4. mem' = [x \in Address |-> IF x \in new THEN <<img, c + x - (d + c)>> ELSE mem[x]]
    BY DEF Written, d
  <1>5. \A x \in Address : c + x - (d + c) = x - d
    BY <1>1, Sizes DEF Address
  <1>6. \A a \in Address : mem'[a] = IF a \in new THEN <<img, a - d>> ELSE mem[a]
    BY <1>4, <1>5
  <1>7. \A a \in new : a \in Address /\ a - d \in Nat /\ a \in d .. d + size - 1
    BY <1>1, Sizes DEF Address
  <1>8. mem' \in [Address -> Contents]
    <2>1. \A a \in Address : mem'[a] \in Contents
      <3> SUFFICES ASSUME NEW a \in Address PROVE mem'[a] \in Contents
        OBVIOUS
      <3>1. CASE a \in new
        <4>1. mem'[a] = <<img, a - d>>
          BY <1>6, <3>1
        <4>2. a - d \in Nat /\ img \in 1 .. 4
          BY <1>2, <1>7, <3>1
        <4>3. <<img, a - d>> \in (1 .. 4) \X Nat
          BY <4>2
        <4>4. QED
          BY <4>1, <4>3
      <3>2. CASE a \notin new
        BY <1>3, <1>6, <3>2
      <3>3. QED
        BY <3>1, <3>2
    <2>2. QED
      BY <1>4, <2>1
  <1>9. \A a \in d .. d + (c + n) - 1 : mem'[a] = <<img, a - d>>
    <2> SUFFICES ASSUME NEW a \in d .. d + (c + n) - 1 PROVE mem'[a] = <<img, a - d>>
      OBVIOUS
    <2>1. a \in Address /\ (a \in new \/ a \in d .. d + c - 1)
      BY <1>1, Sizes DEF Address
    <2>2. CASE a \in new
      BY <1>6, <2>1, <2>2
    <2>3. CASE a \notin new
      BY <1>2, <1>6, <2>1, <2>3 DEF Placed
    <2>4. QED
      BY <2>2, <2>3
  <1>10. \A a \in Address : mem'[a] # mem[a] => a \in Extent(img)
    BY <1>2, <1>6, <1>7 DEF Extent
  <1>11. ASSUME Apart, NEW i \in 1 .. 4, i # img, InRange(i)
         PROVE  \A a \in Extent(i) : mem'[a] = mem[a]
    <2> DEFINE di == images[i].dst
               si == images[i].size
    <2>1. di \in Nat /\ si \in Nat /\ di + si <= Top + 1
      BY <1>11, Images, RangeChecked DEF TypeOK
    <2>2. di + si <= d \/ d + size <= di
      BY <1>2, <1>11 DEF Apart, TypeOK
    <2> HIDE DEF di, si
    <2>3. \A a \in di .. di + si - 1 : a \in Address /\ a \notin new
      BY <1>1, <2>1, <2>2, Sizes DEF Address
    <2>4. QED
      BY <1>6, <2>3 DEF Extent, di, si
  <1>12. QED
    BY <1>8, <1>9, <1>10, <1>11 DEF d
-----------------------------------------------------------------------------
(* Of the image being loaded. *)
LEMMA Current ==
  ASSUME images \in Layouts, img \in 1 .. 4
  PROVE  /\ Image.dst \in Nat /\ Image.size \in Nat /\ Windowed \in BOOLEAN
         /\ SignedLen \in Nat \ {0} /\ Image.size = SignedLen + Unsigned
         /\ FirstBlock \in Nat /\ HeaderOffset \in Nat
         /\ FirstBlock * Block + HeaderOffset = Image.dst
         /\ HeaderOffset < Block /\ HeaderOffset + Unsigned < Block
         /\ (HeaderOffset + Unsigned) % Block = HeaderOffset + Unsigned
  <1>1. /\ Image.dst \in Nat /\ Image.size \in Nat /\ Windowed \in BOOLEAN
        /\ Image.size > Unsigned /\ HeaderOffset + Unsigned < Block
    BY Images DEF Image, HeaderOffset, Windowed
  <1>2. SignedLen \in Nat \ {0} /\ Image.size = SignedLen + Unsigned
    BY <1>1, Sizes DEF SignedLen
  <1>3. /\ FirstBlock \in Nat /\ HeaderOffset \in Nat
        /\ FirstBlock * Block + HeaderOffset = Image.dst
    BY <1>1, Split DEF FirstBlock, HeaderOffset
  <1>4. (HeaderOffset + Unsigned) % Block = HeaderOffset + Unsigned
    <2>1. HeaderOffset + Unsigned \in Nat
      BY <1>3, Sizes
    <2>2. QED
      BY <1>1, <2>1, Split
  <1>5. HeaderOffset < Block
    BY <1>1, <1>3, Sizes
  <1>6. QED
    BY <1>1, <1>2, <1>3, <1>4, <1>5

LEMMA SignedLength == images \in Layouts /\ img \in 1 .. 4 => SignedLen \in Nat
  BY Current

THEOREM InvInit == NoFooter /\ Init => IInv
  <1> SUFFICES ASSUME Init PROVE IInv
    OBVIOUS
  <1>1. img \in 1 .. 4
    BY DEF Init
  <1>2. <<>> \in Seq(Nat \X Nat) /\ Len(<<>>) = 0
    BY EmptySeq
  <1>3. SignedLen \in Nat
    BY <1>1, Current DEF Init
  <1>4. TypeOK
    <2>1. mem \in [Address -> (1 .. 4) \X Nat \cup {Junk, Zero}]
      BY DEF Init
    <2>2. job \in [src : Nat, dst : Nat, size : Nat, first : Nat, block : Nat,
                   offset : Nat, count : Nat]
      BY DEF Init, NoJob
    <2>3. Len(digest) <= SignedLen
      BY <1>2, <1>3 DEF Init
    <2>4. QED
      BY <1>1, <2>1, <2>2, <2>3 DEF Init, TypeOK
  <1>5. QED
    BY <1>2, <1>4 DEF Init, IInv, StateInv, RangeInv, GoodInv, CopyInv, LoadedInv, HashInv

(* Steps that neither write to memory nor add to what was verified. *)
LEMMA MemoryKept ==
  ASSUME IInv, UNCHANGED <<images, mem, img, good>>,
         pc' \in {"table", "running"} \/ pc \notin {"table", "running"}
  PROVE  /\ GoodInv' /\ Image' = Image /\ FirstBlock' = FirstBlock
         /\ SignedLen' = SignedLen /\ Windowed' = Windowed
         /\ \A i : Holds(i)' <=> Holds(i)
         /\ \A i : (InRange(i)' <=> InRange(i)) /\ (ClearsRam2(i)' <=> ClearsRam2(i))
  <1>1. \A i : (Kept(i)' <=> Kept(i)) /\ (InRange(i)' <=> InRange(i))
    BY DEF Kept, InRange, Extent
  <1>2. GoodInv'
    BY <1>1 DEF IInv, GoodInv
  <1>3. QED
    BY <1>1, <1>2 DEF Holds, Placed, Image, FirstBlock, SignedLen, Windowed, ClearsRam2

(* What was in range stays so while the image is loaded. *)
LEMMA RangeKept ==
  ASSUME RangeInv, UNCHANGED <<images, img>>, pc \notin {"load", "refused"},
         pc' # "clear", pc' = "refused" => fault'
  PROVE  RangeInv'
  BY DEF RangeInv, InRange

(* An image out of range is not loaded. *)
LEMMA OutOfRangeStep == ASSUME IInv, OutOfRange PROVE IInv'
  <1>1. /\ pc = "load" /\ pc' = "refused" /\ ~InRange(img)
        /\ UNCHANGED <<images, mem, win, img, job, digest, good, fault>>
    BY DEF OutOfRange
  <1>2. GoodInv' /\ SignedLen' = SignedLen
    BY <1>1, MemoryKept
  <1>3. TypeOK'
    BY <1>1, <1>2 DEF IInv, TypeOK
  <1>4. RangeInv'
    BY <1>1 DEF RangeInv, InRange
  <1>5. StateInv' /\ CopyInv' /\ LoadedInv' /\ HashInv'
    BY <1>1 DEF IInv, StateInv, CopyInv, LoadedInv, HashInv
  <1>6. QED
    BY <1>2, <1>3, <1>4, <1>5 DEF IInv

(* A copy is set up. *)
LEMMA LoadStep == ASSUME IInv, Load PROVE IInv'
  <1>0. /\ pc = "load" /\ pc' \in {"clear", "copy"} /\ InRange(img)
        /\ pc' = "clear" => ClearsRam2(img)
        /\ job' = Job(0, Image.dst, Image.size)
        /\ UNCHANGED <<images, mem, win, img, digest, good, fault>>
    BY DEF Load
  <1>1. GoodInv' /\ Image' = Image /\ FirstBlock' = FirstBlock /\ SignedLen' = SignedLen
    BY <1>0, MemoryKept
  <1>2. /\ Image.dst \in Nat /\ Image.size \in Nat /\ FirstBlock \in Nat
        /\ FirstBlock * Block + HeaderOffset = Image.dst
        /\ HeaderOffset \in Nat /\ HeaderOffset < Block
    BY Current DEF IInv, TypeOK
  <1>3. job' = [src |-> 0, dst |-> Image.dst, size |-> Image.size, first |-> FirstBlock,
                block |-> FirstBlock, offset |-> HeaderOffset, count |-> 0]
    BY <1>0 DEF Job, FirstBlock, HeaderOffset
  <1>4. TypeOK'
    BY <1>0, <1>1, <1>2, <1>3 DEF IInv, TypeOK
  <1>5. CopyInv'
    <2>1. Placed(img, 0)'
      BY <1>0, <1>2 DEF Placed, Image
    <2>2. QED
      BY <1>0, <1>1, <1>2, <1>3, <2>1 DEF CopyInv
  <1>6. RangeInv'
    BY <1>0 DEF RangeInv, InRange, ClearsRam2
  <1>7. StateInv' /\ LoadedInv' /\ HashInv'
    BY <1>0 DEF IInv, StateInv, LoadedInv, HashInv
  <1>8. QED
    BY <1>1, <1>4, <1>5, <1>6, <1>7 DEF IInv

(* RAM2 is cleared for BL31: of what was verified this can only be the boot
   block, and nothing of BL31 is copied yet. *)
LEMMA ClearRam2Step ==
  ASSUME IInv, ClearRam2
  PROVE  /\ IInv'
         /\ img = 2 /\ images[2].dst >= Ram2
         /\ \A a \in Address : mem'[a] # mem[a] => a \in Ram2Cleared
  <1>1. /\ pc = "clear" /\ pc' = "copy" /\ InRange(img) /\ ClearsRam2(img)
        /\ mem' = [a \in Address |-> IF a \in Ram2Cleared THEN Zero ELSE mem[a]]
        /\ UNCHANGED <<images, win, img, job, digest, good, fault>>
    BY DEF ClearRam2, IInv, RangeInv, Ram2Cleared
  <1>2. img = 2 /\ images[2].dst >= Ram2
    BY <1>1, FourTypes DEF ClearsRam2, IInv, TypeOK
  <1>3. \A a \in Address : mem'[a] = IF a \in Ram2Cleared THEN Zero ELSE mem[a]
    BY <1>1
  <1>4. /\ Image' = Image /\ FirstBlock' = FirstBlock /\ SignedLen' = SignedLen
        /\ \A i : InRange(i)' <=> InRange(i)
    BY <1>1 DEF Image, FirstBlock, SignedLen, InRange
  <1>5. TypeOK'
    <2>1. mem' \in [Address -> (1 .. 4) \X Nat \cup {Junk, Zero}]
      BY <1>1 DEF IInv, TypeOK
    <2>2. QED
      BY <1>1, <1>4, <2>1 DEF IInv, TypeOK
  <1>6. GoodInv'
    <2> SUFFICES ASSUME NEW i \in good PROVE Kept(i)' /\ InRange(i)' /\ i < img
      BY <1>1 DEF GoodInv
    <2>1. Kept(i) /\ InRange(i) /\ i < img /\ i \in 1 .. 4
      BY <1>1 DEF IInv, GoodInv, TypeOK
    <2>2. i = 1 /\ Types[i] = "bootblock"
      BY <1>2, <2>1, FourTypes
    <2>3. Extent(i) \subseteq Address
      <3>1. images[i].dst \in Nat /\ images[i].size \in Nat
        BY <2>1, Images DEF IInv, TypeOK
      <3>2. images[i].dst + images[i].size <= Top + 1
        BY <2>1, RangeChecked DEF IInv, TypeOK
      <3>3. QED
        BY <3>1, <3>2, Sizes DEF Extent, Address
    <2>4. Kept(i)'
      <3> SUFFICES ASSUME NEW a \in Extent(i)
                   PROVE  \/ mem'[a] = <<i, a - images[i].dst>>
                          \/ a \in Ram2Cleared /\ mem'[a] = Zero
        BY <1>1, <1>2, <2>2 DEF Kept, Extent, Ram2Cleared
      <3>1. mem'[a] = IF a \in Ram2Cleared THEN Zero ELSE mem[a]
        BY <1>3, <2>3
      <3>2. QED
        BY <2>1, <3>1 DEF Kept
    <2>5. QED
      BY <1>4, <2>1, <2>4
  <1>7. CopyInv'
    <2>1. job.count = 0 /\ Image.dst \in Nat
      BY <1>1, Current DEF IInv, CopyInv, TypeOK
    <2>2. Placed(img, job.count)'
      BY <1>1, <2>1 DEF Placed, Image
    <2>3. QED
      BY <1>1, <1>4, <2>2 DEF IInv, CopyInv
  <1>8. RangeInv'
    BY <1>1, RangeKept DEF IInv
  <1>9. StateInv' /\ LoadedInv' /\ HashInv'
    BY <1>1 DEF IInv, StateInv, LoadedInv, HashInv
  <1>10. QED
    BY <1>2, <1>3, <1>5, <1>6, <1>7, <1>8, <1>9 DEF IInv

(* A copy that leaves the places of the other images alone keeps them. *)
LEMMA OthersKept ==
  ASSUME TypeOK, GoodInv, pc \notin {"table", "running"}, UNCHANGED <<images, img, good>>,
         \A i \in 1 .. 4 : i # img /\ InRange(i) => \A a \in Extent(i) : mem'[a] = mem[a]
  PROVE  GoodInv'
  <1> SUFFICES ASSUME NEW i \in good PROVE Kept(i)' /\ InRange(i)' /\ i < img
    BY DEF GoodInv
  <1>1. Kept(i) /\ InRange(i) /\ i < img /\ i \in 1 .. 4 /\ img \in 1 .. 4
    BY DEF GoodInv, TypeOK
  <1>2. \A a \in Extent(i) : mem'[a] = mem[a]
    BY <1>1
  <1>3. QED
    BY <1>1, <1>2 DEF Kept, Extent, InRange

(* A turn of the loop of tip_memcpy copies the next words, up to the end of
   the image or of the block that the window shows. *)
LEMMA CopyBlockStep ==
  ASSUME IInv, Apart, CopyBlock
  PROVE  IInv' /\ \A a \in Address : mem'[a] # mem[a] => a \in Extent(img)
  <1> DEFINE n == BlockEnd(job) - job.offset
             left == job.size - job.count
  <1>1. /\ pc = "copy" /\ job.src = 0 /\ job.dst = Image.dst /\ job.size = Image.size
        /\ job.first = FirstBlock /\ job.count < job.size /\ job.offset < Block
        /\ job.block * Block + job.offset = Image.dst + job.count
        /\ Placed(img, job.count) /\ digest = <<>>
    BY DEF CopyBlock, IInv, CopyInv, StateInv
  <1>2. /\ job.size \in Nat /\ job.count \in Nat /\ job.offset \in Nat
        /\ job.block \in Nat /\ job.first \in Nat /\ job.src \in Nat /\ job.dst \in Nat
    BY DEF IInv, TypeOK
  <1>3. n \in Nat /\ n <= left /\ (n = left \/ n = Block - job.offset)
    BY <1>1, <1>2, BlockSize DEF BlockEnd, Lesser
  <1>4. /\ UNCHANGED <<images, img, pc, digest, good, fault>>
        /\ win' = job.block
        /\ mem' = Written(job.block * Block + job.offset, n, job.src + job.count)
        /\ job' = [job EXCEPT !.count = @ + n, !.offset = 0, !.block = @ + 1]
    BY DEF CopyBlock
  <1>5. job.src + job.count = job.count
    BY <1>1, <1>2
  <1>6. mem' = Written(Image.dst + job.count, n, job.count)
    BY <1>1, <1>4, <1>5
  <1> HIDE DEF n
  <1>7. job.count + n <= Image.size
    BY <1>1, <1>2, <1>3
  <1>8. /\ job' \in [src : Nat, dst : Nat, size : Nat, first : Nat, block : Nat,
                     offset : Nat, count : Nat]
        /\ job'.src = job.src /\ job'.dst = job.dst /\ job'.size = job.size
        /\ job'.first = job.first /\ job'.block = job.block + 1
        /\ job'.offset = 0 /\ job'.count = job.count + n
    <2>1. job \in [src : Nat, dst : Nat, size : Nat, first : Nat, block : Nat,
                   offset : Nat, count : Nat]
      BY DEF IInv, TypeOK
    <2>2. job.count + n \in Nat /\ job.block + 1 \in Nat
      BY <1>2, <1>3
    <2>3. QED
      BY <1>4, <2>1, <2>2
  <1>9. /\ mem' \in [Address -> (1 .. 4) \X Nat \cup {Junk, Zero}]
        /\ \A a \in Image.dst .. Image.dst + (job.count + n) - 1 :
             mem'[a] = <<img, a - Image.dst>>
        /\ \A a \in Address : mem'[a] # mem[a] => a \in Extent(img)
        /\ \A i \in 1 .. 4 : i # img /\ InRange(i) =>
             \A a \in Extent(i) : mem'[a] = mem[a]
    <2>1. TypeOK /\ InRange(img) /\ Placed(img, job.count) /\ UNCHANGED <<images, img>>
      BY <1>1, <1>4 DEF IInv, RangeInv
    <2>2. job.count \in Nat /\ n \in Nat
      BY <1>2, <1>3
    <2>3. QED
      BY <1>6, <1>7, <2>1, <2>2, WrittenInPlace
  <1>10. Image' = Image /\ FirstBlock' = FirstBlock /\ SignedLen' = SignedLen
        /\ Windowed' = Windowed
    BY <1>4 DEF Image, FirstBlock, SignedLen, Windowed
  <1>11. TypeOK'
    BY <1>2, <1>4, <1>8, <1>9, <1>10 DEF IInv, TypeOK
  <1>12. GoodInv' /\ RangeInv'
    BY <1>1, <1>4, <1>9, OthersKept, RangeKept DEF IInv
  <1>13. CopyInv'
    <2>1. job'.count < job'.size =>
            job'.block * Block + job'.offset = Image.dst + job'.count
      <3> SUFFICES ASSUME job'.count < job'.size
                   PROVE  (job.block + 1) * Block + 0 = Image.dst + (job.count + n)
        BY <1>8
      <3>1. n = Block - job.offset
        BY <1>2, <1>3, <1>8
      <3>2. (job.block + 1) * Block = job.block * Block + Block
        BY <1>2, NextBlock
      <3>3. Image.dst \in Nat
        BY Current DEF IInv, TypeOK
      <3>4. Block \in Nat /\ job.block * Block \in Nat
        BY <1>2, BlockSize
      <3>5. job.block * Block + job.offset = Image.dst + job.count
        BY <1>1
      <3>6. job.offset \in Nat /\ job.count \in Nat
        BY <1>2
      <3>7. QED
        BY <3>1, <3>2, <3>3, <3>4, <3>5, <3>6
    <2>2. Placed(img, job.count)'
      BY <1>4, <1>8, <1>9 DEF Placed, Image
    <2>3. QED
      BY <1>1, <1>2, <1>3, <1>4, <1>7, <1>8, <1>10, <2>1, <2>2, BlockSize DEF CopyInv
  <1>14. StateInv' /\ LoadedInv' /\ HashInv'
    BY <1>1, <1>4, <1>10 DEF IInv, StateInv, LoadedInv, HashInv
  <1>15. QED
    BY <1>9, <1>11, <1>12, <1>13, <1>14 DEF IInv

(* The copy is complete: the image is in place, the window back at its start. *)
LEMMA CopiedStep == ASSUME IInv, Copied PROVE IInv'
  <1>1. pc = "copy" /\ pc' = "loaded"
    BY DEF Copied, IInv, StateInv
  <1>2. GoodInv' /\ Image' = Image /\ FirstBlock' = FirstBlock /\ SignedLen' = SignedLen
        /\ Windowed' = Windowed
        /\ \A i : Holds(i)' <=> Holds(i)
    BY <1>1, MemoryKept DEF Copied
  <1>3. Holds(img) /\ win' = FirstBlock /\ job.first \in Nat
    <2>1. job.count = Image.size
      BY <1>1 DEF Copied, IInv, CopyInv, TypeOK
    <2>2. Placed(img, job.count) /\ job.first = FirstBlock
      BY <1>1 DEF IInv, CopyInv
    <2>3. QED
      BY <2>1, <2>2 DEF Copied, IInv, Holds, TypeOK, Image
  <1>4. TypeOK'
    BY <1>1, <1>2, <1>3 DEF Copied, IInv, TypeOK, NoJob
  <1>5. LoadedInv'
    BY <1>1, <1>2, <1>3 DEF Copied, LoadedInv
  <1>6. StateInv' /\ CopyInv' /\ HashInv'
    BY <1>1 DEF Copied, IInv, StateInv, CopyInv, HashInv
  <1>7. RangeInv'
    BY <1>1, RangeKept DEF Copied, IInv
  <1>8. QED
    BY <1>2, <1>4, <1>5, <1>6, <1>7 DEF IInv

(* An image that needs no window is copied at once. *)
LEMMA CopyDirectStep ==
  ASSUME IInv, Apart, CopyDirect
  PROVE  IInv' /\ \A a \in Address : mem'[a] # mem[a] => a \in Extent(img)
  <1>1. /\ pc = "copy" /\ pc' = "loaded" /\ ~Windowed
        /\ job.src = 0 /\ job.dst = Image.dst /\ job.size = Image.size
        /\ mem' = Written(job.dst, job.size, job.src) /\ job' = NoJob
        /\ UNCHANGED <<images, win, img, digest, good, fault>>
    BY DEF CopyDirect, IInv, StateInv, CopyInv
  <1>2. Image.size \in Nat /\ Image.dst \in Nat
    BY Current DEF IInv, TypeOK
  <1>3. Placed(img, 0) /\ 0 + Image.size = Image.size /\ Image.dst + 0 = Image.dst
    BY <1>2 DEF Placed, Image
  <1>4. mem' = Written(Image.dst + 0, Image.size, 0) /\ 0 + Image.size <= Image.size
    BY <1>1, <1>2, <1>3
  <1>5. /\ mem' \in [Address -> (1 .. 4) \X Nat \cup {Junk, Zero}]
        /\ \A a \in Image.dst .. Image.dst + (0 + Image.size) - 1 :
             mem'[a] = <<img, a - Image.dst>>
        /\ \A a \in Address : mem'[a] # mem[a] => a \in Extent(img)
        /\ \A i \in 1 .. 4 : i # img /\ InRange(i) =>
             \A a \in Extent(i) : mem'[a] = mem[a]
    <2>1. TypeOK /\ InRange(img) /\ 0 \in Nat /\ UNCHANGED <<images, img>>
      BY <1>1 DEF IInv, RangeInv
    <2>2. QED
      BY <1>2, <1>3, <1>4, <2>1, WrittenInPlace
  <1>6. Image' = Image /\ SignedLen' = SignedLen /\ Windowed' = Windowed
    BY <1>1 DEF Image, SignedLen, Windowed
  <1>7. Holds(img)'
    BY <1>1, <1>2, <1>3, <1>5 DEF Holds, Placed, Image
  <1>8. TypeOK'
    BY <1>1, <1>5, <1>6 DEF IInv, TypeOK, NoJob
  <1>9. GoodInv' /\ RangeInv'
    BY <1>1, <1>5, OthersKept, RangeKept DEF IInv
  <1>10. StateInv' /\ CopyInv' /\ LoadedInv' /\ HashInv'
    BY <1>1, <1>6, <1>7 DEF IInv, StateInv, CopyInv, LoadedInv, HashInv
  <1>11. QED
    BY <1>5, <1>8, <1>9, <1>10 DEF IInv

(* The signature of an image that has none is not looked for. *)
LEMMA LoadFooterStep == ASSUME IInv, NoFooter, LoadFooter PROVE IInv'
  <1>1. /\ pc = "loaded" /\ pc' = "hash"
        /\ UNCHANGED <<images, mem, win, img, job, digest, good, fault>>
    BY DEF LoadFooter, NoFooter
  <1>2. GoodInv' /\ Image' = Image /\ FirstBlock' = FirstBlock /\ SignedLen' = SignedLen
        /\ Windowed' = Windowed
        /\ \A i : Holds(i)' <=> Holds(i)
    BY <1>1, MemoryKept
  <1>3. TypeOK' /\ StateInv' /\ CopyInv' /\ LoadedInv' /\ HashInv'
    BY <1>1, <1>2 DEF IInv, TypeOK, StateInv, CopyInv, LoadedInv, HashInv
  <1>4. RangeInv'
    BY <1>1, RangeKept DEF IInv
  <1>5. QED
    BY <1>2, <1>3, <1>4 DEF IInv
-----------------------------------------------------------------------------
(* The n signed words behind the first c, read from memory. *)
LEMMA SignedWords ==
  ASSUME TypeOK, Holds(img), NEW c \in Nat, NEW n \in Nat, c + n <= SignedLen
  PROVE  LET w == Words(Image.dst + Unsigned + c, n) IN
         /\ w \in Seq(Nat \X Nat) /\ Len(w) = n
         /\ \A k \in 1 .. n : w[k] = <<img, Unsigned + c + k - 1>>
  <1> DEFINE d == Image.dst
             w == Words(d + Unsigned + c, n)
             size == Image.size
  <1>1. d \in Nat /\ size = SignedLen + Unsigned /\ SignedLen \in Nat /\ img \in Nat
    BY Current DEF TypeOK
  <1>2. \A a \in d .. d + size - 1 : mem[a] = <<img, a - d>>
    BY DEF Holds, Placed, Image
  <1>3. w = [k \in 1 .. n |-> mem[d + Unsigned + c + k - 1]]
    BY DEF Words
  <1> HIDE DEF d, w, size
  <1>4. \A k \in 1 .. n : /\ d + Unsigned + c + k - 1 \in d .. d + size - 1
                          /\ d + Unsigned + c + k - 1 - d = Unsigned + c + k - 1
                          /\ Unsigned + c + k - 1 \in Nat
    BY <1>1, Sizes
  <1>5. \A k \in 1 .. n : w[k] = <<img, Unsigned + c + k - 1>>
    <2> SUFFICES ASSUME NEW k \in 1 .. n PROVE w[k] = <<img, Unsigned + c + k - 1>>
      OBVIOUS
    <2> DEFINE a == d + Unsigned + c + k - 1
    <2>1. w[k] = mem[a]
      BY <1>3
    <2>2. a \in d .. d + size - 1 /\ a - d = Unsigned + c + k - 1
      BY <1>1, Sizes
    <2> HIDE DEF a
    <2>3. mem[a] = <<img, a - d>>
      BY <1>2, <2>2
    <2>4. QED
      BY <2>1, <2>2, <2>3
  <1>6. \A k \in 1 .. n : w[k] \in Nat \X Nat
    <2> SUFFICES ASSUME NEW k \in 1 .. n PROVE w[k] \in Nat \X Nat
      OBVIOUS
    <2>1. <<img, Unsigned + c + k - 1>> \in Nat \X Nat
      BY <1>1, <1>4
    <2>2. QED
      BY <1>5, <2>1
  <1>7. w \in Seq(Nat \X Nat) /\ Len(w) = n
    BY <1>3, <1>6, IsASeq, LenProperties
  <1>8. QED
    BY <1>5, <1>7 DEF w, d

(* The first update of the hash ends with the block that the window shows, or
   with the image. *)
LEMMA HashStartStep == ASSUME IInv, HashStart PROVE IInv'
  <1>1. /\ pc = "hash" /\ pc' = "hashBlocks" /\ Windowed
        /\ UNCHANGED <<images, mem, win, img, good, fault>>
        /\ job' = [NoJob EXCEPT !.first = win, !.block = win + 1]
        /\ digest' = Words(win * Block + HeaderOffset + Unsigned, FirstSize)
    BY DEF HashStart
  <1>2. win = FirstBlock /\ Holds(img) /\ TypeOK
    BY <1>1 DEF IInv, LoadedInv
  <1>3. GoodInv' /\ Image' = Image /\ FirstBlock' = FirstBlock /\ SignedLen' = SignedLen
        /\ Windowed' = Windowed
        /\ \A i : Holds(i)' <=> Holds(i)
    BY <1>1, MemoryKept
  <1>4. /\ Image.dst \in Nat /\ SignedLen \in Nat /\ FirstBlock \in Nat
        /\ HeaderOffset \in Nat /\ HeaderOffset + Unsigned < Block
        /\ FirstBlock * Block + HeaderOffset = Image.dst
        /\ (HeaderOffset + Unsigned) % Block = HeaderOffset + Unsigned
    BY <1>2, Current DEF TypeOK
  <1>5. /\ FirstSize \in Nat /\ FirstSize <= SignedLen
        /\ FirstSize = SignedLen \/ FirstSize = Block - (HeaderOffset + Unsigned)
    BY <1>4, Sizes DEF FirstSize, Lesser
  <1>6. digest' = Words(Image.dst + Unsigned + 0, FirstSize)
    <2>1. win * Block + HeaderOffset + Unsigned = Image.dst + Unsigned + 0
      BY <1>2, <1>4, Sizes
    <2>2. QED
      BY <1>1, <2>1
  <1>7. /\ digest' \in Seq(Nat \X Nat) /\ Len(digest') = FirstSize
        /\ \A k \in 1 .. FirstSize : digest'[k] = <<img, Unsigned + k - 1>>
    <2>1. 0 + FirstSize <= SignedLen /\ Unsigned + 0 = Unsigned
      BY <1>4, <1>5, Sizes
    <2>2. QED
      BY <1>2, <1>5, <1>6, <2>1, SignedWords
  <1>8. /\ job' \in [src : Nat, dst : Nat, size : Nat, first : Nat, block : Nat,
                     offset : Nat, count : Nat]
        /\ job'.first = FirstBlock /\ job'.block = FirstBlock + 1
    <2>1. job' = [src |-> 0, dst |-> 0, size |-> 0, first |-> FirstBlock,
                  block |-> FirstBlock + 1, offset |-> 0, count |-> 0]
      BY <1>1, <1>2 DEF NoJob
    <2>2. FirstBlock + 1 \in Nat
      BY <1>4
    <2>3. QED
      BY <1>4, <2>1, <2>2
  <1>9. Len(digest') < SignedLen => job'.block * Block = Image.dst + Unsigned + Len(digest')
    <2> SUFFICES ASSUME FirstSize < SignedLen
                 PROVE  (FirstBlock + 1) * Block = Image.dst + Unsigned + FirstSize
      BY <1>7, <1>8
    <2>1. FirstSize = Block - (HeaderOffset + Unsigned)
      BY <1>4, <1>5
    <2>2. (FirstBlock + 1) * Block = FirstBlock * Block + Block /\ FirstBlock * Block \in Nat
      BY <1>4, NextBlock, Sizes
    <2>3. QED
      BY <1>4, <2>1, <2>2, Sizes
  <1>10. TypeOK'
    BY <1>1, <1>3, <1>5, <1>7, <1>8 DEF IInv, TypeOK
  <1>11. HashInv'
    BY <1>1, <1>3, <1>5, <1>7, <1>8, <1>9 DEF HashInv
  <1>12. StateInv' /\ RangeInv' /\ CopyInv' /\ LoadedInv'
    BY <1>1, <1>2, <1>3, <1>7, RangeKept DEF IInv, StateInv, CopyInv, LoadedInv
  <1>13. QED
    BY <1>3, <1>10, <1>11, <1>12 DEF IInv

(* Each later one takes the next block, or what is left of the image. *)
LEMMA HashBlockStep == ASSUME IInv, HashBlock PROVE IInv'
  <1> DEFINE c == Len(digest)
             n == Lesser(Block, SignedLen - c)
             w == Words(Image.dst + Unsigned + c, n)
  <1>1. /\ pc = "hashBlocks" /\ c < SignedLen
        /\ UNCHANGED <<images, mem, img, pc, good, fault>>
        /\ win' = job.block /\ job' = [job EXCEPT !.block = @ + 1]
        /\ digest' = digest \o Words(job.block * Block, n)
    BY DEF HashBlock
  <1>2. /\ TypeOK /\ Holds(img) /\ Windowed /\ job.first = FirstBlock
        /\ job.block * Block = Image.dst + Unsigned + c
        /\ digest \in Seq(Nat \X Nat)
        /\ \A k \in 1 .. c : digest[k] = <<img, Unsigned + k - 1>>
    BY <1>1 DEF IInv, StateInv, LoadedInv, HashInv
  <1>3. GoodInv' /\ Image' = Image /\ FirstBlock' = FirstBlock /\ SignedLen' = SignedLen
        /\ Windowed' = Windowed
        /\ \A i : Holds(i)' <=> Holds(i)
    BY <1>1, MemoryKept
  <1>4. c \in Nat /\ SignedLen \in Nat /\ Image.dst \in Nat /\ job.block \in Nat
    BY <1>2, Current, LenProperties DEF TypeOK
  <1>5. n \in Nat /\ c + n <= SignedLen /\ (c + n = SignedLen \/ n = Block)
    <2>0. c < SignedLen /\ c \in Nat /\ SignedLen \in Nat
      BY <1>1, <1>4
    <2> HIDE DEF c
    <2>1. SignedLen - c \in Nat /\ c + (SignedLen - c) = SignedLen
      BY <2>0
    <2>2. n \in Nat /\ n <= SignedLen - c /\ (n = SignedLen - c \/ n = Block)
      BY <2>1, Sizes DEF Lesser
    <2> HIDE DEF n
    <2>3. QED
      BY <1>4, <2>1, <2>2
  <1>6. digest' = digest \o w
    BY <1>1, <1>2
  <1> HIDE DEF c, n
  <1>7. /\ w \in Seq(Nat \X Nat) /\ Len(w) = n
        /\ \A k \in 1 .. n : w[k] = <<img, Unsigned + c + k - 1>>
    BY <1>2, <1>4, <1>5, SignedWords
  <1> HIDE DEF w
  <1>8. /\ digest' \in Seq(Nat \X Nat) /\ Len(digest') = c + n
        /\ \A k \in 1 .. c + n : digest'[k] = IF k <= c THEN digest[k] ELSE w[k - c]
    BY <1>2, <1>6, <1>7, ConcatProperties DEF c
  <1>9. \A k \in 1 .. c + n : digest'[k] = <<img, Unsigned + k - 1>>
    <2> SUFFICES ASSUME NEW k \in 1 .. c + n PROVE digest'[k] = <<img, Unsigned + k - 1>>
      OBVIOUS
    <2>1. CASE k <= c
      <3>1. k \in 1 .. c
        BY <1>4, <1>5, <2>1
      <3>2. QED
        BY <1>2, <1>8, <2>1, <3>1
    <2>2. CASE ~(k <= c)
      <3>1. k - c \in 1 .. n /\ Unsigned + c + (k - c) - 1 = Unsigned + k - 1
        BY <1>4, <1>5, <2>2, Sizes
      <3>2. QED
        BY <1>7, <1>8, <2>2, <3>1
    <2>3. QED
      BY <2>1, <2>2
  <1>10. /\ job' \in [src : Nat, dst : Nat, size : Nat, first : Nat, block : Nat,
                      offset : Nat, count : Nat]
         /\ job'.first = FirstBlock /\ job'.block = job.block + 1
    <2>1. job \in [src : Nat, dst : Nat, size : Nat, first : Nat, block : Nat,
                   offset : Nat, count : Nat]
      BY <1>2 DEF TypeOK
    <2>2. job.block + 1 \in Nat
      BY <1>4
    <2>3. QED
      BY <1>1, <1>2, <2>1, <2>2
  <1>11. Len(digest') < SignedLen => job'.block * Block = Image.dst + Unsigned + Len(digest')
    <2> SUFFICES ASSUME c + n < SignedLen
                 PROVE  (job.block + 1) * Block = Image.dst + Unsigned + (c + n)
      BY <1>8, <1>10
    <2>1. n = Block
      BY <1>4, <1>5
    <2>2. (job.block + 1) * Block = job.block * Block + Block
      BY <1>4, NextBlock
    <2>3. job.block * Block = Image.dst + Unsigned + c
      BY <1>2
    <2>4. QED
      BY <1>4, <2>1, <2>2, <2>3, Sizes
  <1>12. TypeOK'
    BY <1>1, <1>2, <1>3, <1>4, <1>5, <1>8, <1>10 DEF TypeOK
  <1>13. HashInv'
    BY <1>1, <1>2, <1>3, <1>5, <1>8, <1>9, <1>10, <1>11 DEF HashInv
  <1>14. StateInv' /\ RangeInv' /\ CopyInv' /\ LoadedInv'
    BY <1>1, <1>2, <1>3, <1>8, RangeKept DEF IInv, StateInv, CopyInv, LoadedInv
  <1>15. QED
    BY <1>3, <1>12, <1>13, <1>14 DEF IInv

(* The hash is complete, the window back at the header. *)
LEMMA HashEndStep == ASSUME IInv, HashEnd PROVE IInv'
  <1>1. /\ pc = "hashBlocks" /\ pc' = "authenticate" /\ win' = job.first
        /\ Len(digest) >= SignedLen /\ UNCHANGED <<images, mem, img, job, digest, good, fault>>
    BY DEF HashEnd
  <1>2. GoodInv' /\ Image' = Image /\ FirstBlock' = FirstBlock /\ SignedLen' = SignedLen
        /\ Windowed' = Windowed
        /\ \A i : Holds(i)' <=> Holds(i)
    BY <1>1, MemoryKept
  <1>3. SignedLen \in Nat /\ Len(digest) \in Nat
    BY Current, LenProperties DEF IInv, TypeOK, StateInv
  <1>4. job.first = FirstBlock /\ Holds(img) /\ Len(digest) = SignedLen
    BY <1>1, <1>3 DEF IInv, HashInv, LoadedInv
  <1>5. TypeOK'
    BY <1>1, <1>2 DEF IInv, TypeOK
  <1>6. HashInv'
    BY <1>1, <1>2, <1>4 DEF IInv, HashInv
  <1>7. StateInv' /\ RangeInv' /\ CopyInv' /\ LoadedInv'
    BY <1>1, <1>2, <1>4, RangeKept DEF IInv, StateInv, CopyInv, LoadedInv
  <1>8. QED
    BY <1>2, <1>5, <1>6, <1>7 DEF IInv

(* Without a window the hash takes one update. *)
LEMMA HashDirectStep == ASSUME IInv, HashDirect PROVE IInv'
  <1>1. /\ pc = "hash" /\ pc' = "authenticate" /\ ~Windowed
        /\ digest' = Words(Image.dst + Unsigned, SignedLen)
        /\ UNCHANGED <<images, mem, win, img, job, good, fault>>
    BY DEF HashDirect
  <1>2. GoodInv' /\ Image' = Image /\ FirstBlock' = FirstBlock /\ SignedLen' = SignedLen
        /\ Windowed' = Windowed
        /\ \A i : Holds(i)' <=> Holds(i)
    BY <1>1, MemoryKept
  <1>3. TypeOK /\ Holds(img) /\ SignedLen \in Nat /\ Image.dst \in Nat
    BY <1>1, Current DEF IInv, TypeOK, LoadedInv
  <1>4. /\ digest' \in Seq(Nat \X Nat) /\ Len(digest') = SignedLen
        /\ \A k \in 1 .. SignedLen : digest'[k] = <<img, Unsigned + k - 1>>
    <2>1. /\ Image.dst + Unsigned + 0 = Image.dst + Unsigned /\ Unsigned + 0 = Unsigned
          /\ 0 \in Nat /\ 0 + SignedLen <= SignedLen
      BY <1>3, Sizes
    <2>2. QED
      BY <1>1, <1>3, <2>1, SignedWords
  <1>5. TypeOK'
    BY <1>1, <1>2, <1>3, <1>4 DEF TypeOK
  <1>6. StateInv' /\ RangeInv' /\ CopyInv' /\ LoadedInv' /\ HashInv'
    BY <1>1, <1>2, <1>3, <1>4, RangeKept DEF IInv, StateInv, CopyInv, LoadedInv, HashInv
  <1>7. QED
    BY <1>2, <1>5, <1>6 DEF IInv

(* A fault of the engine ends the load. *)
LEMMA HashFailsStep == ASSUME IInv, HashFails \/ FinishFails PROVE IInv'
  <1>1. /\ pc \in {"hash", "hashBlocks"} /\ pc' = "refused" /\ fault' = TRUE
        /\ win' \in {job.first, win} /\ digest' \in {<<>>, digest} /\ job' \in {NoJob, job}
        /\ UNCHANGED <<images, mem, img, good>>
    BY DEF HashFails, FinishFails
  <1>2. GoodInv' /\ SignedLen' = SignedLen
    BY <1>1, MemoryKept
  <1>3. job.first \in Nat /\ SignedLen \in Nat /\ Len(<<>>) = 0 /\ <<>> \in Seq(Nat \X Nat)
    BY Current, EmptySeq DEF IInv, TypeOK
  <1>4. TypeOK'
    BY <1>1, <1>2, <1>3 DEF IInv, TypeOK, NoJob
  <1>5. \A k \in 1 .. Len(digest') : digest'[k] = <<img', Unsigned + k - 1>>
    BY <1>1, <1>3 DEF IInv, HashInv
  <1>6. StateInv' /\ RangeInv' /\ CopyInv' /\ LoadedInv' /\ HashInv'
    BY <1>1, <1>3, <1>5, RangeKept DEF IInv, StateInv, CopyInv, LoadedInv, HashInv
  <1>7. QED
    BY <1>2, <1>4, <1>6 DEF IInv

(* An image that was copied and hashed without a fault is genuine. *)
LEMMA IsGenuine == ASSUME IInv, pc = "authenticate" PROVE Genuine
  <1>1. /\ Holds(img) /\ (Windowed => win = FirstBlock) /\ Len(digest) = SignedLen
        /\ \A k \in 1 .. Len(digest) : digest[k] = <<img, Unsigned + k - 1>>
        /\ digest \in Seq(Nat \X Nat)
    BY DEF IInv, LoadedInv, HashInv, StateInv
  <1>2. /\ Image.dst \in Nat /\ Image.size \in Nat /\ Windowed \in BOOLEAN
        /\ FirstBlock * Block + HeaderOffset = Image.dst
        /\ Image.size = SignedLen + Unsigned /\ SignedLen \in Nat
    BY Current DEF IInv, TypeOK
  <1>3. mem[Image.dst] = <<img, 0>>
    <2>1. Image.dst \in Image.dst .. Image.dst + Image.size - 1 /\ Image.dst - Image.dst = 0
      BY <1>2, Sizes
    <2>2. QED
      BY <1>1, <2>1 DEF Holds, Placed, Image
  <1>4. digest = [k \in 1 .. SignedLen |-> <<img, Unsigned + k - 1>>]
    <2>1. digest = [k \in 1 .. Len(digest) |-> digest[k]]
      BY <1>1, LenProperties
    <2>2. QED
      BY <1>1, <2>1
  <1>5. QED
    BY <1>1, <1>2, <1>3, <1>4 DEF Genuine

(* The image is genuine, so it joins those that were verified. *)
LEMMA AuthenticateStep == ASSUME IInv, Authenticate PROVE IInv'
  <1>1. /\ pc = "authenticate" /\ pc' = "table" /\ good' = good \cup {img}
        /\ digest' = <<>> /\ job' = NoJob /\ UNCHANGED <<images, mem, win, img, fault>>
    BY IsGenuine DEF Authenticate
  <1>2. /\ Image' = Image /\ FirstBlock' = FirstBlock /\ SignedLen' = SignedLen
        /\ Windowed' = Windowed
        /\ \A i : /\ (Holds(i)' <=> Holds(i))
                 /\ (Kept(i)' <=> Kept(i))
                 /\ (InRange(i)' <=> InRange(i))
    BY <1>1 DEF Image, FirstBlock, SignedLen, Windowed, Holds, Placed, Kept, Extent, InRange
  <1>3. SignedLen \in Nat /\ Len(<<>>) = 0 /\ <<>> \in Seq(Nat \X Nat)
    BY Current, EmptySeq DEF IInv, TypeOK
  <1>4. TypeOK'
    BY <1>1, <1>2, <1>3 DEF IInv, TypeOK, NoJob
  <1>5. GoodInv' /\ LoadedInv'
    <2>1. Kept(img) /\ InRange(img)
      BY <1>1 DEF IInv, LoadedInv, RangeInv, Holds, Placed, Kept, Extent
    <2>2. \A i \in good : Kept(i) /\ InRange(i) /\ i < img
      BY <1>1 DEF IInv, GoodInv
    <2>3. QED
      BY <1>1, <1>2, <2>1, <2>2 DEF IInv, GoodInv, LoadedInv
  <1>6. StateInv' /\ RangeInv' /\ CopyInv' /\ HashInv'
    BY <1>1, <1>3, RangeKept DEF IInv, StateInv, CopyInv, HashInv
  <1>7. QED
    BY <1>4, <1>5, <1>6 DEF IInv

(* The next image, or the end. *)
LEMMA TableStep == ASSUME IInv, Table PROVE IInv'
  <1>1. /\ pc = "table" /\ pc' \in {"load", "running"}
        /\ UNCHANGED <<images, mem, win, job, digest, good, fault>>
        /\ pc' = "running" => img' = img
        /\ pc' = "load" => img < 4 /\ img' = img + 1
        /\ InRange(img)
    BY FourTypes DEF Table, IInv, RangeInv
  <1>2. img \in Nat /\ img' \in 1 .. 4 /\ img <= img' /\ (pc' = "load" => img < img')
    BY <1>1, Images DEF IInv, TypeOK
  <1>3. SignedLen' \in Nat /\ Len(<<>>) = 0
    <2>1. images' \in Layouts /\ img' \in 1 .. 4
      BY <1>1, <1>2 DEF IInv, TypeOK
    <2>2. (images \in Layouts /\ img \in 1 .. 4 => SignedLen \in Nat)'
      BY SignedLength, PTL
    <2>3. QED
      BY <2>1, <2>2, EmptySeq
  <1>4. TypeOK'
    BY <1>1, <1>2, <1>3 DEF IInv, TypeOK, StateInv
  <1>5. GoodInv'
    <2>1. \A i : Kept(i) => Kept(i)'
      BY <1>1, <1>2 DEF Kept, Extent
    <2>2. \A i \in good : i \in Nat
      BY DEF IInv, TypeOK
    <2>3. \A i \in good : Kept(i) /\ InRange(i) /\ (i < img \/ i = img)
      BY DEF IInv, GoodInv
    <2>4. \A i \in good : i < img' \/ (i = img' /\ pc' \in {"table", "running"})
      <3>1. CASE pc' = "running"
        BY <1>1, <2>3, <3>1
      <3>2. CASE pc' = "load"
        <4>1. img \in Nat /\ img' \in Nat /\ img < img'
          BY <1>1, <1>2, <3>2
        <4>2. \A i \in good : i \in Nat /\ (i < img \/ i = img)
          BY <2>2, <2>3
        <4>3. \A i \in good : i < img'
          BY <4>1, <4>2
        <4>4. QED
          BY <4>3
      <3>3. QED
        BY <1>1, <3>1, <3>2
    <2>5. QED
      BY <1>1, <2>1, <2>3, <2>4 DEF GoodInv, InRange
  <1>6. RangeInv'
    BY <1>1 DEF RangeInv, InRange
  <1>7. StateInv' /\ CopyInv' /\ LoadedInv' /\ HashInv'
    BY <1>1, <1>3 DEF IInv, StateInv, CopyInv, LoadedInv, HashInv
  <1>8. QED
    BY <1>4, <1>5, <1>6, <1>7 DEF IInv

(* A reset of the BMC: nothing in DRAM is trusted any more. *)
LEMMA ReloadStep == ASSUME IInv, Reload PROVE IInv'
  <1>1. /\ pc = "running" /\ pc' = "load" /\ good' = {} /\ img' = 1
        /\ mem' = [a \in Address |-> Junk] /\ UNCHANGED <<images, win, job, digest, fault>>
    BY DEF Reload
  <1>2. img' \in 1 .. 4
    BY <1>1
  <1>3. SignedLen' \in Nat /\ Len(<<>>) = 0
    <2>1. images' \in Layouts /\ img' \in 1 .. 4
      BY <1>1, <1>2 DEF IInv, TypeOK
    <2>2. (images \in Layouts /\ img \in 1 .. 4 => SignedLen \in Nat)'
      BY SignedLength, PTL
    <2>3. QED
      BY <2>1, <2>2, EmptySeq
  <1>4. mem' \in [Address -> (1 .. 4) \X Nat \cup {Junk, Zero}]
    BY <1>1
  <1>5. TypeOK'
    BY <1>1, <1>2, <1>3, <1>4 DEF IInv, TypeOK, StateInv
  <1>6. GoodInv' /\ StateInv' /\ RangeInv' /\ CopyInv' /\ LoadedInv' /\ HashInv'
    BY <1>1, <1>3 DEF IInv, RangeInv, GoodInv, StateInv, CopyInv, LoadedInv, HashInv
  <1>7. QED
    BY <1>5, <1>6 DEF IInv
-----------------------------------------------------------------------------
(* The inductive invariant. *)
THEOREM Invariance == Apart /\ NoFooter => (Spec => []IInv)
  <1> SUFFICES ASSUME Apart, NoFooter PROVE Spec => []IInv
    OBVIOUS
  <1>1. Init => IInv
    BY InvInit
  <1>2. IInv /\ [Next]_vars => IInv'
    <2> SUFFICES ASSUME IInv, [Next]_vars PROVE IInv'
      OBVIOUS
    <2>1. CASE UNCHANGED vars
      BY <2>1 DEF vars, IInv, TypeOK, StateInv, RangeInv, GoodInv, CopyInv, LoadedInv,
                  HashInv, Holds, Placed, Kept, Extent, InRange, ClearsRam2, FirstBlock,
                  Image, SignedLen, Windowed
    <2>2. QED
      BY <2>1, OutOfRangeStep, LoadStep, ClearRam2Step, CopyBlockStep, CopiedStep, CopyDirectStep, LoadFooterStep,
         HashStartStep, HashBlockStep, HashEndStep, HashDirectStep, HashFailsStep,
         AuthenticateStep, TableStep, ReloadStep DEF Next
  <1>3. QED
    BY <1>1, <1>2, PTL DEF Spec

(* Every variable keeps its type; the loops stay within memory and image. *)
THEOREM TypeCorrect == Apart /\ NoFooter => (Spec => []TypeOK)
  <1>1. IInv => TypeOK
    BY DEF IInv
  <1>2. QED
    BY <1>1, Invariance, PTL

(* An image that was verified is in memory as it was signed, whatever was
   loaded after it; but for the words of the boot block that are cleared, once
   it has run, for a BL31 in RAM2. *)
THEOREM StaysVerified == Apart /\ NoFooter => (Spec => []VerifiedInPlace)
  <1>1. IInv => VerifiedInPlace
    BY DEF IInv, GoodInv, Kept, VerifiedInPlace
  <1>2. QED
    BY <1>1, Invariance, PTL

(* No image within the range of its type is refused for where it lies or where
   its blocks end, and the window is left at its header. *)
THEOREM NeverMisread == Apart /\ NoFooter => (Spec => []NotMisread)
  <1>1. IInv => NotMisread
    BY RangeChecked DEF IInv, TypeOK, LoadedInv, RangeInv, NotMisread, HeaderVisible, FirstBlock
  <1>2. QED
    BY <1>1, Invariance, PTL

(* Loading writes to the place of the image being loaded, if that is within the
   range of its type, and for a BL31 in RAM2 to what is cleared there; nowhere
   else. *)
THEOREM StaysWithin == Apart /\ NoFooter => (Spec => WithinImage)
  <1> SUFFICES ASSUME Apart, NoFooter PROVE Spec => WithinImage
    OBVIOUS
  <1>1. IInv /\ [Next]_vars =>
          (pc # "running" =>
             \A a \in Address : mem'[a] # mem[a] =>
               /\ Extent(img) \subseteq Place(img)
               /\ \/ a \in Extent(img) \cup FooterOf(img)
                  \/ img = 2 /\ images[2].dst >= Ram2 /\ a \in Ram2Cleared)
    <2> SUFFICES ASSUME IInv, [Next]_vars, pc # "running"
                 PROVE  \A a \in Address : mem'[a] # mem[a] =>
                          /\ Extent(img) \subseteq Place(img)
                          /\ \/ a \in Extent(img) \cup FooterOf(img)
                             \/ img = 2 /\ images[2].dst >= Ram2 /\ a \in Ram2Cleared
      OBVIOUS
    <2>1. pc \notin {"load", "refused"} => Extent(img) \subseteq Place(img)
      BY RangeChecked DEF IInv, TypeOK, RangeInv
    <2>2. CASE CopyBlock
      BY <2>1, <2>2, CopyBlockStep DEF CopyBlock
    <2>3. CASE CopyDirect
      BY <2>1, <2>3, CopyDirectStep DEF CopyDirect
    <2>4. CASE ClearRam2
      BY <2>1, <2>4, ClearRam2Step DEF ClearRam2
    <2>5. CASE ~CopyBlock /\ ~CopyDirect /\ ~ClearRam2
      <3>1. mem' = mem
        BY <2>5 DEF Next, vars, OutOfRange, Load, Copied, LoadFooter, HashStart, HashBlock,
                    HashEnd, HashDirect, HashFails, FinishFails, Authenticate, Table, Reload
      <3>2. QED
        BY <3>1
    <2>6. QED
      BY <2>2, <2>3, <2>4, <2>5
  <1>2. QED
    BY <1>1, Invariance, PTL DEF Spec, WithinImage
=============================================================================
