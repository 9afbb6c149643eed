----------------------------- MODULE ImageLoad -----------------------------
(* How the images of the BMC get into DRAM and are verified there.  The TIP  *)
(* sees the DRAM below 16 MB only through a window, one 64 KB block at a     *)
(* time: the loader copies an image block by block, hashes it block by       *)
(* block, and reads its header through the window in between.  Whoever moves *)
(* the window has to leave it where the next reader expects it.              *)
(*                                                                           *)
(* The boot block lies in RAM2 and is run as soon as it is verified; a BL31  *)
(* that goes to RAM2, too, has the RAM cleared before it is copied.          *)
(*                                                                           *)
(* Memory is counted in words; word k of the i-th image is <<i, k>>.         *)
EXTENDS Integers, Sequences, FiniteSets

CONSTANTS
  Block,      \* words of a block of the window (_64KB_)
  WindowTop,  \* the first address that needs no window (_16MB_)
  UbootMin,   \* the first address a U-Boot may be loaded to
  Flash,      \* the end of the DRAM (SPI0CS0_BASE_ADDR)
  Ram2,       \* RAM2_BASE_ADDR
  ClearEnd,   \* the end of what is cleared for BL31 (0xfffeef00)
  Top,        \* the last address of RAM2
  Unsigned,   \* words of the header before the signed area (0x70 bytes)
  Footer,     \* words of an LMS signature (LMS_SIG_SIZE)
  FooterRead, \* what may be read where an image without window would have enableLMS
  Layouts     \* the images a device may hold, in the order of their types

Address == 0 .. Top

(* The images of the BMC, in the order in which they are loaded. *)
Types == <<"bootblock", "bl31", "optee", "uboot">>

ASSUME LoadAssumption ==
  /\ {Block, Unsigned, Footer} \subseteq Nat \ {0}
  /\ {WindowTop, UbootMin, Flash, Ram2, ClearEnd, Top} \subseteq Nat
  /\ UbootMin <= Flash /\ Flash <= Ram2 /\ Ram2 <= ClearEnd /\ ClearEnd <= Top
  /\ FooterRead \subseteq BOOLEAN
  /\ Layouts \subseteq [1 .. 4 -> [dst : Nat, size : Nat]]
  /\ \A l \in Layouts : \A i \in 1 .. 4 :
       /\ l[i].size > Unsigned
       /\ (l[i].dst % Block) + Unsigned < Block

VARIABLES
  images,   \* what is loaded
  mem,      \* DRAM
  win,      \* DRAM1WINA: the block the window shows
  img,      \* the image being loaded
  pc,       \* where the loader is
  job,      \* tip_memcpy: [src, dst, size], its first block, the current one, ...
  digest,   \* the words hashed, while a hash is active
  good,     \* images that have been verified
  fault     \* the hash engine has failed

vars == <<images, mem, win, img, pc, job, digest, good, fault>>

Junk == <<0, 0>>
Zero == <<0, 1>>
NoJob == [src |-> 0, dst |-> 0, size |-> 0, first |-> 0, block |-> 0, offset |-> 0,
          count |-> 0]
Lesser(a, b) == IF a < b THEN a ELSE b

Image == images[img]
HeaderOffset == Image.dst % Block

(* Images below 16 MB are accessed through the window. *)
Windowed == Image.dst < WindowTop

-----------------------------------------------------------------------------
(* tip_memcpy *)

(* Mutant: the mask of the window's start is too narrow. *)
WrongJob(src, dst, size) ==
  [src |-> src, dst |-> dst, size |-> size, first |-> dst \div Block,
   block |-> (dst \div Block) % 2, offset |-> dst % Block, count |-> 0]

Job(src, dst, size) ==
  [src |-> src, dst |-> dst, size |-> size, first |-> dst \div Block,
   block |-> dst \div Block, offset |-> dst % Block, count |-> 0]

(* Mutant: the offset in the first block is not added to what is left. *)
WrongBlockEnd(j) == Lesser(j.size - j.count, Block)

(* end_block_offset *)
BlockEnd(j) == Lesser(j.size - j.count + j.offset, Block)

(* Memory after words from src on have been written to the addresses from a on. *)
Written(a, n, src) ==
  [x \in Address |-> IF x \in a .. a + n - 1 THEN <<img, src + x - a>> ELSE mem[x]]

(* Mutant: the window is left at the last block. *)
WrongCopied ==
  /\ pc \in {"copy", "copyFooter"} /\ Windowed /\ job.count >= job.size
  /\ pc' = IF pc = "copy" THEN "loaded" ELSE "hash"
  /\ job' = NoJob
  /\ UNCHANGED <<images, mem, win, img, digest, good, fault>>

(* Mutant: win_offset is not reset for the blocks after the first. *)
WrongCopyBlock ==
  /\ pc \in {"copy", "copyFooter"} /\ Windowed /\ job.count < job.size
  /\ LET n == BlockEnd(job) - job.offset IN
       /\ win' = job.block
       /\ mem' = Written(job.block * Block + job.offset, n, job.src + job.count)
       /\ job' = [job EXCEPT !.count = @ + n, !.block = @ + 1]
  /\ UNCHANGED <<images, img, pc, digest, good, fault>>

(* One turn of the loop over the blocks. *)
CopyBlock ==
  /\ pc \in {"copy", "copyFooter"} /\ Windowed /\ job.count < job.size
  /\ LET n == BlockEnd(job) - job.offset IN
       /\ win' = job.block
       /\ mem' = Written(job.block * Block + job.offset, n, job.src + job.count)
       /\ job' = [job EXCEPT !.count = @ + n, !.offset = 0, !.block = @ + 1]
  /\ UNCHANGED <<images, img, pc, digest, good, fault>>

(* The window goes back to the first block of what was copied. *)
Copied ==
  /\ pc \in {"copy", "copyFooter"} /\ Windowed /\ job.count >= job.size
  /\ win' = job.first
  /\ pc' = IF pc = "copy" THEN "loaded" ELSE "hash"
  /\ job' = NoJob
  /\ UNCHANGED <<images, mem, img, digest, good, fault>>

CopyDirect ==
  /\ pc \in {"copy", "copyFooter"} /\ ~Windowed
  /\ mem' = Written(job.dst, job.size, job.src)
  /\ pc' = IF pc = "copy" THEN "loaded" ELSE "hash"
  /\ job' = NoJob
  /\ UNCHANGED <<images, win, img, digest, good, fault>>

-----------------------------------------------------------------------------
(* tip_firmware_component_load_to_memory *)

(* Where an image of the i-th type may lie: addr_min and addr_max. *)
AddrMin(i) ==
  CASE Types[i] = "bootblock" -> Ram2
    [] Types[i] = "uboot"     -> UbootMin
    [] OTHER                  -> 0
AddrMax(i) == IF Types[i] \in {"bootblock", "bl31"} THEN Top + 1 ELSE Flash

(* Mutant: only the start of the image is compared with the end of the range. *)
WrongInRange(i) ==
  /\ images[i].size <= AddrMax(i) - AddrMin(i)
  /\ images[i].dst >= AddrMin(i) /\ images[i].dst <= AddrMax(i)

InRange(i) ==
  /\ images[i].size <= AddrMax(i) - AddrMin(i)
  /\ images[i].dst >= AddrMin(i) /\ images[i].dst <= AddrMax(i) - images[i].size

(* Mutant: RAM2 is cleared for a BL31 wherever it goes. *)
WrongClearsRam2(i) == Types[i] = "bl31"

(* "bl31 needs its RAM to be cleared in advance if it is loaded to RAM2" *)
ClearsRam2(i) == Types[i] = "bl31" /\ images[i].dst >= Ram2

(* An image out of range is refused before anything is written. *)
OutOfRange ==
  /\ pc = "load" /\ ~InRange(img)
  /\ pc' = "refused"
  /\ UNCHANGED <<images, mem, win, img, job, digest, good, fault>>

Load ==
  /\ pc = "load" /\ InRange(img)
  /\ job' = Job(0, Image.dst, Image.size)
  /\ pc' = IF ClearsRam2(img) THEN "clear" ELSE "copy"
  /\ UNCHANGED <<images, mem, win, img, digest, good, fault>>

(* tip_memset over RAM2, the boot block included: it has run by now. *)
ClearRam2 ==
  /\ pc = "clear"
  /\ mem' = [a \in Address |-> IF a \in Ram2 .. ClearEnd - 1 THEN Zero ELSE mem[a]]
  /\ pc' = "copy"
  /\ UNCHANGED <<images, win, img, job, digest, good, fault>>

(* enableLMS is read at the image's address as if that could be mapped. *)
LoadFooter ==
  /\ pc = "loaded"
  /\ \E f \in FooterRead :
       IF f THEN /\ job' = Job(Image.size, Image.dst + Image.size, Footer)
                 /\ pc' = "copyFooter"
            ELSE pc' = "hash" /\ job' = job
  /\ UNCHANGED <<images, mem, win, img, digest, good, fault>>

-----------------------------------------------------------------------------
(* tip_image_hash *)

Words(a, n) == [k \in 1 .. n |-> mem[a + k - 1]]
SignedLen == Image.size - Unsigned
FirstSize == Lesser(SignedLen, Block - ((HeaderOffset + Unsigned) % Block))

(* Mutant: the first part of an image is a whole block wherever it begins. *)
WrongHashStart ==
  /\ pc = "hash" /\ Windowed
  /\ digest' = Words(win * Block + HeaderOffset + Unsigned, Lesser(SignedLen, Block))
  /\ job' = [NoJob EXCEPT !.first = win, !.block = win + 1]
  /\ pc' = "hashBlocks"
  /\ UNCHANGED <<images, mem, win, img, good, fault>>

(* start and the first update, up to the end of the block the window shows *)
HashStart ==
  /\ pc = "hash" /\ Windowed
  /\ digest' = Words(win * Block + HeaderOffset + Unsigned, FirstSize)
  /\ job' = [NoJob EXCEPT !.first = win, !.block = win + 1]
  /\ pc' = "hashBlocks"
  /\ UNCHANGED <<images, mem, win, img, good, fault>>

(* Mutant: the last part is a whole block wherever the image ends. *)
WrongHashBlock ==
  /\ pc = "hashBlocks" /\ Len(digest) < SignedLen
  /\ win' = job.block
  /\ digest' = digest \o Words(win' * Block, Block)
  /\ job' = [job EXCEPT !.block = @ + 1]
  /\ UNCHANGED <<images, mem, img, pc, good, fault>>

(* the next update, after the window has moved on *)
HashBlock ==
  /\ pc = "hashBlocks" /\ Len(digest) < SignedLen
  /\ win' = job.block
  /\ digest' = digest \o Words(win' * Block, Lesser(Block, SignedLen - Len(digest)))
  /\ job' = [job EXCEPT !.block = @ + 1]
  /\ UNCHANGED <<images, mem, img, pc, good, fault>>

(* Mutant: the window stays at the last block. *)
WrongHashEnd ==
  /\ pc = "hashBlocks" /\ Len(digest) >= SignedLen
  /\ pc' = "authenticate"
  /\ UNCHANGED <<images, mem, win, img, job, digest, good, fault>>

(* finish, and the window back to the header *)
HashEnd ==
  /\ pc = "hashBlocks" /\ Len(digest) >= SignedLen
  /\ win' = job.first
  /\ pc' = "authenticate"
  /\ UNCHANGED <<images, mem, img, job, digest, good, fault>>

HashDirect ==
  /\ pc = "hash" /\ ~Windowed
  /\ digest' = Words(Image.dst + Unsigned, SignedLen)
  /\ pc' = "authenticate"
  /\ UNCHANGED <<images, mem, win, img, job, good, fault>>

(* The engine fails at the start, or in an update: then the hash is cancelled,
   and the window put back if it has moved. *)
HashFails ==
  /\ pc = "hash" \/ (pc = "hashBlocks" /\ Len(digest) < SignedLen)
  /\ win' = IF pc = "hashBlocks" THEN job.first ELSE win
  /\ digest' = <<>> /\ job' = NoJob
  /\ pc' = "refused" /\ fault' = TRUE
  /\ UNCHANGED <<images, mem, img, good>>

(* It fails to finish: the window is put back, but the hash is not cancelled
   (NclEngines!Fail has what that does to the engine). *)
FinishFails ==
  /\ pc = "hashBlocks" /\ Len(digest) >= SignedLen
  /\ win' = job.first
  /\ pc' = "refused" /\ fault' = TRUE
  /\ UNCHANGED <<images, mem, img, job, digest, good>>

(* The signature in the header is the one of the signed words of the image. *)
Genuine ==
  /\ IF Windowed THEN mem[win * Block + HeaderOffset] = <<img, 0>>
                  ELSE mem[Image.dst] = <<img, 0>>
  /\ digest = [k \in 1 .. SignedLen |-> <<img, Unsigned + k - 1>>]

Authenticate ==
  /\ pc = "authenticate"
  /\ IF Genuine THEN pc' = "table" /\ good' = good \cup {img}
                ELSE pc' = "refused" /\ good' = good
  /\ digest' = <<>> /\ job' = NoJob
  /\ UNCHANGED <<images, mem, win, img, fault>>

-----------------------------------------------------------------------------
(* tip_load_bmc_firmware *)

(* The register table, found through the header; the boot block is run; then
   the next image. *)
Table ==
  /\ pc = "table"
  /\ IF img < Len(Types) THEN img' = img + 1 /\ pc' = "load"
                          ELSE img' = img /\ pc' = "running"
  /\ UNCHANGED <<images, mem, win, job, digest, good, fault>>

(* The BMC runs, overwrites what it likes, and is reset. *)
Reload ==
  /\ pc = "running"
  /\ mem' = [a \in Address |-> Junk]
  /\ img' = 1 /\ good' = {} /\ pc' = "load"
  /\ UNCHANGED <<images, win, job, digest, fault>>

Init ==
  /\ images \in Layouts
  /\ mem = [a \in Address |-> Junk]
  /\ win = 0 /\ img = 1 /\ pc = "load" /\ job = NoJob
  /\ digest = <<>> /\ good = {} /\ fault = FALSE

Next == \/ OutOfRange \/ Load \/ ClearRam2 \/ CopyBlock \/ Copied \/ CopyDirect \/ LoadFooter
        \/ HashStart \/ HashBlock \/ HashEnd \/ HashDirect \/ HashFails
        \/ FinishFails \/ Authenticate \/ Table \/ Reload

Spec == Init /\ [][Next]_vars

-----------------------------------------------------------------------------
(* Properties *)

Extent(i) == images[i].dst .. images[i].dst + images[i].size - 1
FooterOf(i) == images[i].dst + images[i].size .. images[i].dst + images[i].size + Footer - 1
Place(i) == AddrMin(i) .. AddrMax(i) - 1
Ram2Cleared == Ram2 .. ClearEnd - 1

TypeOK ==
  /\ images \in Layouts
  /\ mem \in [Address -> (1 .. 4) \X Nat \cup {Junk, Zero}]
  /\ win \in Nat /\ img \in 1 .. 4
  /\ pc \in {"load", "clear", "copy", "loaded", "copyFooter", "hash", "hashBlocks",
             "authenticate", "table", "running", "refused"}
  /\ job \in [src : Nat, dst : Nat, size : Nat, first : Nat, block : Nat,
             offset : Nat, count : Nat]
  /\ good \subseteq 1 .. 4 /\ fault \in BOOLEAN
  /\ Len(digest) <= SignedLen

(* What was verified is what is in memory, for all the images loaded so far:
   loading one does not damage another.  Excepted are the words of the boot
   block, which has run, that were cleared for a BL31 in RAM2. *)
VerifiedInPlace ==
  \A i \in good : \A a \in Extent(i) :
    \/ mem[a] = <<i, a - images[i].dst>>
    \/ /\ Types[i] = "bootblock" /\ img > 1 /\ images[2].dst >= Ram2
       /\ a \in Ram2Cleared /\ mem[a] = Zero

(* "reset DRAM window back to start of image, so that header_ram points to
   header via window": whoever reads the header through the window finds it. *)
HeaderVisible ==
  pc \in {"hash", "authenticate", "table"} /\ Windowed => win = Image.dst \div Block

(* No image that lies where its type may is refused for the way it was loaded
   or hashed, and its header is found where the window is left. *)
NotMisread ==
  HeaderVisible /\ (pc = "refused" => fault \/ ~(Extent(img) \subseteq Place(img)))

(* Loading an image writes nothing outside the image, the place of its signature
   and, for a BL31 in RAM2, what is cleared for it; and nothing at all unless the
   image lies where its type may. *)
WithinImage ==
  [][pc # "running" =>
       \A a \in Address : mem'[a] # mem[a] =>
         /\ Extent(img) \subseteq Place(img)
         /\ \/ a \in Extent(img) \cup FooterOf(img)
            \/ img = 2 /\ images[2].dst >= Ram2 /\ a \in Ram2Cleared]_vars
=============================================================================
