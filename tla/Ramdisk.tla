------------------------------ MODULE Ramdisk ------------------------------
(***************************************************************************)
(* The initial ramdisk, src/kernel/src/cpio.c: a "newc" archive in memory, *)
(* which ls, cat and exec each walk with a loop of their own.  cpio_ls and *)
(* cpio_cat align what they add to the pointer, cpio_find aligns the       *)
(* pointer, and where the archive really has its entries is for the        *)
(* program that wrote it.                                                  *)
(*                                                                         *)
(* An archive is a sequence of files [name, namesize, filesize]; the last  *)
(* one is the trailer.                                                     *)
(***************************************************************************)
EXTENDS Naturals, SequencesExt

CONSTANT CPIO_HEADER_SIZE

ASSUME HeaderAssumption == CPIO_HEADER_SIZE \in Nat \ {0}

TRAILER == "TRAILER!!!"

align4(x) == 4 * ((x + 3) \div 4)

-----------------------------------------------------------------------------
(* Where cpio writes: every header and every file's data at a multiple of  *)
(* four from the archive's start.                                          *)

PaddedTo4(n) == n + ((4 - (n % 4)) % 4)

\* The offset of each entry's header, and behind the last the archive's size.
Offset(archive) ==
    LET offset[i \in 1..Len(archive) + 1] ==
          IF i = 1 THEN 0
          ELSE LET f == archive[i - 1]
               IN  offset[i - 1] + PaddedTo4(CPIO_HEADER_SIZE + f.namesize) + PaddedTo4(f.filesize)
    IN  offset

ArchiveSize(archive) == Offset(archive)[Len(archive) + 1]

DataOf(archive, i) ==
    Offset(archive)[i] + PaddedTo4(CPIO_HEADER_SIZE + archive[i].namesize)

\* The entry whose header is at address p of an archive at base; 0 if there
\* is none, and with it no magic number.
At(archive, base, p) ==
    LET here == {i \in DOMAIN archive : base + Offset(archive)[i] = p}
    IN  IF here = {} THEN 0 ELSE Min(here)

-----------------------------------------------------------------------------
(* The walks, as functions of the pointer.                                 *)

\* From one header to the next, in cpio_ls and cpio_cat.
Next_hdr(p, f) == p + align4(CPIO_HEADER_SIZE + f.namesize) + align4(f.filesize)

\* The names cpio_ls prints.  Its first pass only counts; without a trailer
\* it gives up there and prints none.
cpio_ls(archive, base) ==
    LET complete[p \in Nat] ==
          LET i == At(archive, base, p)
          IN  i # 0 /\ (archive[i].name = TRAILER \/ complete[Next_hdr(p, archive[i])])
        names[p \in Nat] ==
          LET i == At(archive, base, p)
          IN  IF i = 0 \/ archive[i].name = TRAILER THEN <<>>
              ELSE <<archive[i].name>> \o names[Next_hdr(p, archive[i])]
    IN  IF complete[base] THEN names[base] ELSE <<>>

NotFound == [data |-> 0, size |-> 0]

\* The bytes cpio_cat prints.
cpio_cat(archive, base, filename) ==
    LET walk[p \in Nat] ==
          LET i == At(archive, base, p)
          IN  IF i = 0 \/ archive[i].name = TRAILER THEN NotFound
              ELSE IF archive[i].name = filename
                THEN [data |-> p + align4(CPIO_HEADER_SIZE + archive[i].namesize),
                      size |-> archive[i].filesize]
              ELSE walk[Next_hdr(p, archive[i])]
    IN  walk[base]

\* Mutant: the name's end is taken for the start of the data.
file_data_Unpadded(p, f) == p + CPIO_HEADER_SIZE + f.namesize

\* The address of the data, in cpio_find.
file_data(p, f) == align4(p + CPIO_HEADER_SIZE + f.namesize)

\* What cpio_find returns to exec.
cpio_find(archive, base, target) ==
    LET walk[p \in Nat] ==
          LET i == At(archive, base, p)
          IN  IF i = 0 \/ archive[i].name = TRAILER THEN NotFound
              ELSE IF archive[i].name = target
                THEN [data |-> file_data(p, archive[i]), size |-> archive[i].filesize]
              ELSE walk[align4(file_data(p, archive[i]) + archive[i].filesize)]
    IN  walk[base]

-----------------------------------------------------------------------------
(***************************************************************************)
(* ls shows every file of an archive at base, and cat and exec get the     *)
(* bytes of the first file of a name, all of them and no others.           *)
(***************************************************************************)
FilesAreSound(archive, base) ==
    LET files == 1..Len(archive) - 1
    IN  /\ cpio_ls(archive, base) = [i \in files |-> archive[i].name]
        /\ \A i \in files :
             (\A j \in 1..i - 1 : archive[j].name # archive[i].name)
             => LET content == [data |-> base + DataOf(archive, i), size |-> archive[i].filesize]
                IN  /\ cpio_cat(archive, base, archive[i].name) = content
                    /\ cpio_find(archive, base, archive[i].name) = content
============================================================================
