------------------------------ MODULE Loader ------------------------------
(***************************************************************************)
(* The boot loader: src/bootloader/src/a.S and main.c, which copy the      *)
(* loader out of the kernel's place and start it again there, and the      *)
(* shell.c with its command load, which receives a kernel over the serial  *)
(* line from send_kernel.py.  Nothing is acknowledged and nothing times    *)
(* out: the loader counts bytes.                                           *)
(*                                                                         *)
(* The loader is linked at KERNEL_LOAD_ADDR, so its first image and the    *)
(* kernel it loads share their place.  Addresses and sizes are small       *)
(* numbers; had_relocated is kept per image, because copying the image     *)
(* copies the variable with the value it has then.  Commands other than    *)
(* load change nothing the loader keeps.                                   *)
(***************************************************************************)
EXTENDS LineEditor, Integers

CONSTANTS KERNEL_LOAD_ADDR,   \* also the address the loader is linked at
          RELOCATE_ADDR, LoaderSize,
          LoadLine,           \* the command "load"
          Typed, Stray,       \* what the user types at the prompt, and while load waits
          TypesAhead,         \* whether a file may be sent after some of the latter
          MaxLine,            \* characters in a line the user types
          Kernels,            \* files given to send_kernel.py
          GivesUpAfter        \* bytes after which the host may stop sending

ASSUME LoaderAssumption ==
    /\ KERNEL_LOAD_ADDR \in Nat /\ RELOCATE_ADDR \in Nat /\ LoaderSize \in Nat \ {0}
    /\ KERNEL_LOAD_ADDR + LoaderSize <= RELOCATE_ADDR
    /\ LoadLine \in Seq(1..127)
    /\ Typed \cup Stray \subseteq 0..255 /\ MaxLine \in Nat /\ TypesAhead \in BOOLEAN
    /\ Kernels \subseteq Seq(0..255) /\ GivesUpAfter \subseteq Nat

VARIABLES pc,             \* "start", "shell", "header", "payload" or "kernel"
          home,           \* the image that runs: "linked" or "copy"
          had_relocated,  \* per image; -1 until main has decided to move it
          rx,             \* bytes on their way to the loader
          header,         \* bytes of the header read
          got,            \* bytes stored at KERNEL_LOAD_ADDR
          file            \* the file the host sent last

loadVars == <<home, had_relocated, rx, header, got, file>>
loaderVars == <<editorVars, pc, loadVars>>

\* What is left of a number without its lowest byte, and its four bytes.
Rest(n) == n \div 256
SizeBytes(n) == <<n % 256, Rest(n) % 256, Rest(Rest(n)) % 256, Rest(Rest(Rest(n))) % 256>>

BOOT_MAGIC == <<66, 79, 79, 84>>

\* struct.pack("<II", BOOT_MAGIC, size) and the file behind it
Sent(f) == BOOT_MAGIC \o SizeBytes(Len(f)) \o f

\* What the loader makes of a header.  C leaves open in which order the calls
\* of uart_getc in one expression run; the build makes them from left to right.
Magic == SubSeq(header, 1, 4)
Size == header[5] + 256 * (header[6] + 256 * (header[7] + 256 * header[8]))

\* The variable as the loader's file has it; there is no copy yet.
Fresh == [linked |-> -1, copy |-> 0]

LoaderInit ==
    /\ EditorInit
    /\ pc = "start"
    /\ home = "linked"
    /\ had_relocated = Fresh
    /\ rx = <<>> /\ header = <<>> /\ got = <<>> /\ file = <<>>

\* The machine is switched off and on: the loader is put into memory again.
reload ==
    /\ pc' = "start"
    /\ home' = "linked"
    /\ had_relocated' = Fresh
    /\ rx' = <<>> /\ header' = <<>> /\ got' = <<>> /\ file' = <<>>
    /\ new_line
    /\ UNCHANGED ran

-----------------------------------------------------------------------------
(* The user and the host.                                                  *)

\* The user types when the loader has taken what was typed before.
types(c) ==
    /\ rx = <<>>
    /\ \/ pc = "shell" /\ c \in Typed /\ (IsRegular(c) => Len(screen) < MaxLine)
       \/ pc = "header" /\ c \in Stray /\ Len(header) < 8
    /\ rx' = <<c>>
    /\ UNCHANGED <<editorVars, pc, home, had_relocated, header, got, file>>

\* send_kernel.py, started when the loader has said that it waits, or again
\* after it was stopped in the middle of a file.  Users do not start it after
\* a key that load has taken for the header's first byte, unless TypesAhead.
send_kernel(f) ==
    /\ rx = <<>>
    /\ \/ pc = "header" /\ (header = <<>> \/ TypesAhead)
       \/ pc = "payload" /\ Len(got) < Size
    /\ \E n \in {Len(Sent(f))} \cup (GivesUpAfter \cap 0..Len(Sent(f))) :
          rx' = SubSeq(Sent(f), 1, n)
    /\ file' = f
    /\ UNCHANGED <<editorVars, pc, home, had_relocated, header, got>>

-----------------------------------------------------------------------------
(* The loader.                                                             *)

\* Mutant: the variable lies in .bss, which every start clears.
AtStart_Cleared(v) == -1

\* _start clears .bss; had_relocated is initialised to -1 and lies in .data.
AtStart(v) == v

\* main sets had_relocated, then copies the image, the variable with it, and
\* jumps to the copy's _start.
code_relocate ==
    /\ pc = "start"
    /\ AtStart(had_relocated[home]) = -1
    /\ LET set == [had_relocated EXCEPT ![home] = 1]
       IN  had_relocated' = [set EXCEPT !.copy = set[home]]
    /\ home' = "copy"
    /\ UNCHANGED <<editorVars, pc, rx, header, got, file>>

\* The copy goes on to the shell.  main has also looked up the console and the
\* ramdisk, with an older copy of the code that Startup's main_devices uses.
main ==
    /\ pc = "start"
    /\ AtStart(had_relocated[home]) # -1
    /\ pc' = "shell"
    /\ UNCHANGED <<editorVars, loadVars>>

uart_getc(c) == IF c = CARRIAGE_RETURN THEN LINE_FEED ELSE c

\* Mutant: the payload is read like a line of text.
uart_getc_raw_Text(c) == uart_getc(c)

uart_getc_raw(c) == c

\* shell(), one character: put_char edits the line or ends it.
put_char ==
    /\ pc = "shell"
    /\ rx # <<>>
    /\ rx' = Tail(rx)
    /\ LET c == uart_getc(Head(rx))
       IN  \/ /\ IsDelete(c)
              /\ erase
              /\ UNCHANGED pc
           \/ /\ IsRegular(c)
              /\ insert(c)
              /\ UNCHANGED pc
           \/ /\ IsLineFeed(c)
              /\ TooLong
              /\ new_line
              /\ UNCHANGED <<ran, pc>>
           \/ /\ IsLineFeed(c)
              /\ ~TooLong
              /\ Line # LoadLine
              /\ ran' = Line
              /\ new_line
              /\ UNCHANGED pc
           \/ /\ IsLineFeed(c)
              /\ ~TooLong
              /\ Line = LoadLine
              /\ ran' = Line
              /\ pc' = "header"
              /\ UNCHANGED <<buffer, buf_len, screen, prompt>>
           \/ /\ c > 127
              /\ UNCHANGED <<editorVars, pc>>
    /\ UNCHANGED <<home, had_relocated, header, got, file>>

\* The eight bytes of the header come through uart_getc.
load_header ==
    /\ pc = "header"
    /\ rx # <<>>
    /\ Len(header) < 8
    /\ header' = Append(header, uart_getc(Head(rx)))
    /\ rx' = Tail(rx)
    /\ UNCHANGED <<editorVars, pc, home, had_relocated, got, file>>

\* "Invalid header (bad magic)": back in put_char, which ends the line.
bad_magic ==
    /\ pc = "header"
    /\ Len(header) = 8
    /\ Magic # BOOT_MAGIC
    /\ pc' = "shell"
    /\ header' = <<>>
    /\ new_line
    /\ UNCHANGED <<ran, home, had_relocated, rx, got, file>>

good_magic ==
    /\ pc = "header"
    /\ Len(header) = 8
    /\ Magic = BOOT_MAGIC
    /\ pc' = "payload"
    /\ UNCHANGED <<editorVars, loadVars>>

load_payload ==
    /\ pc = "payload"
    /\ Len(got) < Size
    /\ rx # <<>>
    /\ got' = Append(got, uart_getc_raw(Head(rx)))
    /\ rx' = Tail(rx)
    /\ UNCHANGED <<editorVars, pc, home, had_relocated, header, file>>

\* The jump to the kernel.  The loader's line is not read again; clearing it
\* keeps the states few.
jump ==
    /\ pc = "payload"
    /\ Len(got) = Size
    /\ pc' = "kernel"
    /\ new_line
    /\ UNCHANGED <<ran, loadVars>>

\* The loader has taken all there is and counts on the user or the host.
Waits ==
    /\ rx = <<>>
    /\ \/ pc = "shell"
       \/ pc = "header" /\ Len(header) < 8
       \/ pc = "payload" /\ Len(got) < Size

LoaderStep ==
    \/ code_relocate \/ main \/ put_char
    \/ load_header \/ bad_magic \/ good_magic \/ load_payload

HostStep ==
    \/ \E c \in Typed \cup Stray : types(c)
    \/ \E f \in Kernels : send_kernel(f)

-----------------------------------------------------------------------------
LoaderTypeOK ==
    /\ EditorTypeOK
    /\ pc \in {"start", "shell", "header", "payload", "kernel"}
    /\ home \in {"linked", "copy"}
    /\ had_relocated \in [{"linked", "copy"} -> {-1, 0, 1}]
    /\ {rx, header, got, file} \subseteq Seq(0..255)
    /\ Len(header) <= 8

Image(h) ==
    LET base == IF h = "linked" THEN KERNEL_LOAD_ADDR ELSE RELOCATE_ADDR
    IN  base..base + LoaderSize - 1

\* The addresses the kernel's bytes went to.
Stored == KERNEL_LOAD_ADDR..KERNEL_LOAD_ADDR + Len(got) - 1

(***************************************************************************)
(* The loader never stores over the image it runs from, which is what the  *)
(* copying is for, and what it jumps to is the whole file the host sent,   *)
(* byte for byte.  It holds for files whose size has no byte 13 (the       *)
(* header is read through uart_getc, which makes it a 10) and for hosts    *)
(* that start in front of an empty header and finish.                      *)
(***************************************************************************)
KernelIsWhole ==
    /\ LoaderTypeOK
    /\ pc # "kernel" => Stored \cap Image(home) = {}
    /\ pc = "kernel" => got = file
============================================================================
