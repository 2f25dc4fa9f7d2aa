---------------------------- MODULE LineEditor ----------------------------
(***************************************************************************)
(* The line a shell reads, src/kernel/src/shell.c: parse, put_char and the *)
(* line they hand to cmp_command.  The boot loader's shell has the same    *)
(* editor.  Next to the buffer the module keeps what the terminal shows,   *)
(* because the user goes by that: put_char echoes on its own account and   *)
(* never compares the two.                                                 *)
(*                                                                         *)
(* Characters are bytes.  On this machine char is unsigned, so those above *)
(* 127 reach parse as they are.                                            *)
(***************************************************************************)
EXTENDS Naturals, SequencesExt

CONSTANTS BUFFER_SIZE,   \* places in the buffer, the terminator's included
          PromptCells    \* characters of the prompt

ASSUME EditorAssumption == BUFFER_SIZE \in Nat \ {0} /\ PromptCells \in Nat

VARIABLES buffer,    \* the array, with what earlier characters left behind
          buf_len,   \* characters of the line
          screen,    \* the line as the terminal shows it
          prompt,    \* characters of the prompt the terminal still shows
          ran        \* the last line given to cmp_command

editorVars == <<buffer, buf_len, screen, prompt, ran>>

NUL == 0
BACK_SPACE == 8
LINE_FEED == 10
CARRIAGE_RETURN == 13
DELETE == 127

IsDelete(c) == c \in {DELETE, BACK_SPACE}
IsLineFeed(c) == c \in {CARRIAGE_RETURN, LINE_FEED}
IsRegular(c) == c <= 127 /\ ~IsDelete(c) /\ ~IsLineFeed(c)

EditorTypeOK ==
    /\ buffer \in [0..BUFFER_SIZE - 1 -> 0..255]
    /\ buf_len \in 0..BUFFER_SIZE
    /\ screen \in Seq(0..255)
    /\ prompt \in 0..PromptCells
    /\ ran \in Seq(0..255)

Zeroed == [i \in 0..BUFFER_SIZE - 1 |-> NUL]

EditorInit ==
    /\ buffer = Zeroed
    /\ buf_len = 0
    /\ screen = <<>>
    /\ prompt = PromptCells
    /\ ran = <<>>

\* "\b \b" takes a cell from the screen whether or not the line had one: on
\* an empty line it is the prompt's.
erase ==
    /\ buf_len' = IF buf_len > 0 THEN buf_len - 1 ELSE 0
    /\ screen' = IF screen # <<>> THEN Front(screen) ELSE screen
    /\ prompt' = IF screen = <<>> /\ prompt > 0 THEN prompt - 1 ELSE prompt
    /\ UNCHANGED <<buffer, ran>>

\* A character that finds the buffer full is echoed all the same.
insert(c) ==
    /\ IF buf_len < BUFFER_SIZE
         THEN /\ buffer' = [buffer EXCEPT ![buf_len] = c]
              /\ buf_len' = buf_len + 1
         ELSE UNCHANGED <<buffer, buf_len>>
    /\ screen' = Append(screen, c)
    /\ UNCHANGED <<prompt, ran>>

\* Mutant: the line is not terminated where it ends.
Terminated_Not == buffer

\* buffer[buf_len] = '\0'
Terminated == [buffer EXCEPT ![buf_len] = NUL]

\* The string the commands read: up to the first terminator.
Line ==
    LET b == Terminated
        ends == {i \in DOMAIN b : b[i] = NUL}
        len == IF ends = {} THEN BUFFER_SIZE ELSE Min(ends)
    IN  [i \in 1..len |-> b[i - 1]]

\* A line that fills the buffer leaves no room for its terminator.
TooLong == buf_len = BUFFER_SIZE

\* buf_len = 0, memset, a new prompt
new_line ==
    /\ buffer' = Zeroed
    /\ buf_len' = 0
    /\ screen' = <<>>
    /\ prompt' = PromptCells

(***************************************************************************)
(* The command that runs is the one the user saw on the screen when the    *)
(* line was ended: put_char keeps buffer and echo in step through every    *)
(* mix of characters and deletions, and what deleted characters leave in   *)
(* the array never gets into a command.  It holds for lines that never     *)
(* outgrow the buffer; beyond it, echoed characters are not stored and     *)
(* deletions take others away than the screen shows.                       *)
(***************************************************************************)
RunsWhatIsShown == [][ran' # ran => ran' = screen]_editorVars
============================================================================
