------------------------------ MODULE BootProofs ------------------------------
(***************************************************************************)
(* What holds of the machine's start.  For every loader, prompt, buffer    *)
(* and set of kernels: the loader does not overwrite itself and jumps to   *)
(* the whole file that was sent, and the command it runs is the one on the *)
(* screen.  For every machine the kernel is made for: the pages it begins  *)
(* to hand out are mapped and hold nothing else.  For every ramdisk cpio   *)
(* has written: ls, cat and exec find the files that are in it.  For every *)
(* device tree in which a name and a depth tell a node: the console and    *)
(* the ramdisk are taken from where they are, and mapped.                  *)
(***************************************************************************)
EXTENDS Boot, SequenceLemmas

-----------------------------------------------------------------------------
(* The conditions *)

\* The files that can be sent: they fit in front of the copy, and their size
\* fits into the header and has no byte that uart_getc changes.
Sendable(f) ==
    /\ KERNEL_LOAD_ADDR + Len(f) <= RELOCATE_ADDR
    /\ Rest(Rest(Rest(Len(f)))) < 256
    /\ CARRIAGE_RETURN \notin Range(SizeBytes(Len(f)))

\* The host sends such files from a header's first byte to their ends, and the
\* user who types while the loader waits does not type the magic number.
Orderly ==
    /\ \A f \in Kernels : Sendable(f) /\ GivesUpAfter \cap 0..(Len(Sent(f)) - 1) = {}
    /\ ~(Range(BOOT_MAGIC) \subseteq Stray) /\ ~TypesAhead

-----------------------------------------------------------------------------
(* The header *)

\* The loader reads the size that the host has written.
LEMMA SizeIsRead ==
    ASSUME NEW n \in Nat
    PROVE  /\ SizeBytes(n) \in Seq(0..255) /\ Len(SizeBytes(n)) = 4
           /\ Rest(Rest(Rest(n))) < 256 =>
              n = SizeBytes(n)[1] + 256 * (SizeBytes(n)[2] + 256 * (SizeBytes(n)[3]
                  + 256 * SizeBytes(n)[4]))
<1>0. \A x \in Nat : x < 256 => x % 256 = x /\ x \in 0..255
  OBVIOUS
<1>1. ASSUME NEW m \in Nat
      PROVE  Rest(m) \in Nat /\ m % 256 \in 0..255 /\ m = (m % 256) + 256 * Rest(m)
  BY DEF Rest
<1> DEFINE k == Rest(n)
           l == Rest(k)
           m == Rest(l)
<1>2. /\ k \in Nat /\ n % 256 \in 0..255 /\ n = (n % 256) + 256 * k
      /\ l \in Nat /\ k % 256 \in 0..255 /\ k = (k % 256) + 256 * l
      /\ m \in Nat /\ l % 256 \in 0..255 /\ l = (l % 256) + 256 * m
      /\ m % 256 \in 0..255
  <2>1. k \in Nat /\ n % 256 \in 0..255 /\ n = (n % 256) + 256 * k
    BY <1>1
  <2> HIDE DEF k
  <2>2. l \in Nat /\ k % 256 \in 0..255 /\ k = (k % 256) + 256 * l
    BY <1>1, <2>1
  <2> HIDE DEF l
  <2>3. m \in Nat /\ l % 256 \in 0..255 /\ l = (l % 256) + 256 * m
    BY <1>1, <2>2
  <2> HIDE DEF m
  <2>4. m % 256 \in 0..255
    BY <1>1, <2>3
  <2>5. QED BY <2>1, <2>2, <2>3, <2>4
<1>3. m < 256 => m % 256 = m
  <2> HIDE DEF k, l, m
  <2>1. m \in Nat
    BY <1>2
  <2>2. QED BY <1>0, <2>1
<1>4. SizeBytes(n) = <<n % 256, k % 256, l % 256, m % 256>> /\ m = Rest(Rest(Rest(n)))
  BY DEF SizeBytes
<1> HIDE DEF k, l, m
<1> DEFINE b == n % 256
           c == k % 256
           d == l % 256
           e == m % 256
<1>5. SizeBytes(n) = <<b, c, d, e>> /\ {b, c, d, e} \subseteq 0..255
  BY <1>2, <1>4
<1>6. m < 256 => n = b + 256 * (c + 256 * (d + 256 * e))
  <2>1. n = b + 256 * (c + 256 * (d + 256 * m))
    BY <1>2
  <2>2. QED BY <1>3, <2>1
<1> HIDE DEF b, c, d, e
<1>7. QED
  BY <1>4, <1>5, <1>6

\* A byte goes from the front of the line to the end of what was read.
LEMMA TakeByte ==
    ASSUME NEW S, NEW q \in Seq(S), NEW r \in Seq(S), r # <<>>
    PROVE  /\ Head(r) \in S /\ Tail(r) \in Seq(S) /\ Len(Tail(r)) = Len(r) - 1 /\ Len(r) \in Nat \ {0}
           /\ Append(q, Head(r)) \in Seq(S) /\ Len(Append(q, Head(r))) = Len(q) + 1
           /\ Append(q, Head(r)) \o Tail(r) = q \o r
<1> DEFINE x == Head(r)
           t == Tail(r)
           a == Append(q, x)
<1>1. Len(q) \in Nat /\ Len(r) \in Nat \ {0} /\ x \in S /\ x = r[1]
  OBVIOUS
<1>2. t \in Seq(S) /\ Len(t) = Len(r) - 1 /\ \A i \in 1..(Len(r) - 1) : t[i] = r[i + 1]
  BY <1>1
<1>3. /\ a \in Seq(S) /\ Len(a) = Len(q) + 1 /\ a[Len(q) + 1] = x
      /\ \A i \in 1..Len(q) : a[i] = q[i]
  BY <1>1
<1> HIDE DEF x, t, a
<1>4. /\ a \o t \in Seq(S) /\ q \o r \in Seq(S)
      /\ Len(a \o t) = Len(a) + Len(t) /\ Len(q \o r) = Len(q) + Len(r)
      /\ Len(a \o t) = Len(q \o r)
  <2>1. /\ a \o t \in Seq(S) /\ q \o r \in Seq(S)
        /\ Len(a \o t) = Len(a) + Len(t) /\ Len(q \o r) = Len(q) + Len(r)
    BY <1>2, <1>3, ConcatProperties
  <2>2. QED BY <1>1, <1>2, <1>3, <2>1
<1>5. ASSUME NEW i \in 1..Len(q \o r) PROVE (a \o t)[i] = (q \o r)[i]
  <2>1. i \in 1..(Len(q) + Len(r))
    BY <1>4, <1>5
  <2>0. i <= Len(q) \/ i = Len(q) + 1 \/ i > Len(q) + 1
    BY <1>1, <2>1
  <2>2. CASE i <= Len(q)
    <3>1. (q \o r)[i] = q[i] /\ (a \o t)[i] = a[i]
      BY <1>1, <1>2, <1>3, <2>1, <2>2
    <3>2. QED BY <1>1, <1>3, <2>1, <2>2, <3>1
  <2>3. CASE i = Len(q) + 1
    <3>1. (q \o r)[i] = r[1] /\ (a \o t)[i] = a[i]
      BY <1>1, <1>2, <1>3, <2>1, <2>3
    <3>2. QED BY <1>1, <1>3, <2>3, <3>1
  <2>4. CASE i > Len(q) + 1
    <3>1. i - Len(q) - 1 \in 1..(Len(r) - 1) /\ (i - Len(q) - 1) + 1 = i - Len(q)
      BY <1>1, <2>1, <2>4
    <3>2. (q \o r)[i] = r[i - Len(q)] /\ (a \o t)[i] = t[i - Len(q) - 1]
      BY <1>1, <1>2, <1>3, <2>1, <2>4
    <3>3. QED BY <1>2, <3>1, <3>2
  <2>5. QED BY <2>0, <2>2, <2>3, <2>4
<1>6. a \o t = q \o r
  BY <1>4, <1>5, SeqEqual
<1>7. QED
  BY <1>1, <1>2, <1>3, <1>6 DEF x, t, a

\* The element behind a prefix is the first one of what follows.
LEMMA FirstAfter ==
    ASSUME NEW S, NEW q \in Seq(S), NEW r \in Seq(S), r # <<>>
    PROVE  (q \o r)[Len(q) + 1] = r[1]
<1>1. Len(q) \in Nat /\ Len(r) \in Nat /\ Len(r) > 0
  BY EmptySeq, LenProperties
<1>2. Len(q) + 1 \in 1..(Len(q) + Len(r)) /\ ~(Len(q) + 1 <= Len(q)) /\ Len(q) + 1 - Len(q) = 1
  BY <1>1
<1>3. QED
  BY <1>2, ConcatProperties

LEMMA ConcatBytes ==
    ASSUME NEW S, NEW q \in Seq(S), NEW r \in Seq(S), NEW n \in Nat, Len(q) = n
    PROVE  /\ q \o r \in Seq(S) /\ Len(q \o r) = n + Len(r)
           /\ \A i \in 1..n : (q \o r)[i] = q[i]
           /\ \A i \in 1..Len(r) : (q \o r)[n + i] = r[i]
<1> DEFINE c == q \o r
<1>1. c \in Seq(S) /\ Len(c) = Len(q) + Len(r)
  BY ConcatProperties
<1>2. \A i \in 1..(Len(q) + Len(r)) : c[i] = IF i <= Len(q) THEN q[i] ELSE r[i - Len(q)]
  BY ConcatProperties
<1> HIDE DEF c
<1>3. Len(r) \in Nat
  OBVIOUS
<1>4. \A i \in 1..n : i \in 1..(Len(q) + Len(r)) /\ i <= Len(q)
  BY <1>3
<1>5. \A i \in 1..Len(r) : n + i \in 1..(Len(q) + Len(r)) /\ ~(n + i <= Len(q)) /\ (n + i) - Len(q) = i
  BY <1>3
<1>6. \A i \in 1..n : c[i] = q[i]
  BY <1>2, <1>4
<1>7. \A i \in 1..Len(r) : c[n + i] = r[i]
  BY <1>2, <1>5
<1>8. Len(c) = n + Len(r)
  BY <1>1
<1>9. QED BY <1>1, <1>6, <1>7, <1>8 DEF c

\* What the host sends, as bytes.
LEMMA SentFacts ==
    ASSUME NEW f \in Seq(0..255)
    PROVE  /\ Sent(f) \in Seq(0..255) /\ Len(Sent(f)) = 8 + Len(f)
           /\ \A i \in 1..4 : Sent(f)[i] = BOOT_MAGIC[i]
           /\ Sendable(f) => \A i \in 1..8 : Sent(f)[i] # CARRIAGE_RETURN
           /\ Sendable(f) =>
              Len(f) = Sent(f)[5] + 256 * (Sent(f)[6] + 256 * (Sent(f)[7] + 256 * Sent(f)[8]))
           /\ \A i \in 1..Len(f) : Sent(f)[8 + i] = f[i]
<1> DEFINE z == SizeBytes(Len(f))
           h == BOOT_MAGIC \o z
<1>1. Len(f) \in Nat
  OBVIOUS
<1>2. /\ z \in Seq(0..255) /\ Len(z) = 4
      /\ Sendable(f) => Len(f) = z[1] + 256 * (z[2] + 256 * (z[3] + 256 * z[4]))
  BY <1>1, SizeIsRead DEF Sendable
<1>3. Sendable(f) => \A i \in 1..4 : z[i] # CARRIAGE_RETURN
  BY <1>2 DEF Sendable, Range
<1> HIDE DEF z
<1>4. /\ BOOT_MAGIC \in Seq(0..255) /\ Len(BOOT_MAGIC) = 4
      /\ \A i \in 1..4 : BOOT_MAGIC[i] # CARRIAGE_RETURN
  BY DEF BOOT_MAGIC, CARRIAGE_RETURN
<1>5. /\ h \in Seq(0..255) /\ Len(h) = 8
      /\ \A i \in 1..4 : h[i] = BOOT_MAGIC[i] /\ h[4 + i] = z[i]
  <2>1. /\ h \in Seq(0..255) /\ Len(h) = 4 + Len(z)
        /\ \A i \in 1..4 : h[i] = BOOT_MAGIC[i]
        /\ \A i \in 1..Len(z) : h[4 + i] = z[i]
    <3> DEFINE D == 0..255
               n == 4
               m == BOOT_MAGIC
    <3>1. z \in Seq(D) /\ m \in Seq(D) /\ Len(m) = n /\ n \in Nat
      BY <1>2, <1>4
    <3> HIDE DEF D, n, m
    <3>2. /\ m \o z \in Seq(D) /\ Len(m \o z) = n + Len(z)
          /\ \A i \in 1..n : (m \o z)[i] = m[i]
          /\ \A i \in 1..Len(z) : (m \o z)[n + i] = z[i]
      BY <3>1, ConcatBytes
    <3>3. QED BY <3>2 DEF D, n, m
  <2> HIDE DEF h
  <2>2. QED BY <1>2, <2>1
<1>6. Sendable(f) => \A i \in 1..8 : h[i] # CARRIAGE_RETURN
  <2> SUFFICES ASSUME Sendable(f), NEW i \in 1..8 PROVE h[i] # CARRIAGE_RETURN
    OBVIOUS
  <2>1. i \in 1..4 \/ (i - 4 \in 1..4 /\ i = 4 + (i - 4))
    OBVIOUS
  <2> HIDE DEF h
  <2>2. QED BY <1>3, <1>4, <1>5, <2>1
<1>7. Sent(f) = h \o f
  BY DEF Sent, z
<1> HIDE DEF h
<1>8. /\ Sent(f) \in Seq(0..255) /\ Len(Sent(f)) = 8 + Len(f)
      /\ \A i \in 1..8 : Sent(f)[i] = h[i]
      /\ \A i \in 1..Len(f) : Sent(f)[8 + i] = f[i]
  <2> DEFINE D == 0..255
             n == 8
  <2>1. f \in Seq(D) /\ h \in Seq(D) /\ Len(h) = n /\ n \in Nat
    BY <1>5
  <2> HIDE DEF D, n
  <2>2. /\ h \o f \in Seq(D) /\ Len(h \o f) = n + Len(f)
        /\ \A i \in 1..n : (h \o f)[i] = h[i]
        /\ \A i \in 1..Len(f) : (h \o f)[n + i] = f[i]
    BY <2>1, ConcatBytes
  <2>3. QED BY <1>7, <2>2 DEF D, n
<1>9. h[5] = z[1] /\ h[6] = z[2] /\ h[7] = z[3] /\ h[8] = z[4]
  <2>1. h[4 + 1] = z[1] /\ h[4 + 2] = z[2] /\ h[4 + 3] = z[3] /\ h[4 + 4] = z[4]
    BY <1>5
  <2>2. QED BY <2>1
<1>10. QED
  BY <1>2, <1>4, <1>5, <1>6, <1>8, <1>9

-----------------------------------------------------------------------------
(* The line *)

\* The line is what the screen shows.
Shown ==
    /\ Len(screen) = buf_len
    /\ \A i \in 1..buf_len : screen[i] = buffer[i - 1] /\ screen[i] # NUL

LEMMA LineFacts ==
    ASSUME EditorTypeOK, ~TooLong
    PROVE  /\ Line \in Seq(0..255)
           /\ Shown => Line = screen
<1> DEFINE b == Terminated
           ends == {i \in DOMAIN b : b[i] = NUL}
           m == Min(ends)
<1>1. /\ BUFFER_SIZE \in Nat \ {0} /\ buf_len \in 0..(BUFFER_SIZE - 1)
      /\ buffer \in [0..(BUFFER_SIZE - 1) -> 0..255] /\ screen \in Seq(0..255)
  BY EditorAssumption DEF EditorTypeOK, TooLong
<1>2. /\ b \in [0..(BUFFER_SIZE - 1) -> 0..255] /\ b[buf_len] = NUL
      /\ \A i \in 0..(BUFFER_SIZE - 1) : i # buf_len => b[i] = buffer[i]
  BY <1>1 DEF Terminated, NUL
<1>3. buf_len \in ends /\ ends \in SUBSET Nat /\ ends \subseteq 0..(BUFFER_SIZE - 1)
  BY <1>1, <1>2
<1> HIDE DEF b
<1>4. m \in ends /\ \A i \in ends : m <= i
  <2> HIDE DEF ends
  <2>1. \E x \in ends : \A y \in ends : x <= y
    BY <1>3, LeastNumber
  <2>2. m = CHOOSE x \in ends : \A y \in ends : x <= y
    BY DEF Min
  <2>3. QED BY <2>1, <2>2
<1>5. Line = [i \in 1..m |-> b[i - 1]]
  BY <1>3 DEF Line, b
<1>6. m \in Nat /\ m <= buf_len /\ m \in 0..(BUFFER_SIZE - 1) /\ b[m] = NUL
  BY <1>3, <1>4
<1> HIDE DEF m, ends
<1>7. \A i \in 1..m : i - 1 \in 0..(BUFFER_SIZE - 1) /\ i - 1 # buf_len
  BY <1>1, <1>6
<1>8. Line \in [1..m -> 0..255]
  BY <1>2, <1>5, <1>7
<1>9. Line \in Seq(0..255) /\ Len(Line) = m
  BY <1>6, <1>8, FunctionIsSeq
<1>10. ASSUME Shown PROVE Line = screen
  <2>1. m = buf_len
    <3> SUFFICES ASSUME m # buf_len PROVE FALSE
      OBVIOUS
    <3>1. m + 1 \in 1..buf_len /\ (m + 1) - 1 = m
      BY <1>1, <1>6
    <3>2. buffer[m] # NUL
      BY <1>10, <3>1 DEF Shown
    <3>3. QED BY <1>2, <1>6, <3>2
  <2>2. \A i \in 1..m : Line[i] = screen[i]
    BY <1>2, <1>5, <1>7, <1>10, <2>1 DEF Shown
  <2>3. Len(screen) = m
    BY <1>10, <2>1 DEF Shown
  <2>4. QED BY <1>1, <1>9, <2>2, <2>3, SeqEqual
<1>11. QED
  BY <1>9, <1>10

\* Everything the shell does with its line but add to it.
Edits ==
    \/ erase
    \/ new_line /\ UNCHANGED ran
    \/ new_line /\ ~TooLong /\ ran' = Line
    \/ UNCHANGED <<buffer, buf_len, screen, prompt>> /\ ~TooLong /\ ran' = Line
    \/ UNCHANGED editorVars

LEMMA FrontElements ==
    ASSUME NEW S, NEW q \in Seq(S), q # <<>>
    PROVE  /\ Front(q) \in Seq(S) /\ Len(Front(q)) = Len(q) - 1
           /\ \A i \in 1..(Len(q) - 1) : Front(q)[i] = q[i]
<1>1. Len(q) \in Nat /\ Len(q) >= 1
  BY EmptySeq, LenProperties
<1>2. QED
  BY <1>1, PopElements DEF Front

\* Without its last member a sequence is one still, even the empty one.
LEMMA FrontIsSeq ==
    ASSUME NEW S, NEW q \in Seq(S)
    PROVE  Front(q) \in Seq(S)
<1>1. Front(q) = SubSeq(q, 1, Len(q) - 1)
  BY DEF Front
<1>2. Len(q) \in Nat /\ \A i \in 1..(Len(q) - 1) : q[i] \in S
  BY ElementOfSeq, LenProperties
<1>3. 1 \in Int /\ Len(q) - 1 \in Int
  BY <1>2
<1>4. QED
  BY <1>1, <1>2, <1>3, SubSeqProperties

LEMMA EditorKeeps ==
    ASSUME EditorTypeOK, NEW c \in 0..255, Edits \/ insert(c)
    PROVE  EditorTypeOK'
<1>1. /\ BUFFER_SIZE \in Nat \ {0} /\ PromptCells \in Nat /\ buf_len \in 0..BUFFER_SIZE
      /\ buffer \in [0..(BUFFER_SIZE - 1) -> 0..255] /\ screen \in Seq(0..255)
      /\ prompt \in 0..PromptCells /\ ran \in Seq(0..255)
  BY EditorAssumption DEF EditorTypeOK
<1>2. ASSUME new_line, ran' \in Seq(0..255) PROVE EditorTypeOK'
  <2>1. Zeroed \in [0..(BUFFER_SIZE - 1) -> 0..255]
    BY DEF Zeroed, NUL
  <2>2. QED BY <1>1, <1>2, <2>1 DEF new_line, EditorTypeOK
<1>3. CASE erase
  <2>1. screen # <<>> => Front(screen) \in Seq(0..255)
    BY <1>1, FrontElements
  <2>2. screen' \in Seq(0..255) /\ prompt' \in 0..PromptCells /\ buf_len' \in 0..BUFFER_SIZE
    BY <1>1, <1>3, <2>1 DEF erase
  <2>3. QED BY <1>1, <1>3, <2>2 DEF erase, EditorTypeOK
<1>4. CASE insert(c)
  <2>1. screen' \in Seq(0..255)
    BY <1>1, <1>4 DEF insert
  <2>2. CASE buf_len < BUFFER_SIZE
    <3>1. buf_len \in 0..(BUFFER_SIZE - 1) /\ buf_len + 1 \in 0..BUFFER_SIZE
      BY <1>1, <2>2
    <3>2. /\ buffer' = [buffer EXCEPT ![buf_len] = c] /\ buf_len' = buf_len + 1
          /\ prompt' = prompt /\ ran' = ran
      BY <1>4, <2>2 DEF insert
    <3>3. buffer' \in [0..(BUFFER_SIZE - 1) -> 0..255]
      BY <1>1, <3>1, <3>2
    <3>4. QED BY <1>1, <2>1, <3>1, <3>2, <3>3 DEF EditorTypeOK
  <2>3. CASE ~(buf_len < BUFFER_SIZE)
    BY <1>1, <1>4, <2>1, <2>3 DEF insert, EditorTypeOK
  <2>4. QED BY <2>2, <2>3
<1>5. CASE UNCHANGED <<buffer, buf_len, screen, prompt>> /\ ran' \in Seq(0..255)
  BY <1>1, <1>5 DEF EditorTypeOK
<1>6. CASE UNCHANGED editorVars
  BY <1>1, <1>6 DEF EditorTypeOK, editorVars
<1>7. QED
  BY <1>1, <1>2, <1>3, <1>4, <1>5, <1>6, LineFacts DEF Edits

LEMMA ShownKept ==
    ASSUME EditorTypeOK, Shown, NEW c \in 0..255,
           Edits \/ (insert(c) /\ c # NUL /\ Len(screen) < BUFFER_SIZE)
    PROVE  Shown' /\ (ran' # ran => ran' = screen)
<1>1. /\ BUFFER_SIZE \in Nat \ {0} /\ buf_len \in Nat
      /\ buffer \in [0..(BUFFER_SIZE - 1) -> 0..255] /\ screen \in Seq(0..255)
      /\ Len(screen) = buf_len /\ buf_len <= BUFFER_SIZE
  BY EditorAssumption DEF EditorTypeOK, Shown
<1>2. ASSUME new_line PROVE Shown'
  BY <1>2 DEF new_line, Shown
<1>3. CASE erase
  <2>1. ran' = ran
    BY <1>3 DEF erase
  <2>2. CASE screen = <<>>
    BY <1>1, <1>3, <2>2 DEF erase, Shown
  <2>3. CASE screen # <<>>
    <3>1. /\ Front(screen) \in Seq(0..255) /\ Len(Front(screen)) = Len(screen) - 1
          /\ \A i \in 1..(Len(screen) - 1) : Front(screen)[i] = screen[i]
      <4>1. screen \in Seq(0..255)
        BY <1>1
      <4>2. QED BY <2>3, <4>1, FrontElements, Zenon
    <3>2. buf_len > 0
      BY <1>1, <2>3, EmptySeq
    <3>3. buf_len' = buf_len - 1 /\ screen' = Front(screen) /\ buffer' = buffer
      BY <1>3, <2>3, <3>2 DEF erase
    <3>4. \A i \in 1..(buf_len - 1) : i \in 1..buf_len
      BY <1>1
    <3>5. QED BY <1>1, <2>1, <3>1, <3>3, <3>4 DEF Shown
  <2>4. QED BY <2>2, <2>3
<1>4. CASE insert(c) /\ c # NUL /\ Len(screen) < BUFFER_SIZE
  <2>1. ran' = ran /\ buf_len < BUFFER_SIZE /\ c # NUL
    BY <1>1, <1>4 DEF insert
  <2>2. /\ buffer' = [buffer EXCEPT ![buf_len] = c] /\ buf_len' = buf_len + 1
        /\ screen' = Append(screen, c)
    BY <1>4, <2>1 DEF insert
  <2>3. /\ Len(screen') = buf_len + 1 /\ screen'[buf_len + 1] = c
        /\ \A i \in 1..buf_len : screen'[i] = screen[i]
    BY <1>1, <2>2
  <2>4. buffer'[buf_len] = c /\ \A i \in 0..(BUFFER_SIZE - 1) : i # buf_len => buffer'[i] = buffer[i]
    BY <1>1, <2>1, <2>2
  <2>5. \A i \in 1..buf_len : i - 1 \in 0..(BUFFER_SIZE - 1) /\ i - 1 # buf_len
    BY <1>1
  <2>6. \A i \in 1..(buf_len + 1) : i \in 1..buf_len \/ (i = buf_len + 1 /\ i - 1 = buf_len)
    BY <1>1
  <2>7. ASSUME NEW i \in 1..(buf_len + 1) PROVE screen'[i] = buffer'[i - 1] /\ screen'[i] # NUL
    <3>1. CASE i \in 1..buf_len
      BY <2>3, <2>4, <2>5, <3>1 DEF Shown
    <3>2. CASE i = buf_len + 1 /\ i - 1 = buf_len
      BY <2>1, <2>3, <2>4, <3>2
    <3>3. QED BY <2>6, <3>1, <3>2
  <2>8. QED BY <2>1, <2>2, <2>3, <2>7 DEF Shown
<1>5. ASSUME UNCHANGED <<buffer, buf_len, screen, prompt>> PROVE Shown'
  BY <1>5 DEF Shown
<1>6. CASE UNCHANGED editorVars
  BY <1>6 DEF Shown, editorVars
<1>7. QED
  BY <1>2, <1>3, <1>4, <1>5, <1>6, LineFacts DEF Edits

-----------------------------------------------------------------------------
(* The loader *)

\* A step of the machine as the loader sees it.
LoaderNext == LoaderStep \/ HostStep \/ jump \/ reload

\* What is on its way begins with the magic number, or goes on with it.
Announced ==
    /\ \A i \in 1..4 : i <= Len(header) => header[i] = BOOT_MAGIC[i]
    /\ \A i \in 1..4 : (i > Len(header) /\ i - Len(header) <= Len(rx)) =>
                          rx[i - Len(header)] = BOOT_MAGIC[i]

\* What is typed comes one byte at a time, and only where it was typed.
OnTheWay ==
    /\ pc = "start" => rx = <<>>
    /\ pc = "shell" =>
         \/ rx = <<>>
         \/ /\ Len(rx) = 1 /\ rx[1] \in Typed
            /\ IsRegular(rx[1]) => Len(screen) < MaxLine
    /\ pc = "header" => rx = <<>> \/ (Len(rx) = 1 /\ Len(header) < 8) \/ Announced

\* Where the loader is in its work.
Stages ==
    /\ home = "linked" => pc = "start" /\ had_relocated["linked"] = -1
    /\ pc \in {"start", "shell", "header"} => got = <<>>
    /\ pc \in {"start", "shell"} => header = <<>>

LoaderInv == LoaderTypeOK /\ Stages /\ OnTheWay

LEMMA LoaderTypes ==
    ASSUME LoaderTypeOK
    PROVE  /\ EditorTypeOK /\ BUFFER_SIZE \in Nat \ {0}
           /\ rx \in Seq(0..255) /\ header \in Seq(0..255) /\ got \in Seq(0..255) /\ file \in Seq(0..255)
           /\ Len(header) \in Nat /\ Len(header) <= 8
           /\ rx # <<>> => Head(rx) \in 0..255 /\ uart_getc(Head(rx)) \in 0..255
<1>1. /\ EditorTypeOK /\ BUFFER_SIZE \in Nat \ {0}
      /\ rx \in Seq(0..255) /\ header \in Seq(0..255) /\ got \in Seq(0..255) /\ file \in Seq(0..255)
      /\ Len(header) \in Nat /\ Len(header) <= 8
  BY EditorAssumption DEF LoaderTypeOK
<1>2. rx # <<>> => Head(rx) \in 0..255
  BY <1>1, TakeByte
<1>3. uart_getc(Head(rx)) = Head(rx) \/ uart_getc(Head(rx)) = 10
  BY DEF uart_getc, LINE_FEED
<1>4. 10 \in 0..255
  OBVIOUS
<1>5. QED
  BY <1>1, <1>2, <1>3, <1>4

\* What put_char does to the line.
LEMMA PutCharEdits ==
    ASSUME LoaderTypeOK, put_char
    PROVE  \/ Edits
           \/ insert(Head(rx)) /\ IsRegular(Head(rx))
<1> DEFINE c == uart_getc(Head(rx))
<1>1. IsRegular(c) => c = Head(rx)
  BY DEF IsRegular, IsLineFeed, uart_getc, LINE_FEED
<1>2. \/ erase
      \/ IsRegular(c) /\ insert(c)
      \/ new_line /\ ran' = ran
      \/ new_line /\ ~TooLong /\ ran' = Line
      \/ UNCHANGED <<buffer, buf_len, screen, prompt>> /\ ~TooLong /\ ran' = Line
      \/ UNCHANGED editorVars
  BY DEF put_char
<1> HIDE DEF c
<1>3. QED
  BY <1>1, <1>2 DEF Edits

\* The bytes a host sends, however far it gets.
LEMMA HostBytes ==
    ASSUME NEW f \in Kernels, NEW n \in 0..Len(Sent(f))
    PROVE  /\ f \in Seq(0..255) /\ Len(Sent(f)) \in Nat
           /\ SubSeq(Sent(f), 1, n) \in Seq(0..255)
           /\ Len(SubSeq(Sent(f), 1, n)) = n
           /\ \A i \in 1..n : SubSeq(Sent(f), 1, n)[i] = Sent(f)[i]
<1> DEFINE q == Sent(f)
           D == 0..255
<1>1. f \in Seq(D)
  BY LoaderAssumption
<1>2. q \in Seq(D) /\ Len(q) \in Nat
  BY <1>1, SentFacts, LenProperties
<1> HIDE DEF q, D
<1>3. 1 \in 1..(Len(q) + 1) /\ n \in 0..Len(q) /\ 1 <= n + 1
  BY <1>2 DEF q
<1>4. /\ SubSeq(q, 1, n) \in Seq(D) /\ Len(SubSeq(q, 1, n)) = n - 1 + 1
      /\ \A i \in 1..(n - 1 + 1) : SubSeq(q, 1, n)[i] = q[1 + i - 1]
  BY <1>2, <1>3, PartElements
<1>5. /\ SubSeq(q, 1, n) \in Seq(D) /\ Len(SubSeq(q, 1, n)) = n
      /\ \A i \in 1..n : SubSeq(q, 1, n)[i] = q[i]
  BY <1>3, <1>4
<1>6. QED
  BY <1>1, <1>2, <1>5 DEF q, D

LEMMA LoaderTypeKept ==
    ASSUME LoaderTypeOK, LoaderNext
    PROVE  LoaderTypeOK'
<1> DEFINE B == Seq(0..255)
           Spots == {"start", "shell", "header", "payload", "kernel"}
           Bytes == rx' \in B /\ header' \in B /\ got' \in B /\ file' \in B /\ Len(header') <= 8
           Rooms == pc' \in Spots /\ home' \in {"linked", "copy"}
                    /\ had_relocated' \in [{"linked", "copy"} -> {-1, 0, 1}]
<1>1. /\ EditorTypeOK
      /\ rx \in B /\ header \in B /\ got \in B /\ file \in B /\ Len(header) \in Nat /\ Len(header) <= 8
      /\ pc \in Spots /\ home \in {"linked", "copy"}
      /\ had_relocated \in [{"linked", "copy"} -> {-1, 0, 1}]
  BY LoaderTypes DEF LoaderTypeOK
<1>2. rx # <<>> => /\ Tail(rx) \in B /\ uart_getc(Head(rx)) \in 0..255 /\ Head(rx) \in 0..255
  BY <1>1, LoaderTypes
<1>3. SUFFICES EditorTypeOK' /\ Bytes /\ Rooms
  BY DEF LoaderTypeOK
<1>4. ASSUME Edits PROVE EditorTypeOK'
  <2>1. 0 \in 0..255
    OBVIOUS
  <2>2. QED BY <1>1, <1>4, <2>1, EditorKeeps
<1>5. <<>> \in B /\ Len(<<>>) = 0
  OBVIOUS
<1> HIDE DEF B, Spots
<1>6. CASE code_relocate
  <2>1. EditorTypeOK'
    BY <1>4, <1>6 DEF code_relocate, Edits
  <2>2. Bytes
    BY <1>1, <1>6 DEF code_relocate
  <2>3. Rooms
    <3>1. had_relocated' \in [{"linked", "copy"} -> {-1, 0, 1}]
      BY <1>1, <1>6 DEF code_relocate
    <3>2. QED BY <1>1, <1>6, <3>1 DEF code_relocate
  <2>4. QED BY <2>1, <2>2, <2>3
<1>7. CASE main
  <2>1. EditorTypeOK'
    BY <1>4, <1>7 DEF main, Edits
  <2>2. pc' \in Spots
    BY <1>7 DEF main, Spots
  <2>3. QED BY <1>1, <1>7, <2>1, <2>2 DEF main, loadVars
<1>8. CASE put_char
  <2>1. EditorTypeOK'
    BY <1>1, <1>2, <1>4, <1>8, PutCharEdits, EditorKeeps DEF put_char
  <2>2. Bytes
    <3>1. rx # <<>> /\ rx' = Tail(rx) /\ header' = header /\ got' = got /\ file' = file
      BY <1>8 DEF put_char
    <3>2. QED BY <1>1, <1>2, <3>1
  <2>3. pc' \in Spots
    BY <1>1, <1>8 DEF put_char, Spots
  <2>4. QED BY <1>1, <1>8, <2>1, <2>2, <2>3 DEF put_char
<1>9. CASE load_header
  <2>1. Append(header, uart_getc(Head(rx))) \in B /\ Len(Append(header, uart_getc(Head(rx)))) = Len(header) + 1
    BY <1>1, <1>2, <1>9 DEF load_header, B
  <2>2. Len(header) + 1 <= 8
    BY <1>1, <1>9 DEF load_header
  <2>3. EditorTypeOK'
    BY <1>4, <1>9 DEF load_header, Edits
  <2>4. QED BY <1>1, <1>2, <1>9, <2>1, <2>2, <2>3 DEF load_header
<1>10. CASE bad_magic
  BY <1>1, <1>4, <1>5, <1>10 DEF bad_magic, Edits, Spots
<1>11. CASE good_magic
  <2>1. EditorTypeOK'
    BY <1>4, <1>11 DEF good_magic, Edits
  <2>2. pc' \in Spots
    BY <1>11 DEF good_magic, Spots
  <2>3. QED BY <1>1, <1>11, <2>1, <2>2 DEF good_magic, loadVars
<1>12. CASE load_payload
  <2>1. Append(got, uart_getc_raw(Head(rx))) \in B
    BY <1>1, <1>2, <1>12 DEF load_payload, B, uart_getc_raw
  <2>2. EditorTypeOK'
    BY <1>4, <1>12 DEF load_payload, Edits
  <2>3. QED BY <1>1, <1>2, <1>12, <2>1, <2>2 DEF load_payload
<1>13. ASSUME NEW c \in Typed \cup Stray, types(c) PROVE EditorTypeOK' /\ Bytes /\ Rooms
  <2>1. <<c>> \in B
    <3>1. c \in 0..255
      BY LoaderAssumption
    <3>2. QED BY <3>1 DEF B
  <2>2. EditorTypeOK'
    BY <1>4, <1>13 DEF types, Edits
  <2>3. rx' \in B
    BY <1>13, <2>1 DEF types
  <2>4. QED BY <1>1, <1>13, <2>2, <2>3 DEF types
<1>14. ASSUME NEW f \in Kernels, send_kernel(f) PROVE EditorTypeOK' /\ Bytes /\ Rooms
  <2>1. PICK n \in 0..Len(Sent(f)) : rx' = SubSeq(Sent(f), 1, n)
    <3>1. f \in Seq(0..255)
      BY LoaderAssumption
    <3>2. Len(Sent(f)) \in Nat
      BY <3>1, SentFacts, LenProperties
    <3>3. Len(Sent(f)) \in 0..Len(Sent(f))
      BY <3>2
    <3>4. QED BY <1>14, <3>3 DEF send_kernel
  <2>2. f \in B /\ rx' \in B
    BY <2>1, HostBytes DEF B
  <2>3. EditorTypeOK'
    BY <1>4, <1>14 DEF send_kernel, Edits
  <2>4. QED BY <1>1, <1>14, <2>2, <2>3 DEF send_kernel
<1>15. CASE jump
  <2>1. EditorTypeOK'
    BY <1>4, <1>15 DEF jump, Edits
  <2>2. pc' \in Spots
    BY <1>15 DEF jump, Spots
  <2>3. QED BY <1>1, <1>15, <2>1, <2>2 DEF jump, loadVars
<1>16. CASE reload
  <2>1. Fresh \in [{"linked", "copy"} -> {-1, 0, 1}]
    BY DEF Fresh
  <2>2. QED BY <1>4, <1>5, <1>16, <2>1 DEF reload, Edits, Spots
<1>17. QED
  BY <1>6, <1>7, <1>8, <1>9, <1>10, <1>11, <1>12, <1>13, <1>14, <1>15, <1>16
     DEF LoaderNext, LoaderStep, HostStep

LEMMA StagesKept ==
    ASSUME LoaderInv, LoaderNext
    PROVE  Stages'
<1> DEFINE set == [had_relocated EXCEPT !["linked"] = 1]
<1>1. /\ home = "linked" => pc = "start" /\ had_relocated["linked"] = -1
      /\ pc \in {"start", "shell", "header"} => got = <<>>
      /\ pc \in {"start", "shell"} => header = <<>>
      /\ home \in {"linked", "copy"}
  BY DEF LoaderInv, LoaderTypeOK, Stages
<1>2. CASE code_relocate
  BY <1>1, <1>2 DEF code_relocate, Stages
<1>3. CASE main
  BY <1>1, <1>3 DEF main, loadVars, Stages, AtStart
<1>4. CASE put_char
  BY <1>1, <1>4 DEF put_char, Stages
<1>5. CASE load_header
  BY <1>1, <1>5 DEF load_header, Stages
<1>6. CASE bad_magic
  BY <1>1, <1>6 DEF bad_magic, Stages
<1>7. CASE good_magic
  BY <1>1, <1>7 DEF good_magic, loadVars, Stages
<1>8. CASE load_payload
  BY <1>1, <1>8 DEF load_payload, Stages
<1>9. CASE HostStep
  BY <1>1, <1>9 DEF HostStep, types, send_kernel, Stages
<1>10. CASE jump
  BY <1>1, <1>10 DEF jump, loadVars, Stages
<1>11. CASE reload
  BY <1>1, <1>11 DEF reload, Fresh, Stages
<1>12. QED
  BY <1>2, <1>3, <1>4, <1>5, <1>6, <1>7, <1>8, <1>9, <1>10, <1>11 DEF LoaderNext, LoaderStep

LEMMA OnTheWayKept ==
    ASSUME ~TypesAhead, LoaderInv, LoaderNext
    PROVE  OnTheWay'
<1> DEFINE D == 0..255
<1>1. /\ rx \in Seq(D) /\ header \in Seq(D) /\ Len(header) \in Nat
      /\ OnTheWay /\ home \in {"linked", "copy"}
  BY LoaderTypes DEF LoaderInv, LoaderTypeOK
<1> HIDE DEF D
<1>2. rx # <<>> => /\ Tail(rx) \in Seq(D) /\ Len(Tail(rx)) = Len(rx) - 1 /\ Len(rx) \in Nat \ {0}
  BY <1>1, TakeByte
<1>3. rx # <<>> /\ Len(rx) = 1 => Tail(rx) = <<>>
  <2>1. rx # <<>> /\ Len(rx) = 1 => Len(Tail(rx)) = 0
    BY <1>2
  <2>2. QED BY <1>2, <2>1, EmptySeq
<1>4. CASE code_relocate
  BY <1>1, <1>4 DEF code_relocate, OnTheWay
<1>5. CASE main
  BY <1>1, <1>5 DEF main, loadVars, OnTheWay
<1>6. CASE put_char
  <2>1. pc' \in {"shell", "header"} /\ rx' = Tail(rx) /\ rx # <<>> /\ pc = "shell"
    BY <1>6 DEF put_char
  <2>2. rx' = <<>>
    BY <1>1, <1>3, <2>1 DEF OnTheWay
  <2>3. QED BY <2>2 DEF OnTheWay
<1>7. CASE load_header
  <2> DEFINE x == uart_getc(Head(rx))
  <2>1. rx # <<>> /\ pc = "header" /\ pc' = "header" /\ rx' = Tail(rx) /\ header' = Append(header, x)
    BY <1>7 DEF load_header
  <2>2. CASE Len(rx) = 1
    BY <1>3, <2>1, <2>2 DEF OnTheWay
  <2>3. CASE Len(rx) # 1
    <3>0. x \in D
      BY <2>1, LoaderTypes DEF LoaderInv, D
    <3> HIDE DEF x
    <3>1. Announced
      BY <1>1, <2>1, <2>3 DEF OnTheWay
    <3>2. /\ Len(header') = Len(header) + 1 /\ header'[Len(header) + 1] = x
          /\ \A i \in 1..Len(header) : header'[i] = header[i]
      BY <1>1, <2>1, <3>0
    <3>3. Len(rx') = Len(rx) - 1 /\ Len(rx) \in Nat /\ \A i \in 1..(Len(rx) - 1) : rx'[i] = rx[i + 1]
      BY <1>1, <1>2, <2>1, HeadTailProperties
    <3>4. Len(header) < 4 => x = BOOT_MAGIC[Len(header) + 1]
      <4>1. Head(rx) = rx[1]
        BY <1>1, <2>1, HeadTailProperties
      <4>2. ASSUME Len(header) < 4 PROVE rx[1] = BOOT_MAGIC[Len(header) + 1]
        <5>1. /\ Len(header) + 1 \in 1..4 /\ Len(header) + 1 > Len(header)
              /\ (Len(header) + 1) - Len(header) = 1 /\ 1 <= Len(rx)
          BY <1>1, <1>2, <2>1, <4>2
        <5>2. QED BY <3>1, <5>1 DEF Announced
      <4>3. \A i \in 1..4 : BOOT_MAGIC[i] # CARRIAGE_RETURN
        BY DEF BOOT_MAGIC, CARRIAGE_RETURN
      <4>4. Len(header) < 4 => Len(header) + 1 \in 1..4
        BY <1>1
      <4>5. QED BY <4>1, <4>2, <4>3, <4>4 DEF x, uart_getc
    <3>5. ASSUME NEW i \in 1..4, i <= Len(header) + 1 PROVE header'[i] = BOOT_MAGIC[i]
      <4>1. CASE i <= Len(header)
        <5>1. i \in 1..Len(header)
          BY <1>1, <4>1
        <5>2. QED BY <3>1, <3>2, <4>1, <5>1 DEF Announced
      <4>2. CASE i = Len(header) + 1
        <5>1. Len(header) < 4
          BY <1>1, <4>2
        <5>2. QED BY <3>2, <3>4, <4>2, <5>1
      <4>3. QED BY <1>1, <3>5, <4>1, <4>2
    <3>6. ASSUME NEW i \in 1..4, i > Len(header) + 1, i - (Len(header) + 1) <= Len(rx) - 1
          PROVE  rx'[i - (Len(header) + 1)] = BOOT_MAGIC[i]
      <4>1. /\ i - (Len(header) + 1) \in 1..(Len(rx) - 1)
            /\ (i - (Len(header) + 1)) + 1 = i - Len(header)
            /\ i > Len(header) /\ i - Len(header) <= Len(rx)
        BY <1>1, <3>3, <3>6
      <4>2. rx'[i - (Len(header) + 1)] = rx[i - Len(header)]
        BY <3>3, <4>1
      <4>3. QED BY <3>1, <4>1, <4>2 DEF Announced
    <3>7. Announced'
      BY <3>2, <3>3, <3>5, <3>6 DEF Announced
    <3>8. QED BY <2>1, <3>7 DEF OnTheWay
  <2>4. QED BY <2>2, <2>3
<1>8. CASE bad_magic
  <2>1. pc = "header" /\ Len(header) = 8 /\ Magic # BOOT_MAGIC /\ rx' = rx /\ pc' = "shell"
    BY <1>8 DEF bad_magic
  <2>2. ~Announced
    <3>1. 1 \in 1..(Len(header) + 1) /\ 4 \in 0..Len(header) /\ 1 <= 4 + 1
      BY <1>1, <2>1
    <3> DEFINE m == 4
    <3> HIDE DEF m
    <3>2. m = 4 /\ m \in 0..Len(header) /\ 1 <= m + 1
      BY <3>1 DEF m
    <3>3. /\ SubSeq(header, 1, m) \in Seq(D) /\ Len(SubSeq(header, 1, m)) = m - 1 + 1
          /\ \A i \in 1..(m - 1 + 1) : SubSeq(header, 1, m)[i] = header[1 + i - 1]
      BY <1>1, <3>1, <3>2, PartElements
    <3> DEFINE q == SubSeq(header, 1, m)
    <3>4. q \in Seq(D) /\ Len(q) = 4 /\ \A i \in 1..4 : q[i] = header[i]
      BY <3>2, <3>3
    <3>5. Magic = q
      BY <3>2 DEF Magic
    <3> HIDE DEF q
    <3>6. SUFFICES ASSUME Announced PROVE FALSE
      OBVIOUS
    <3>7. \A i \in 1..4 : q[i] = BOOT_MAGIC[i]
      <4>1. \A i \in 1..4 : i <= Len(header)
        BY <2>1
      <4>2. QED BY <3>4, <3>6, <4>1 DEF Announced
    <3>8. BOOT_MAGIC \in Seq(D) /\ Len(BOOT_MAGIC) = 4
      BY DEF BOOT_MAGIC, D
    <3>9. q = BOOT_MAGIC
      BY <3>4, <3>7, <3>8, SeqEqual
    <3>10. QED BY <2>1, <3>5, <3>9
  <2>3. rx = <<>>
    BY <1>1, <2>1, <2>2 DEF OnTheWay
  <2>4. QED BY <2>1, <2>3 DEF OnTheWay
<1>9. CASE good_magic
  BY <1>9 DEF good_magic, OnTheWay
<1>10. CASE load_payload
  BY <1>10 DEF load_payload, OnTheWay
<1>11. ASSUME NEW c \in Typed \cup Stray, types(c) PROVE OnTheWay'
  <2>1. rx' = <<c>> /\ Len(<<c>>) = 1 /\ <<c>>[1] = c
    BY <1>11 DEF types
  <2>2. pc' = pc /\ screen' = screen /\ header' = header
    BY <1>11 DEF types, editorVars
  <2>3. CASE pc = "shell" /\ c \in Typed /\ (IsRegular(c) => Len(screen) < MaxLine)
    BY <2>1, <2>2, <2>3 DEF OnTheWay
  <2>4. CASE pc = "header" /\ Len(header) < 8
    BY <2>1, <2>2, <2>4 DEF OnTheWay
  <2>5. QED BY <1>11, <2>3, <2>4 DEF types
<1>12. ASSUME NEW f \in Kernels, send_kernel(f) PROVE OnTheWay'
  <2>1. pc' = pc /\ header' = header /\ (pc = "payload" \/ (pc = "header" /\ header = <<>>))
    BY <1>12 DEF send_kernel
  <2>2. CASE pc = "payload"
    BY <2>1, <2>2 DEF OnTheWay
  <2>3. CASE pc = "header" /\ header = <<>>
    <3>1. f \in Seq(0..255)
      BY LoaderAssumption
    <3>2. Len(Sent(f)) \in Nat /\ \A i \in 1..4 : Sent(f)[i] = BOOT_MAGIC[i]
      BY <3>1, SentFacts, LenProperties
    <3>3. PICK n \in 0..Len(Sent(f)) : rx' = SubSeq(Sent(f), 1, n)
      <4>1. Len(Sent(f)) \in 0..Len(Sent(f))
        BY <3>2
      <4>2. QED BY <1>12, <4>1 DEF send_kernel
    <3>4. Len(rx') = n /\ \A i \in 1..n : rx'[i] = Sent(f)[i]
      BY <3>3, HostBytes
    <3>5. Len(header') = 0
      BY <2>1, <2>3
    <3>6. ASSUME NEW i \in 1..4, i - 0 <= n PROVE rx'[i - 0] = BOOT_MAGIC[i]
      <4>1. i - 0 = i /\ i \in 1..n
        BY <3>6
      <4>2. QED BY <3>2, <3>4, <4>1
    <3>7. \A i \in 1..4 : ~(i <= 0)
      OBVIOUS
    <3>8. Announced'
      BY <3>4, <3>5, <3>6, <3>7 DEF Announced
    <3>9. QED BY <2>1, <2>3, <3>8 DEF OnTheWay
  <2>4. QED BY <2>1, <2>2, <2>3
<1>13. CASE jump
  BY <1>13 DEF jump, OnTheWay
<1>14. CASE reload
  BY <1>14 DEF reload, OnTheWay
<1>15. QED
  BY <1>4, <1>5, <1>6, <1>7, <1>8, <1>9, <1>10, <1>11, <1>12, <1>13, <1>14
     DEF LoaderNext, LoaderStep, HostStep

LEMMA LoaderInvKept ==
    ASSUME ~TypesAhead, LoaderInv, LoaderNext \/ UNCHANGED loaderVars
    PROVE  LoaderInv'
<1>1. CASE LoaderNext
  BY <1>1, LoaderTypeKept, StagesKept, OnTheWayKept DEF LoaderInv
<1>2. CASE UNCHANGED loaderVars
  <2>1. /\ UNCHANGED <<buffer, buf_len, screen, prompt, ran>>
        /\ UNCHANGED <<pc, home, had_relocated, rx, header, got, file>>
    BY <1>2 DEF loaderVars, editorVars, loadVars
  <2>2. EditorTypeOK'
    BY <2>1 DEF LoaderInv, LoaderTypeOK, EditorTypeOK
  <2>3. LoaderTypeOK'
    BY <2>1, <2>2 DEF LoaderInv, LoaderTypeOK
  <2>4. Stages'
    BY <2>1 DEF LoaderInv, Stages
  <2>5. Announced => Announced'
    BY <2>1 DEF Announced
  <2>6. OnTheWay'
    BY <2>1, <2>5 DEF LoaderInv, OnTheWay
  <2>7. QED BY <2>3, <2>4, <2>6 DEF LoaderInv
<1>3. QED
  BY <1>1, <1>2

LEMMA LoaderStarts ==
    ASSUME LoaderInit
    PROVE  LoaderInv
<1>1. /\ buffer = Zeroed /\ buf_len = 0 /\ screen = <<>> /\ prompt = PromptCells /\ ran = <<>>
      /\ pc = "start" /\ home = "linked" /\ had_relocated = Fresh
      /\ rx = <<>> /\ header = <<>> /\ got = <<>> /\ file = <<>>
  BY DEF LoaderInit, EditorInit
<1>2. BUFFER_SIZE \in Nat \ {0} /\ PromptCells \in Nat
  BY EditorAssumption
<1>3. Zeroed \in [0..(BUFFER_SIZE - 1) -> 0..255]
  BY DEF Zeroed, NUL
<1>4. EditorTypeOK
  BY <1>1, <1>2, <1>3 DEF EditorTypeOK
<1>5. <<>> \in Seq(0..255) /\ Len(<<>>) <= 8
  OBVIOUS
<1>6. Fresh \in [{"linked", "copy"} -> {-1, 0, 1}] /\ Fresh["linked"] = -1
  BY DEF Fresh
<1>7. LoaderTypeOK
  BY <1>1, <1>4, <1>5, <1>6 DEF LoaderTypeOK
<1>8. Stages /\ OnTheWay
  BY <1>1, <1>6 DEF Stages, OnTheWay
<1>9. QED
  BY <1>7, <1>8 DEF LoaderInv

LEMMA MachineStep ==
    ASSUME [Next]_vars
    PROVE  LoaderNext \/ UNCHANGED loaderVars
<1>1. CASE Processor
  BY <1>1 DEF Processor, start_kernel, LoaderNext
<1>2. CASE User
  BY <1>2 DEF User, power_cycle, LoaderNext
<1>3. CASE UNCHANGED vars
  BY <1>3 DEF vars
<1>4. QED
  BY <1>1, <1>2, <1>3 DEF Next

\* Whatever is typed and sent, the loader's state stays well formed, it runs
\* from its copy once it is past its start, and the bytes on their way are
\* those its place in the work allows, if nothing is typed in front of a file.
THEOREM LoaderInvariance ==
    ASSUME ~TypesAhead
    PROVE  Spec => []LoaderInv
<1>1. Init => LoaderInv
  BY LoaderStarts DEF Init
<1>2. LoaderInv /\ [Next]_vars => LoaderInv'
  BY LoaderInvKept, MachineStep
<1>3. QED
  BY <1>1, <1>2, PTL DEF Spec

-----------------------------------------------------------------------------
(* The command that runs *)

\* Lines of characters that end no string, none longer than the buffer; no
\* file is sent to where load will not take all of it.
Legible == NUL \notin Typed /\ MaxLine <= BUFFER_SIZE /\ ~TypesAhead

LEMMA LoaderEdits ==
    ASSUME LoaderInv, LoaderNext
    PROVE  Edits \/ (insert(Head(rx)) /\ IsRegular(Head(rx)) /\ put_char)
<1>1. CASE put_char
  BY <1>1, PutCharEdits DEF LoaderInv
<1>2. CASE LoaderStep /\ ~put_char
  BY <1>2 DEF LoaderStep, code_relocate, main, load_header, bad_magic, good_magic,
              load_payload, Edits
<1>3. CASE HostStep
  BY <1>3 DEF HostStep, types, send_kernel, Edits
<1>4. CASE jump \/ reload
  BY <1>4 DEF jump, reload, Edits
<1>5. QED
  BY <1>1, <1>2, <1>3, <1>4 DEF LoaderNext

LEMMA ShownByLoader ==
    ASSUME Legible, LoaderInv, Shown, LoaderNext
    PROVE  Shown' /\ (ran' # ran => ran' = screen)
<1>1. EditorTypeOK /\ 0 \in 0..255
  BY LoaderTypes DEF LoaderInv
<1>2. CASE Edits
  BY <1>1, <1>2, ShownKept
<1>3. CASE insert(Head(rx)) /\ IsRegular(Head(rx)) /\ put_char
  <2>1. pc = "shell" /\ rx # <<>> /\ rx \in Seq(0..255)
    BY <1>3, LoaderTypes DEF put_char, LoaderInv
  <2>2. Head(rx) = rx[1] /\ Head(rx) \in 0..255
    BY <2>1, HeadTailProperties
  <2>3. Head(rx) \in Typed /\ Len(screen) < MaxLine
    BY <1>3, <2>1, <2>2 DEF LoaderInv, OnTheWay
  <2>4. Head(rx) # NUL /\ Len(screen) < BUFFER_SIZE
    <3>1. Len(screen) \in Nat /\ BUFFER_SIZE \in Nat /\ MaxLine \in Nat
      BY <1>1, EditorAssumption, LoaderAssumption DEF EditorTypeOK
    <3>2. QED BY <2>3, <3>1 DEF Legible
  <2>5. QED BY <1>1, <1>3, <2>2, <2>4, ShownKept
<1>4. QED
  BY <1>2, <1>3, LoaderEdits

\* The command the loader's shell runs is the line on the screen, for every
\* user who types no NUL and no line that outgrows the buffer.
THEOREM CommandIsTheOneShown ==
    ASSUME Legible
    PROVE  Spec => RunsWhatIsShown
<1>1. Init => Shown
  BY DEF Init, LoaderInit, EditorInit, Shown
<1>2. Shown /\ UNCHANGED loaderVars => Shown' /\ UNCHANGED editorVars
  BY DEF Shown, loaderVars, editorVars
<1>3. LoaderInv /\ Shown /\ [Next]_vars => Shown' /\ [ran' # ran => ran' = screen]_editorVars
  BY <1>2, ShownByLoader, MachineStep
<1>4. QED
  <2>1. Spec => []LoaderInv
    BY LoaderInvariance DEF Legible
  <2>2. QED BY <1>1, <1>3, <2>1, PTL DEF Spec, RunsWhatIsShown

-----------------------------------------------------------------------------
(* The kernel that is started *)

Typing ==
    /\ \A i \in 1..Len(header) : \E c \in Stray : header[i] = uart_getc(c)
    /\ \A i \in 1..Len(rx) : rx[i] \in Stray

Sending == file \in Kernels /\ header \o rx = Sent(file)

\* Where the host's file is.
Delivery ==
    /\ pc = "header" => Typing \/ Sending
    /\ pc = "payload" => file \in Kernels /\ Size = Len(file) /\ got \o rx = file
    /\ pc = "kernel" => got = file

LEMMA WholeFileSent ==
    ASSUME Orderly, NEW f \in Kernels, send_kernel(f)
    PROVE  Sendable(f) /\ rx' = Sent(f)
<1>1. f \in Seq(0..255)
  BY LoaderAssumption
<1>2. Sent(f) \in Seq(0..255) /\ Len(Sent(f)) \in Nat
  BY <1>1, SentFacts, LenProperties
<1>3. PICK n \in {Len(Sent(f))} \cup (GivesUpAfter \cap 0..Len(Sent(f))) : rx' = SubSeq(Sent(f), 1, n)
  BY DEF send_kernel
<1>4. Sendable(f) /\ GivesUpAfter \cap 0..(Len(Sent(f)) - 1) = {}
  BY DEF Orderly
<1>5. n = Len(Sent(f))
  <2>1. SUFFICES ASSUME n # Len(Sent(f)) PROVE FALSE
    OBVIOUS
  <2>2. n \in GivesUpAfter /\ n \in 0..Len(Sent(f))
    BY <1>3, <2>1
  <2>3. n \in 0..(Len(Sent(f)) - 1)
    BY <1>2, <2>1, <2>2
  <2>4. QED BY <1>4, <2>2, <2>3
<1>6. SubSeq(Sent(f), 1, Len(Sent(f))) = Sent(f)
  BY <1>2, SubSeqFull
<1>7. QED
  BY <1>3, <1>4, <1>5, <1>6

\* The bytes of a file that is being sent arrive one after the other, those of
\* the header unchanged.
LEMMA HeaderArrives ==
    ASSUME Orderly, LoaderInv, Sending, rx # <<>>, Len(header) < 8
    PROVE  Append(header, uart_getc(Head(rx))) \o Tail(rx) = header \o rx
<1> DEFINE D == 0..255
           S == Sent(file)
<1>1. rx \in Seq(D) /\ header \in Seq(D) /\ file \in Seq(D) /\ Len(header) \in Nat
  BY LoaderTypes DEF LoaderInv
<1>2. Sendable(file) /\ file \in Kernels /\ header \o rx = S
  BY DEF Sending, Orderly
<1>3. \A i \in 1..8 : S[i] # CARRIAGE_RETURN
  BY <1>1, <1>2, SentFacts
<1> HIDE DEF D, S
<1>4. (header \o rx)[Len(header) + 1] = rx[1]
  BY <1>1, FirstAfter
<1>5. Len(header) + 1 \in 1..8
  BY <1>1
<1>6. Head(rx) = rx[1]
  BY <1>1, HeadTailProperties
<1>7. uart_getc(Head(rx)) = Head(rx)
  <2>1. Head(rx) # CARRIAGE_RETURN
    BY <1>2, <1>3, <1>4, <1>5, <1>6
  <2>2. QED BY <2>1 DEF uart_getc
<1>8. Append(header, Head(rx)) \o Tail(rx) = header \o rx
  BY <1>1, TakeByte
<1>9. QED
  BY <1>7, <1>8

\* Nothing but the host's file passes for a kernel.
LEMMA MagicIsSent ==
    ASSUME Orderly, LoaderInv, Typing, Len(header) = 8
    PROVE  Magic # BOOT_MAGIC
<1> SUFFICES ASSUME Magic = BOOT_MAGIC PROVE FALSE
  OBVIOUS
<1>1. header \in Seq(0..255)
  BY LoaderTypes DEF LoaderInv
<1> DEFINE D == 0..255
           m == 4
<1> HIDE DEF D, m
<1>2. m = 4 /\ header \in Seq(D) /\ 1 \in 1..(Len(header) + 1) /\ m \in 0..Len(header) /\ 1 <= m + 1
  BY <1>1 DEF D, m
<1>3. \A i \in 1..(m - 1 + 1) : SubSeq(header, 1, m)[i] = header[1 + i - 1]
  BY <1>2, PartElements
<1>4. \A i \in 1..4 : Magic[i] = header[i]
  BY <1>2, <1>3 DEF Magic
<1>5. \A i \in 1..4 : \E c \in Stray : BOOT_MAGIC[i] = uart_getc(c)
  BY <1>4 DEF Typing
<1>6. \A i \in 1..4 : BOOT_MAGIC[i] # LINE_FEED
  BY DEF BOOT_MAGIC, LINE_FEED
<1>7. \A i \in 1..4 : BOOT_MAGIC[i] \in Stray
  BY <1>5, <1>6 DEF uart_getc
<1>8. DOMAIN BOOT_MAGIC = 1..4
  BY DEF BOOT_MAGIC
<1>9. Range(BOOT_MAGIC) \subseteq Stray
  BY <1>7, <1>8 DEF Range
<1>10. QED
  BY <1>9 DEF Orderly

\* The header read, what is left on the way is the file.
LEMMA FileIsLeft ==
    ASSUME Orderly, LoaderInv, Sending, Len(header) = 8
    PROVE  Size = Len(file) /\ rx = file
<1> DEFINE D == 0..255
           S == Sent(file)
           n == 8
<1>1. rx \in Seq(D) /\ header \in Seq(D) /\ file \in Seq(D)
  BY LoaderTypes DEF LoaderInv
<1>2. Sendable(file) /\ header \o rx = S
  BY DEF Sending, Orderly
<1>3. /\ Len(S) = n + Len(file)
      /\ Len(file) = S[5] + 256 * (S[6] + 256 * (S[7] + 256 * S[8]))
      /\ \A i \in 1..Len(file) : S[n + i] = file[i]
  <2>1. file \in Seq(0..255) /\ Sendable(file)
    BY <1>1, <1>2
  <2>2. Len(S) = n + Len(file)
    BY <2>1, SentFacts, Zenon
  <2>3. Len(file) = S[5] + 256 * (S[6] + 256 * (S[7] + 256 * S[8]))
    BY <2>1, SentFacts, Zenon
  <2>4. \A i \in 1..Len(file) : S[n + i] = file[i]
    BY <2>1, SentFacts, Zenon
  <2>5. QED BY <2>2, <2>3, <2>4
<1>4. n \in Nat /\ n = 8 /\ Len(header) = n /\ Len(rx) \in Nat /\ Len(file) \in Nat
  BY <1>1, LenProperties
<1> HIDE DEF D, S, n
<1>5. /\ Len(header \o rx) = n + Len(rx)
      /\ \A i \in 1..n : (header \o rx)[i] = header[i]
      /\ \A i \in 1..Len(rx) : (header \o rx)[n + i] = rx[i]
  <2>1. n \in Nat /\ Len(header) = n /\ header \in Seq(D) /\ rx \in Seq(D)
    BY <1>1, <1>4
  <2>2. \A i \in 1..n : (header \o rx)[i] = header[i]
    BY <2>1, ConcatBytes
  <2>3. \A i \in 1..Len(rx) : (header \o rx)[n + i] = rx[i]
    BY <2>1, ConcatBytes
  <2>4. Len(header \o rx) = n + Len(rx)
    BY <2>1, ConcatProperties
  <2>5. QED BY <2>2, <2>3, <2>4
<1>6. Len(rx) = Len(file)
  BY <1>2, <1>3, <1>4, <1>5
<1>7. rx = file
  <2>1. \A i \in 1..Len(rx) : rx[i] = file[i]
    BY <1>2, <1>3, <1>5, <1>6, Zenon
  <2>2. QED BY <1>1, <1>6, <2>1, SeqEqual
<1>8. S[5] = header[5] /\ S[6] = header[6] /\ S[7] = header[7] /\ S[8] = header[8]
  BY <1>2, <1>4, <1>5
<1>9. QED
  BY <1>3, <1>7, <1>8 DEF Size

LEMMA DeliveryKept ==
    ASSUME Orderly, LoaderInv, Delivery, LoaderNext
    PROVE  Delivery'
<1> DEFINE D == 0..255
<1>1. /\ rx \in Seq(D) /\ header \in Seq(D) /\ got \in Seq(D) /\ file \in Seq(D)
      /\ Len(header) \in Nat /\ Len(header) <= 8
      /\ rx # <<>> => uart_getc(Head(rx)) \in D /\ Head(rx) \in D
  BY LoaderTypes DEF LoaderInv
<1> HIDE DEF D
<1>2. rx # <<>> => /\ Tail(rx) \in Seq(D) /\ Len(Tail(rx)) = Len(rx) - 1 /\ Len(rx) \in Nat \ {0}
                   /\ Append(got, Head(rx)) \o Tail(rx) = got \o rx
  BY <1>1, TakeByte
<1>3. CASE code_relocate \/ main
  BY <1>3 DEF code_relocate, main, Delivery
<1>4. CASE put_char
  <2>1. pc = "shell" /\ pc' \in {"shell", "header"} /\ rx' = Tail(rx) /\ rx # <<>> /\ header' = header
    BY <1>4 DEF put_char
  <2>2. Len(header') = 0
    BY <2>1 DEF LoaderInv, Stages
  <2>3. Len(rx') = 0
    <3>1. Len(rx) = 1
      BY <2>1 DEF LoaderInv, OnTheWay
    <3>2. QED BY <1>2, <2>1, <3>1
  <2>4. \A i \in 1..0 : FALSE
    OBVIOUS
  <2>5. Typing'
    BY <2>2, <2>3, <2>4 DEF Typing
  <2>6. QED BY <2>1, <2>5 DEF Delivery
<1>5. CASE load_header
  <2> DEFINE x == uart_getc(Head(rx))
  <2>1. /\ pc = "header" /\ pc' = "header" /\ rx # <<>> /\ Len(header) < 8
        /\ header' = Append(header, x) /\ rx' = Tail(rx) /\ file' = file
    BY <1>5 DEF load_header
  <2>2. CASE Sending
    <3>1. header' \o rx' = header \o rx
      BY <2>1, <2>2, HeaderArrives
    <3>2. Sending'
      BY <2>1, <2>2, <3>1 DEF Sending
    <3>3. QED BY <2>1, <3>2 DEF Delivery
  <2>3. CASE Typing
    <3>1. Head(rx) = rx[1] /\ \A i \in 1..(Len(rx) - 1) : rx'[i] = rx[i + 1]
      BY <1>1, <1>2, <2>1, HeadTailProperties
    <3>2. 1 \in 1..Len(rx)
      BY <1>2, <2>1
    <3>3. \E c \in Stray : x = uart_getc(c)
      BY <2>3, <3>1, <3>2 DEF Typing
    <3>4. x \in D
      BY <1>1, <2>1
    <3> HIDE DEF x
    <3>5. /\ Len(header') = Len(header) + 1 /\ header'[Len(header) + 1] = x
          /\ \A i \in 1..Len(header) : header'[i] = header[i]
      BY <1>1, <2>1, <3>4
    <3>6. \A i \in 1..(Len(header) + 1) : i \in 1..Len(header) \/ i = Len(header) + 1
      BY <1>1
    <3>7. \A i \in 1..Len(header') : \E c \in Stray : header'[i] = uart_getc(c)
      BY <2>3, <3>3, <3>5, <3>6 DEF Typing
    <3>8. \A i \in 1..(Len(rx) - 1) : i + 1 \in 1..Len(rx)
      BY <1>2, <2>1
    <3>9. \A i \in 1..Len(rx') : rx'[i] \in Stray
      BY <1>2, <2>1, <2>3, <3>1, <3>8 DEF Typing
    <3>10. Typing'
      BY <3>7, <3>9 DEF Typing
    <3>11. QED BY <2>1, <3>10 DEF Delivery
  <2>4. QED BY <2>1, <2>2, <2>3 DEF Delivery
<1>6. CASE bad_magic
  BY <1>6 DEF bad_magic, Delivery
<1>7. CASE good_magic
  <2>1. /\ pc = "header" /\ pc' = "payload" /\ Len(header) = 8 /\ Magic = BOOT_MAGIC
        /\ UNCHANGED <<rx, header, got, file>>
    BY <1>7 DEF good_magic, loadVars
  <2>2. Sending
    BY <2>1, MagicIsSent DEF Delivery
  <2>3. Size = Len(file) /\ rx = file /\ file \in Kernels
    BY <2>1, <2>2, FileIsLeft DEF Sending
  <2>4. got = <<>>
    BY <2>1 DEF LoaderInv, Stages
  <2>5. got \o rx = file
    BY <1>1, <2>3, <2>4, ConcatEmptySeq
  <2>6. Size' = Size
    BY <2>1 DEF Size
  <2>7. QED BY <2>1, <2>3, <2>5, <2>6 DEF Delivery
<1>8. CASE load_payload
  <2>1. /\ pc = "payload" /\ pc' = pc /\ rx # <<>> /\ rx' = Tail(rx)
        /\ got' = Append(got, Head(rx)) /\ file' = file /\ header' = header
    BY <1>8 DEF load_payload, uart_getc_raw
  <2>2. got' \o rx' = got \o rx
    BY <1>2, <2>1
  <2>3. Size' = Size
    BY <2>1 DEF Size
  <2>4. QED BY <2>1, <2>2, <2>3 DEF Delivery
<1>9. ASSUME NEW c \in Typed \cup Stray, types(c) PROVE Delivery'
  <2>1. rx = <<>> /\ rx' = <<c>> /\ UNCHANGED <<pc, header, got, file>>
    BY <1>9 DEF types
  <2>2. CASE pc = "shell"
    BY <2>1, <2>2 DEF Delivery
  <2>3. CASE pc = "header" /\ c \in Stray /\ Len(header) < 8
    <3>1. ~Sending
      <4>1. SUFFICES ASSUME Sending PROVE FALSE
        OBVIOUS
      <4>2. header \o rx = header
        BY <1>1, <2>1, ConcatEmptySeq
      <4>3. Len(Sent(file)) = 8 + Len(file) /\ Len(file) \in Nat
        BY <1>1, SentFacts, LenProperties DEF D
      <4>4. Len(header) = 8 + Len(file)
        BY <4>1, <4>2, <4>3 DEF Sending
      <4>5. QED BY <1>1, <2>3, <4>3, <4>4
    <3>2. Typing
      BY <2>3, <3>1 DEF Delivery
    <3>3. Len(rx') = 1 /\ rx'[1] = c
      BY <2>1
    <3>4. \A i \in 1..1 : i = 1
      OBVIOUS
    <3>5. Typing'
      BY <2>1, <2>3, <3>2, <3>3, <3>4 DEF Typing
    <3>6. QED BY <2>1, <2>3, <3>5 DEF Delivery
  <2>4. QED BY <1>9, <2>2, <2>3 DEF types
<1>10. ASSUME NEW f \in Kernels, send_kernel(f) PROVE Delivery'
  <2>1. /\ rx = <<>> /\ UNCHANGED <<pc, header, got>> /\ file' = f
        /\ \/ pc = "header" /\ header = <<>>
           \/ pc = "payload" /\ Len(got) < Size
    BY <1>10 DEF send_kernel, Orderly
  <2>2. rx' = Sent(f)
    BY <1>10, WholeFileSent
  <2>3. CASE pc = "header" /\ header = <<>>
    <3>1. f \in Seq(0..255)
      BY LoaderAssumption
    <3>2. Sent(f) \in Seq(0..255)
      BY <3>1, SentFacts
    <3>3. header' \o rx' = Sent(f)
      BY <2>1, <2>2, <2>3, <3>2, ConcatEmptySeq
    <3>4. Sending'
      BY <2>1, <3>3 DEF Sending
    <3>5. QED BY <2>1, <2>3, <3>4 DEF Delivery
  <2>4. CASE pc = "payload" /\ Len(got) < Size
    <3>1. got \o rx = got
      BY <1>1, <2>1, ConcatEmptySeq
    <3>2. Len(got) = Size /\ Len(got) \in Nat
      BY <1>1, <2>4, <3>1, LenProperties DEF Delivery
    <3>3. QED BY <2>4, <3>2
  <2>5. QED BY <2>1, <2>3, <2>4
<1>11. CASE jump
  <2>1. pc = "payload" /\ pc' = "kernel" /\ Len(got) = Size /\ UNCHANGED <<got, file>>
    BY <1>11 DEF jump, loadVars
  <2>2. got \o rx = file /\ Len(got) = Len(file)
    BY <2>1 DEF Delivery
  <2>3. Len(got \o rx) = Len(got) + Len(rx) /\ Len(got) \in Nat /\ Len(rx) \in Nat
    BY <1>1, ConcatProperties, LenProperties
  <2>4. Len(rx) = 0
    BY <2>2, <2>3
  <2>5. rx = <<>>
    BY <1>1, <2>4, EmptySeq
  <2>6. got = file
    BY <1>1, <2>2, <2>5, ConcatEmptySeq
  <2>7. QED BY <2>1, <2>6 DEF Delivery
<1>12. CASE reload
  BY <1>12 DEF reload, Delivery
<1>13. QED
  BY <1>3, <1>4, <1>5, <1>6, <1>7, <1>8, <1>9, <1>10, <1>11, <1>12
     DEF LoaderNext, LoaderStep, HostStep

\* What is stored stays in front of the copy, which is what runs by then.
LEMMA StoresInFront ==
    ASSUME Orderly, LoaderInv, Delivery
    PROVE  KernelIsWhole
<1>1. got \in Seq(0..255) /\ rx \in Seq(0..255) /\ file \in Seq(0..255)
  BY LoaderTypes DEF LoaderInv
<1>2. KERNEL_LOAD_ADDR \in Nat /\ RELOCATE_ADDR \in Nat
  BY LoaderAssumption
<1>3. ASSUME pc # "kernel" PROVE Stored \cap Image(home) = {}
  <2>1. CASE pc = "payload"
    <3>1. home = "copy" /\ Image(home) = RELOCATE_ADDR..(RELOCATE_ADDR + LoaderSize - 1)
      BY <2>1 DEF LoaderInv, LoaderTypeOK, Stages, Image
    <3>2. Len(got \o rx) = Len(got) + Len(rx) /\ Len(got) \in Nat /\ Len(rx) \in Nat
      BY <1>1, ConcatProperties, LenProperties
    <3>3. got \o rx = file /\ KERNEL_LOAD_ADDR + Len(file) <= RELOCATE_ADDR
      BY <2>1 DEF Delivery, Orderly, Sendable
    <3>4. KERNEL_LOAD_ADDR + Len(got) <= RELOCATE_ADDR /\ Len(got) \in Nat
      BY <1>2, <3>2, <3>3
    <3> DEFINE l == Len(got)
    <3> HIDE DEF l
    <3>5. l \in Nat /\ KERNEL_LOAD_ADDR + l <= RELOCATE_ADDR
      BY <3>4 DEF l
    <3>6. Stored = KERNEL_LOAD_ADDR..(KERNEL_LOAD_ADDR + l - 1)
      BY DEF Stored, l
    <3>7. LoaderSize \in Nat
      BY LoaderAssumption
    <3>8. \A a : ~(/\ a \in KERNEL_LOAD_ADDR..(KERNEL_LOAD_ADDR + l - 1)
                   /\ a \in RELOCATE_ADDR..(RELOCATE_ADDR + LoaderSize - 1))
      BY <1>2, <3>5, <3>7
    <3>9. QED BY <3>1, <3>6, <3>8
  <2>2. CASE pc \in {"start", "shell", "header"}
    <3>1. Len(got) = 0
      BY <2>2 DEF LoaderInv, Stages
    <3>2. Stored = {}
      BY <1>2, <3>1 DEF Stored
    <3>3. QED BY <3>2
  <2>3. QED BY <1>3, <2>1, <2>2 DEF LoaderInv, LoaderTypeOK
<1>4. pc = "kernel" => got = file
  BY DEF Delivery
<1>5. QED
  BY <1>3, <1>4 DEF KernelIsWhole, LoaderInv

\* The loader never overwrites itself and jumps to the whole file the host
\* sent, for every layout of memory and every kernel in front of the copy whose
\* size has no carriage return in it, as long as the host finishes what it sends.
THEOREM LoadedKernelIsWhole ==
    ASSUME Orderly
    PROVE  Spec => []KernelIsWhole
<1>1. Init => Delivery
  BY DEF Init, LoaderInit, Delivery
<1>2. Delivery /\ UNCHANGED loaderVars => Delivery'
  BY DEF Delivery, Typing, Sending, Size, loaderVars, loadVars
<1>3. LoaderInv /\ Delivery /\ [Next]_vars => Delivery'
  BY <1>2, DeliveryKept, MachineStep
<1>4. LoaderInv /\ Delivery => KernelIsWhole
  BY StoresInFront
<1>5. Spec => []LoaderInv
  BY LoaderInvariance DEF Orderly
<1>6. QED
  BY <1>1, <1>3, <1>4, <1>5, PTL DEF Spec

-----------------------------------------------------------------------------
(* startup_alloc *)

Regions == [start : Nat, end : Nat]

\* The regions that meet a place of need pages from page idx of the pool on.
ClashAt(idx, need) ==
    LET start == buddy_base_addr + idx * PAGE_SIZE
        end == start + need * PAGE_SIZE
    IN  {i \in DOMAIN reserved_regions :
           ~(end <= reserved_regions[i].start \/ start >= reserved_regions[i].end)}

\* startup_alloc finds a place in the pool that no reserved region meets, or none.
LEMMA FirstFitIsFree ==
    ASSUME NEW size \in Nat, PagesNeeded(size) \in Nat,
           buddy_base_addr \in Nat, buddy_total_pages \in Nat,
           reserved_regions \in Seq(Regions), FirstFit(size) # NULL
    PROVE  \E k \in Nat : /\ FirstFit(size) = buddy_base_addr + k * PAGE_SIZE
                          /\ k + PagesNeeded(size) <= buddy_total_pages
                          /\ ClashAt(k, PagesNeeded(size)) = {}
<1> DEFINE need == PagesNeeded(size)
           N == buddy_total_pages + 1
           Behind(idx) == (reserved_regions[Min(ClashAt(idx, need))].end - buddy_base_addr
                           + PAGE_SIZE - 1) \div PAGE_SIZE
           Skip(idx) == IF Behind(idx) > idx THEN Behind(idx) ELSE idx + 1
           stop == {i \in Nat : i + need > buddy_total_pages \/ ClashAt(i, need) = {}}
           val == [i \in Nat |-> IF i + need > buddy_total_pages THEN NULL
                                 ELSE buddy_base_addr + i * PAGE_SIZE]
           next == [i \in Nat |-> IF i \in stop THEN i ELSE Skip(i)]
           Place(f) == [idx \in Nat |-> IF idx + need > buddy_total_pages THEN NULL
                                        ELSE IF ClashAt(idx, need) = {}
                                          THEN buddy_base_addr + idx * PAGE_SIZE
                                        ELSE f[Skip(idx)]]
<1>0. PAGE_SIZE \in Nat \ {0}
  BY StartupAssumption
<1>1. ASSUME NEW idx \in Nat, idx \notin stop
      PROVE  Skip(idx) \in Nat /\ Skip(idx) > idx
  <2> DEFINE C == ClashAt(idx, need)
             c == Min(C)
  <2>1. C \in SUBSET Nat /\ C # {} /\ C \subseteq DOMAIN reserved_regions
    <3>1. DOMAIN reserved_regions = 1..Len(reserved_regions) /\ Len(reserved_regions) \in Nat
      OBVIOUS
    <3>2. C \subseteq DOMAIN reserved_regions
      BY DEF ClashAt
    <3>3. QED BY <1>1, <3>1, <3>2
  <2>2. c \in C
    <3> HIDE DEF C
    <3>1. \E x \in C : \A y \in C : x <= y
      BY <2>1, LeastNumber
    <3>2. QED BY <3>1 DEF Min
  <2>3. c \in DOMAIN reserved_regions
    <3> HIDE DEF c, C
    <3>1. QED BY <2>1, <2>2
  <2>4. reserved_regions[c].end \in Nat
    <3> HIDE DEF c, C
    <3>1. reserved_regions[c] \in Regions
      BY <2>3, ElementOfSeq
    <3>2. QED BY <3>1 DEF Regions
  <2>5. Behind(idx) \in Int
    <3> DEFINE e == reserved_regions[c].end
    <3>1. Behind(idx) = (e - buddy_base_addr + PAGE_SIZE - 1) \div PAGE_SIZE
      OBVIOUS
    <3> HIDE DEF e, Behind
    <3>2. e - buddy_base_addr + PAGE_SIZE - 1 \in Int
      BY <1>0, <2>4 DEF e
    <3>3. QED BY <1>0, <3>1, <3>2, Divide
  <2> HIDE DEF Behind
  <2>6. QED BY <2>5
<1>2. \A i \in Nat : i >= N => i \in stop
  <2>1. need \in Nat
    OBVIOUS
  <2> HIDE DEF need
  <2>2. QED BY <2>1
<1> HIDE DEF Skip
<1>3. next \in [Nat -> Nat] /\ \A i \in Nat : i \notin stop => next[i] = Skip(i) /\ next[i] > i
  <2> HIDE DEF stop
  <2>1. QED BY <1>1
<1>4. stop \in SUBSET Nat /\ N \in Nat
  OBVIOUS
<1>5. \A i \in Nat : i \in stop <=> (i + need > buddy_total_pages \/ ClashAt(i, need) = {})
  OBVIOUS
<1>6. \A i \in Nat : val[i] = IF i + need > buddy_total_pages THEN NULL
                              ELSE buddy_base_addr + i * PAGE_SIZE
  OBVIOUS
<1> HIDE DEF stop, val, next, N, need
<1>16. GoesForward(N, stop, next)
  BY <1>2, <1>3, <1>4 DEF GoesForward
<1>7. PICK f : IsScan(f, stop, val, next)
  BY <1>16, ScanExists DEF HasScan
<1>8. f = Place(f)
  <2>1. \A i \in Nat : (IF i \in stop THEN val[i] ELSE f[next[i]])
                       = (IF i + need > buddy_total_pages THEN NULL
                          ELSE IF ClashAt(i, need) = {}
                            THEN buddy_base_addr + i * PAGE_SIZE
                          ELSE f[Skip(i)])
    BY <1>3, <1>5, <1>6
  <2>2. QED BY <1>7, <2>1 DEF IsScan
<1> DEFINE place == CHOOSE g : g = Place(g)
<1>9. place = Place(place)
  <2> HIDE DEF Place
  <2>1. QED BY <1>8
<1>10. FirstFit(size) = place[0]
  BY DEF FirstFit, Skip, Behind, ClashAt, need
<1> HIDE DEF place
<1>11. IsScan(place, stop, val, next)
  <2>1. \A i \in Nat : (IF i \in stop THEN val[i] ELSE place[next[i]])
                       = (IF i + need > buddy_total_pages THEN NULL
                          ELSE IF ClashAt(i, need) = {}
                            THEN buddy_base_addr + i * PAGE_SIZE
                          ELSE place[Skip(i)])
    BY <1>3, <1>5, <1>6
  <2>2. QED BY <1>9, <2>1 DEF IsScan
<1>12. PICK j \in stop : FirstFit(size) = val[j]
  <2>1. \A i \in Nat : \E j \in stop : place[i] = val[j]
    BY <1>11, <1>16, ScanStops
  <2>2. 0 \in Nat
    OBVIOUS
  <2>3. QED BY <1>10, <2>1, <2>2
<1>13. j \in Nat /\ ~(j + need > buddy_total_pages) /\ ClashAt(j, need) = {}
       /\ FirstFit(size) = buddy_base_addr + j * PAGE_SIZE
  BY <1>4, <1>5, <1>6, <1>12
<1>14. j + need <= buddy_total_pages
  BY <1>13 DEF need
<1>15. QED
  BY <1>13, <1>14 DEF need

-----------------------------------------------------------------------------
(* Pages and regions *)

\* A page is one of those of a piece of memory when the two meet.
LEMMA PageFacts ==
    ASSUME NEW a \in Int, NEW s \in Int
    PROVE  /\ PAGE_SIZE \in Nat \ {0}
           /\ Page(a) \in Int
           /\ \A x : x \in Pages(a, s) <=>
                       x \in Int /\ a < x * PAGE_SIZE + PAGE_SIZE /\ x * PAGE_SIZE <= a + s - 1
<1>0. PAGE_SIZE \in Nat \ {0}
  BY StartupAssumption
<1> DEFINE b == a + s - 1
<1>1. b \in Int /\ Pages(a, s) = (a \div PAGE_SIZE)..(b \div PAGE_SIZE)
  BY DEF Pages, Page
<1> HIDE DEF b
<1>2. a \div PAGE_SIZE \in Int /\ b \div PAGE_SIZE \in Int
  BY <1>0, <1>1, Divide
<1>3. ASSUME NEW x
      PROVE x \in Pages(a, s) <=>
                       x \in Int /\ a < x * PAGE_SIZE + PAGE_SIZE /\ x * PAGE_SIZE <= b
  <2>1. x \in Pages(a, s) <=> x \in Int /\ a \div PAGE_SIZE <= x /\ x <= b \div PAGE_SIZE
    BY <1>1, <1>2
  <2>2. ASSUME x \in Int
        PROVE  a \div PAGE_SIZE <= x <=> a < x * PAGE_SIZE + PAGE_SIZE
    <3>1. x + 1 \in Int /\ (x + 1) * PAGE_SIZE = x * PAGE_SIZE + PAGE_SIZE
      BY <1>0, <2>2, Multiply
    <3>2. x + 1 > a \div PAGE_SIZE <=> (x + 1) * PAGE_SIZE > a
      BY <1>0, <3>1, Divide
    <3>3. x + 1 > a \div PAGE_SIZE <=> a \div PAGE_SIZE <= x
      BY <1>2, <2>2
    <3>4. x * PAGE_SIZE \in Int
      BY <1>0, <2>2, Multiply
    <3> DEFINE y == (x + 1) * PAGE_SIZE
    <3> HIDE DEF y
    <3>5. y \in Int /\ (y > a <=> a < y)
      BY <1>0, <3>1, <3>4 DEF y
    <3>6. QED BY <3>1, <3>2, <3>3, <3>5 DEF y
  <2>3. ASSUME x \in Int
        PROVE  x <= b \div PAGE_SIZE <=> x * PAGE_SIZE <= b
    BY <1>0, <1>1, <2>3, Divide
  <2>4. QED BY <2>1, <2>2, <2>3
<1>4. QED
  BY <1>0, <1>2, <1>3 DEF b, Page

\* What PagesNeeded gives is enough.
LEMMA Enough ==
    ASSUME NEW size \in Nat
    PROVE  PagesNeeded(size) \in Nat /\ size <= PagesNeeded(size) * PAGE_SIZE
<1>0. PAGE_SIZE \in Nat \ {0}
  BY StartupAssumption
<1> DEFINE a == size + PAGE_SIZE - 1
           n == a \div PAGE_SIZE
<1>1. a \in Nat
  BY <1>0
<1>2. PagesNeeded(size) = n
  BY DEF PagesNeeded
<1> HIDE DEF a
<1>3. n \in Int
  BY <1>0, <1>1, Divide
<1>4. 0 <= n
  <2>1. 0 * PAGE_SIZE = 0
    BY <1>0
  <2>2. QED BY <1>0, <1>1, <2>1, Divide
<1>5. (n + 1) * PAGE_SIZE > a
  <2>1. n + 1 > n /\ n + 1 \in Int
    BY <1>3
  <2>2. QED BY <1>0, <1>1, <2>1, Divide
<1> HIDE DEF n
<1>6. (n + 1) * PAGE_SIZE = n * PAGE_SIZE + PAGE_SIZE /\ n * PAGE_SIZE \in Int
  BY <1>0, <1>3, Multiply
<1>7. size <= n * PAGE_SIZE
  BY <1>0, <1>5, <1>6 DEF a
<1>8. QED
  BY <1>2, <1>3, <1>4, <1>7

\* One region holds everything from a up to b.
Reserves(a, b) ==
    \E i \in DOMAIN reserved_regions :
      reserved_regions[i].start <= a /\ b <= reserved_regions[i].end

\* The need pages from page k of the pool on meet no page of what a region holds.
LEMMA ClearOfReserved ==
    ASSUME reserved_regions \in Seq(Regions), buddy_base_addr \in Nat,
           NEW k \in Nat, NEW need \in Nat, ClashAt(k, need) = {},
           NEW j \in Int, buddy_base_addr + k * PAGE_SIZE = j * PAGE_SIZE,
           NEW size \in Nat, size <= need * PAGE_SIZE,
           NEW a \in Int, NEW s \in Int, Reserves(a, a + s)
    PROVE  Pages(a, s) \cap Pages(buddy_base_addr + k * PAGE_SIZE, size) = {}
<1>0. PAGE_SIZE \in Nat \ {0}
  BY StartupAssumption
<1> DEFINE start == buddy_base_addr + k * PAGE_SIZE
           end == start + need * PAGE_SIZE
<1>1. start \in Int /\ end \in Int
  <2>1. k * PAGE_SIZE \in Int /\ need * PAGE_SIZE \in Int
    BY <1>0, Multiply
  <2>2. QED BY <2>1
<1>2. PICK i \in DOMAIN reserved_regions :
         reserved_regions[i].start <= a /\ a + s <= reserved_regions[i].end
  BY DEF Reserves
<1>3. reserved_regions[i].start \in Nat /\ reserved_regions[i].end \in Nat
  <2>1. reserved_regions[i] \in Regions
    BY <1>2, ElementOfSeq
  <2>2. QED BY <2>1 DEF Regions
<1>4. end <= reserved_regions[i].start \/ start >= reserved_regions[i].end
  BY <1>2 DEF ClashAt
<1> DEFINE rs == reserved_regions[i].start
           re == reserved_regions[i].end
<1>5. rs \in Nat /\ re \in Nat /\ rs <= a /\ a + s <= re /\ (end <= rs \/ start >= re)
  BY <1>2, <1>3, <1>4
<1> SUFFICES ASSUME NEW x \in Pages(a, s), x \in Pages(start, size) PROVE FALSE
  OBVIOUS
<1> HIDE DEF rs, re
<1>6. x \in Int /\ a < x * PAGE_SIZE + PAGE_SIZE /\ x * PAGE_SIZE <= a + s - 1
  BY PageFacts
<1>7. start < x * PAGE_SIZE + PAGE_SIZE /\ x * PAGE_SIZE <= start + size - 1
  <2> HIDE DEF start
  <2>1. QED BY <1>1, PageFacts
<1>8. x * PAGE_SIZE \in Int /\ need * PAGE_SIZE \in Int /\ start = j * PAGE_SIZE
      /\ (j + need) * PAGE_SIZE = j * PAGE_SIZE + need * PAGE_SIZE
      /\ (x + 1) * PAGE_SIZE = x * PAGE_SIZE + PAGE_SIZE
  BY <1>0, <1>6, Multiply
\* start <= the page's first byte, and the page ends at end or before
<1>9. j <= x
  <2>1. j * PAGE_SIZE < (x + 1) * PAGE_SIZE
    BY <1>7, <1>8
  <2>2. j < x + 1
    BY <1>0, <1>6, <2>1, Multiply
  <2>3. QED BY <1>6, <2>2
<1>10. x + 1 <= j + need
  <2>1. x * PAGE_SIZE < (j + need) * PAGE_SIZE
    <3> DEFINE p == x * PAGE_SIZE
               q == need * PAGE_SIZE
    <3> HIDE DEF p, q, start
    <3>1. p \in Int /\ q \in Int /\ p <= start + size - 1 /\ size <= q
      BY <1>7, <1>8 DEF p, q
    <3>2. p < start + q
      BY <1>1, <3>1
    <3>3. QED BY <1>8, <3>2 DEF p, q
  <2>2. x < j + need
    BY <1>0, <1>6, <2>1, Multiply
  <2>3. QED BY <1>6, <2>2
<1>11. j * PAGE_SIZE <= x * PAGE_SIZE /\ (x + 1) * PAGE_SIZE <= (j + need) * PAGE_SIZE
  BY <1>0, <1>6, <1>9, <1>10, Multiply
<1>12. end = (j + need) * PAGE_SIZE
  BY <1>8
<1> DEFINE p == x * PAGE_SIZE
<1> HIDE DEF p, start, end
<1>13. start <= p /\ p + PAGE_SIZE <= end /\ p \in Int /\ a < p + PAGE_SIZE /\ p <= a + s - 1
  BY <1>6, <1>8, <1>11, <1>12 DEF p
<1>14. QED
  BY <1>0, <1>1, <1>5, <1>13

\* A page on the free lists is one of the pool, and no region holds any of it.
LEMMA FreeIsUnreserved ==
    ASSUME reserved_regions \in Seq(Regions), buddy_total_pages \in Nat, buddy_base_addr \in Nat,
           NEW j \in Int, buddy_base_addr = j * PAGE_SIZE,
           NEW x \in Free
    PROVE  /\ x \in Int /\ j <= x /\ x < j + buddy_total_pages
           /\ \A a, s \in Int : Reserves(a, a + s) => x \notin Pages(a, s)
<1>0. PAGE_SIZE \in Nat \ {0}
  BY StartupAssumption
<1>1. Page(buddy_base_addr) = j
  <2>1. j <= j /\ j + 1 > j /\ j + 1 \in Int
    OBVIOUS
  <2>2. j * PAGE_SIZE <= buddy_base_addr /\ (j + 1) * PAGE_SIZE > buddy_base_addr
    <3>1. (j + 1) * PAGE_SIZE = j * PAGE_SIZE + PAGE_SIZE
      BY <1>0, Multiply
    <3>2. QED BY <1>0, <3>1
  <2>3. j <= buddy_base_addr \div PAGE_SIZE /\ j + 1 > buddy_base_addr \div PAGE_SIZE
        /\ buddy_base_addr \div PAGE_SIZE \in Int
    BY <1>0, <2>1, <2>2, Divide
  <2>4. QED BY <2>3 DEF Page
<1>2. PICK idx \in 0..buddy_total_pages - 1 :
         /\ x = j + idx
         /\ \A i \in DOMAIN reserved_regions :
              idx \notin StartIdx(reserved_regions[i])..EndIdx(reserved_regions[i]) - 1
  <2> HIDE DEF Page
  <2>1. QED BY <1>1 DEF Free
<1>3. idx \in Nat /\ x \in Int /\ j <= x /\ x < j + buddy_total_pages
  BY <1>2
<1>4. ASSUME NEW a \in Int, NEW s \in Int, Reserves(a, a + s), x \in Pages(a, s)
      PROVE  FALSE
  <2>1. PICK i \in DOMAIN reserved_regions :
           reserved_regions[i].start <= a /\ a + s <= reserved_regions[i].end
    BY <1>4 DEF Reserves
  <2> DEFINE r == reserved_regions[i]
             rs == r.start
             re == r.end
             p == idx * PAGE_SIZE
             b == buddy_base_addr
  <2>2. rs \in Nat /\ re \in Nat
    <3>1. r \in Regions
      BY <2>1, ElementOfSeq
    <3>2. QED BY <3>1 DEF Regions
  <2>3. a < x * PAGE_SIZE + PAGE_SIZE /\ x * PAGE_SIZE <= a + s - 1
    BY <1>4, PageFacts
  <2>4. x * PAGE_SIZE = b + p /\ p \in Nat /\ (idx + 1) * PAGE_SIZE = p + PAGE_SIZE
    <3>1. x * PAGE_SIZE = j * PAGE_SIZE + idx * PAGE_SIZE /\ idx * PAGE_SIZE \in Int
          /\ (idx + 1) * PAGE_SIZE = idx * PAGE_SIZE + PAGE_SIZE
      BY <1>0, <1>2, <1>3, Multiply
    <3>2. 0 * PAGE_SIZE <= idx * PAGE_SIZE /\ 0 * PAGE_SIZE = 0
      BY <1>0, <1>3, Multiply
    <3>3. QED BY <3>1, <3>2
  <2>5. ~(StartIdx(r) <= idx /\ idx < EndIdx(r) /\ StartIdx(r) \in Int /\ EndIdx(r) \in Int)
    BY <1>2, <1>3, <2>1
  <2>6. /\ StartIdx(r) = IF rs > b THEN (rs - b) \div PAGE_SIZE ELSE 0
        /\ EndIdx(r) = IF re > b THEN (re - b + PAGE_SIZE - 1) \div PAGE_SIZE ELSE 0
    BY DEF StartIdx, EndIdx
  <2>7. rs <= a /\ a + s <= re
    BY <2>1
  <2> DEFINE px == x * PAGE_SIZE
             next == (idx + 1) * PAGE_SIZE
  <2> HIDE DEF r, rs, re, p, b, px, next
  <2>8. b \in Nat
    BY DEF b
  <2>9. rs < b + p + PAGE_SIZE /\ b + p < re
    <3>1. px = b + p /\ a < px + PAGE_SIZE /\ px <= a + s - 1
      BY <2>3, <2>4 DEF px
    <3>2. QED BY <1>0, <2>2, <2>4, <2>7, <2>8, <3>1
  <2>10. StartIdx(r) \in Int /\ StartIdx(r) <= idx
    <3>1. CASE rs > b
      <4> DEFINE d == rs - b
      <4>1. d \in Int /\ StartIdx(r) = d \div PAGE_SIZE
        BY <2>2, <2>6, <2>8, <3>1
      <4>2. next > d /\ next = (idx + 1) * PAGE_SIZE
        BY <1>0, <2>2, <2>4, <2>8, <2>9 DEF next
      <4> HIDE DEF d
      <4>3. d \div PAGE_SIZE \in Int /\ idx + 1 > d \div PAGE_SIZE
        BY <1>0, <1>3, <4>1, <4>2, Divide
      <4>4. QED BY <1>3, <4>1, <4>3
    <3>2. CASE ~(rs > b)
      BY <1>3, <2>6, <3>2
    <3>3. QED BY <3>1, <3>2
  <2>11. EndIdx(r) \in Int /\ idx < EndIdx(r)
    <3> DEFINE d == re - b + PAGE_SIZE - 1
    <3>1. re > b
      BY <2>2, <2>4, <2>8, <2>9
    <3>2. d \in Int /\ EndIdx(r) = d \div PAGE_SIZE
      BY <1>0, <2>2, <2>6, <2>8, <3>1
    <3>3. next <= d /\ next = (idx + 1) * PAGE_SIZE
      BY <1>0, <2>2, <2>4, <2>8, <2>9 DEF next
    <3> HIDE DEF d
    <3>4. d \div PAGE_SIZE \in Int /\ idx + 1 <= d \div PAGE_SIZE
      BY <1>0, <1>3, <3>2, <3>3, Divide
    <3>5. QED BY <1>3, <3>2, <3>4
  <2>12. QED BY <2>5, <2>10, <2>11
<1>5. QED
  BY <1>3, <1>4

\* A page from the kernel's addresses on is none that drop_identity_map takes.
LEMMA AboveIdentity ==
    ASSUME NEW a \in Nat, a >= 4 * PGD_SPAN, NEW s \in Int
    PROVE  Pages(a, s) \cap Pages(0, 4 * PGD_SPAN) = {}
<1>0. /\ PAGE_SIZE \in Nat \ {0} /\ HPAGE_SIZE \in Nat \ {0} /\ PGD_SPAN \in Nat \ {0}
      /\ HPAGE_SIZE % PAGE_SIZE = 0 /\ PGD_SPAN % HPAGE_SIZE = 0
  BY StartupAssumption
<1> SUFFICES ASSUME NEW x \in Pages(a, s), x \in Pages(0, 4 * PGD_SPAN) PROVE FALSE
  OBVIOUS
<1> DEFINE m == 4 * PGD_SPAN
           u == HPAGE_SIZE \div PAGE_SIZE
           v == PGD_SPAN \div HPAGE_SIZE
           w == 4 * v * u
<1>1. u \in Int /\ HPAGE_SIZE = u * PAGE_SIZE
  BY <1>0
<1>2. v \in Int /\ PGD_SPAN = v * HPAGE_SIZE
  BY <1>0
<1> HIDE DEF u, v
<1>3. w \in Int /\ m = w * PAGE_SIZE
  BY <1>0, <1>1, <1>2
<1>4. m \in Nat
  BY <1>0
<1> HIDE DEF w, m
<1>5. x \in Int /\ x * PAGE_SIZE <= m - 1 /\ x * PAGE_SIZE \in Int
  <2>1. x \in Pages(0, m)
    BY DEF m
  <2>2. x \in Int /\ x * PAGE_SIZE <= 0 + m - 1
    BY <1>4, <2>1, PageFacts
  <2>3. QED BY <1>0, <1>4, <2>2, Multiply
<1>6. x < w
  <2>1. x * PAGE_SIZE < w * PAGE_SIZE
    BY <1>3, <1>4, <1>5
  <2>2. QED BY <1>0, <1>3, <1>5, <2>1, Multiply
<1>7. (x + 1) * PAGE_SIZE <= m
  <2>1. x + 1 \in Int /\ x + 1 <= w
    BY <1>3, <1>5, <1>6
  <2>2. QED BY <1>0, <1>3, <2>1, Multiply
<1>8. a < x * PAGE_SIZE + PAGE_SIZE /\ a >= m
  BY PageFacts DEF m
<1>9. (x + 1) * PAGE_SIZE = x * PAGE_SIZE + PAGE_SIZE
  BY <1>0, <1>5, Multiply
<1>10. QED
  BY <1>0, <1>4, <1>5, <1>7, <1>8, <1>9

\* The pages of the memory the kernel can reach, at its own addresses of them.
Window == Pages(va(RAM_BASE), RAM_LIMIT)

\* setup_vm maps them, and drop_identity_map leaves them.
LEMMA WindowIsMapped ==
    /\ Window \subseteq map_pages_2m(va(RAM_BASE), RAM_LIMIT)
    /\ Window \cap Pages(0, 4 * PGD_SPAN) = {}
<1> DEFINE a == va(RAM_BASE)
           b == a + RAM_LIMIT - 1
           lo == a \div HPAGE_SIZE
           hi == b \div HPAGE_SIZE
<1>0. /\ PAGE_SIZE \in Nat \ {0} /\ HPAGE_SIZE \in Nat \ {0} /\ PGD_SPAN \in Nat \ {0}
      /\ RAM_LIMIT \in Nat \ {0} /\ RAM_BASE \in Nat /\ PAGE_OFFSET \in Nat
      /\ 4 * PGD_SPAN <= PAGE_OFFSET
      /\ HPAGE_SIZE % PAGE_SIZE = 0 /\ PGD_SPAN % HPAGE_SIZE = 0
  BY StartupAssumption
<1>1. a \in Nat /\ a >= 4 * PGD_SPAN
  BY <1>0 DEF va
<1> HIDE DEF a
<1>2. b \in Int
  BY <1>0, <1>1
<1> HIDE DEF b
<1>3. /\ lo \in Int /\ hi \in Int /\ lo * HPAGE_SIZE <= a
      /\ (hi + 1) * HPAGE_SIZE > b
      /\ (hi + 1) * HPAGE_SIZE = hi * HPAGE_SIZE + HPAGE_SIZE
  <2>1. lo \in Int /\ hi \in Int
    BY <1>0, <1>1, <1>2, Divide
  <2>2. lo * HPAGE_SIZE <= a
    <3>1. lo <= a \div HPAGE_SIZE
      BY <2>1
    <3> HIDE DEF lo
    <3>2. QED BY <1>0, <1>1, <2>1, <3>1, Divide
  <2>3. (hi + 1) * HPAGE_SIZE > b
    <3>1. hi + 1 > b \div HPAGE_SIZE /\ hi + 1 \in Int
      BY <2>1
    <3> HIDE DEF hi
    <3>2. QED BY <1>0, <1>2, <3>1, Divide
  <2> HIDE DEF hi, lo
  <2>4. QED BY <1>0, <2>1, <2>2, <2>3, Multiply
<1> HIDE DEF lo, hi
<1>4. Window = Pages(a, RAM_LIMIT)
  BY DEF Window, a
<1>5. \A x \in Window : x \in Int /\ a < x * PAGE_SIZE + PAGE_SIZE /\ x * PAGE_SIZE <= b
  BY <1>0, <1>1, <1>4, PageFacts DEF b
<1>6. Window \subseteq map_pages_2m(a, RAM_LIMIT)
  <2> DEFINE first == HPAGE_SIZE * lo
             last == HPAGE_SIZE * hi
             n == last - first + HPAGE_SIZE
  <2>1. map_pages_2m(a, RAM_LIMIT) = Pages(first, n)
    BY DEF map_pages_2m, lo, hi, b
  <2>2. first \in Int /\ last \in Int /\ first <= a /\ last + HPAGE_SIZE > b
    <3>1. first = lo * HPAGE_SIZE /\ last = hi * HPAGE_SIZE
          /\ lo * HPAGE_SIZE \in Int /\ hi * HPAGE_SIZE \in Int
      BY <1>0, <1>3, Multiply
    <3>2. QED BY <1>3, <3>1
  <2> HIDE DEF first, last
  <2>3. n \in Int /\ first + n - 1 >= b /\ first + n - 1 \in Int
    BY <1>0, <1>2, <2>2
  <2> HIDE DEF n
  <2>4. ASSUME NEW x \in Window PROVE x \in Pages(first, n)
    <3> DEFINE p == x * PAGE_SIZE
    <3>1. x \in Int /\ a < p + PAGE_SIZE /\ p <= b /\ p \in Int
      BY <1>0, <1>5, Multiply
    <3>2. first < p + PAGE_SIZE /\ p <= first + n - 1
      <4> HIDE DEF p
      <4>1. QED BY <1>0, <1>1, <1>2, <2>2, <2>3, <3>1
    <3>3. QED BY <2>2, <2>3, <3>1, <3>2, PageFacts
  <2>5. QED BY <2>1, <2>4
<1>7. Window \cap Pages(0, 4 * PGD_SPAN) = {}
  <2>1. RAM_LIMIT \in Int
    BY <1>0
  <2>2. QED BY <1>1, <1>4, <2>1, AboveIdentity
<1>8. QED
  BY <1>6, <1>7 DEF a

-----------------------------------------------------------------------------
(* The list of regions *)

Chunk == [start : Nat, size : Nat]

\* Regions that all fit are all added.
LEMMA AllAreAdded ==
    ASSUME NEW r \in Seq(Regions), NEW more \in Seq(Chunk),
           Len(r) + Len(more) <= MAX_RESERVED_REGIONS
    PROVE  /\ memory_reserve(r, more) \in Seq(Regions)
           /\ Len(memory_reserve(r, more)) = Len(r) + Len(more)
           /\ \A i \in 1..Len(r) : memory_reserve(r, more)[i] = r[i]
           /\ \A i \in 1..Len(more) : memory_reserve(r, more)[Len(r) + i] =
                [start |-> more[i].start, end |-> more[i].start + more[i].size]
<1> DEFINE n == Len(more)
           room == MAX_RESERVED_REGIONS - Len(r)
           new == [i \in 1..n |-> [start |-> more[i].start, end |-> more[i].start + more[i].size]]
<1>1. n \in Nat /\ Len(r) \in Nat /\ MAX_RESERVED_REGIONS \in Nat /\ room \in Nat /\ n <= room
  BY StartupAssumption
<1>2. Min({room, n}) = n
  <2> HIDE DEF n, room
  <2>1. n \in {room, n} /\ \A y \in {room, n} : n <= y
    BY <1>1
  <2>2. \A x \in {room, n} : (\A y \in {room, n} : x <= y) => x = n
    BY <1>1
  <2>3. QED BY <2>1, <2>2 DEF Min
<1>3. memory_reserve(r, more) = r \o new
  BY <1>2 DEF memory_reserve
<1>4. \A i \in 1..n : new[i] = [start |-> more[i].start, end |-> more[i].start + more[i].size]
                      /\ new[i] \in Regions
  <2> SUFFICES ASSUME NEW i \in 1..n
               PROVE  [start |-> more[i].start, end |-> more[i].start + more[i].size] \in Regions
    OBVIOUS
  <2>1. more[i] \in Chunk
    BY ElementOfSeq
  <2>2. QED BY <2>1 DEF Chunk, Regions
<1>5. new \in Seq(Regions) /\ Len(new) = n
  <2>1. DOMAIN new = 1..n
    OBVIOUS
  <2>2. new = [i \in 1..n |-> new[i]]
    OBVIOUS
  <2> HIDE DEF new
  <2>3. new \in [1..n -> Regions]
    BY <1>4, <2>1, <2>2
  <2>4. QED BY <1>1, <2>1, <2>3, FunctionIsSeq, LenProperties
<1> HIDE DEF new, n
<1>6. /\ r \o new \in Seq(Regions) /\ Len(r \o new) = Len(r) + n
      /\ \A i \in 1..Len(r) : (r \o new)[i] = r[i]
      /\ \A i \in 1..n : (r \o new)[Len(r) + i] = new[i]
  <2>1. Len(new) = n
    BY <1>5
  <2>2. /\ r \o new \in Seq(Regions) /\ Len(r \o new) = Len(r) + Len(new)
        /\ \A i \in 1..Len(r) + Len(new) :
             (r \o new)[i] = IF i <= Len(r) THEN r[i] ELSE new[i - Len(r)]
    BY <1>5, ConcatProperties
  <2>3. \A i \in 1..Len(r) : (r \o new)[i] = r[i]
    BY <1>1, <2>1, <2>2
  <2>4. ASSUME NEW i \in 1..n PROVE (r \o new)[Len(r) + i] = new[i]
    <3>1. Len(r) + i \in 1..Len(r) + Len(new) /\ ~(Len(r) + i <= Len(r)) /\ Len(r) + i - Len(r) = i
      BY <1>1, <2>1
    <3>2. QED BY <2>2, <3>1
  <2>5. QED BY <2>1, <2>2, <2>3, <2>4
<1>7. QED
  BY <1>3, <1>4, <1>6 DEF n

\* The three ways a list of regions grows.
LEMMA OneIsAdded ==
    ASSUME NEW r \in Seq(Regions), NEW a \in Nat, NEW s \in Nat, Len(r) + 1 <= MAX_RESERVED_REGIONS
    PROVE  LET q == memory_reserve(r, <<[start |-> a, size |-> s]>>)
           IN  /\ q \in Seq(Regions) /\ Len(q) = Len(r) + 1
               /\ \A i \in DOMAIN r : i \in DOMAIN q /\ q[i] = r[i]
               /\ \E i \in DOMAIN q : q[i].start = a /\ q[i].end = a + s
<1> DEFINE c == [start |-> a, size |-> s]
           q == memory_reserve(r, <<c>>)
<1>1. <<c>> \in Seq(Chunk) /\ Len(<<c>>) = 1 /\ <<c>>[1] = c
  BY DEF Chunk
<1>2. /\ q \in Seq(Regions) /\ Len(q) = Len(r) + 1
      /\ \A i \in 1..Len(r) : q[i] = r[i]
      /\ q[Len(r) + 1] = [start |-> a, end |-> a + s]
  <2> DEFINE m == <<c>>
  <2>1. m \in Seq(Chunk) /\ Len(m) = 1 /\ m[1].start = a /\ m[1].size = s
    BY <1>1
  <2> HIDE DEF m
  <2>2. Len(r) + Len(m) <= MAX_RESERVED_REGIONS /\ 1 \in 1..Len(m)
    BY <2>1
  <2>3. /\ memory_reserve(r, m) \in Seq(Regions)
        /\ Len(memory_reserve(r, m)) = Len(r) + 1
        /\ \A i \in 1..Len(r) : memory_reserve(r, m)[i] = r[i]
        /\ memory_reserve(r, m)[Len(r) + 1] = [start |-> m[1].start, end |-> m[1].start + m[1].size]
    BY <2>1, <2>2, AllAreAdded
  <2>4. q = memory_reserve(r, m)
    BY DEF m
  <2>5. QED BY <2>1, <2>3, <2>4
<1> HIDE DEF q
<1>3. DOMAIN r = 1..Len(r) /\ DOMAIN q = 1..Len(r) + 1 /\ Len(r) \in Nat
  BY <1>2, LenProperties
<1>4. Len(r) + 1 \in DOMAIN q /\ \A i \in DOMAIN r : i \in DOMAIN q
  BY <1>3
<1>5. q[Len(r) + 1].start = a /\ q[Len(r) + 1].end = a + s
  BY <1>2
<1>6. QED
  BY <1>2, <1>3, <1>4, <1>5 DEF q

-----------------------------------------------------------------------------
(* The conditions, and what holds at each stage *)

\* Machines the kernel is made for: their memory starts at a page and lies in
\* the window, the archive is no longer than what is kept for it, and the
\* regions to be kept fit into the kernel's array.
Suits(m) ==
    LET memory == dtb_get_memory_region(m.tree)
        at == IF memory.size = 0 THEN RAM_BASE ELSE memory.start
    IN  /\ m.at \in Nat /\ m.size \in Nat
        /\ dtb_load_initrd_addr(m.tree) \in Nat
        /\ ArchiveSize(m.archive) \in 0..INITRD_RESERVE
        /\ memory \in Chunk
        /\ at % PAGE_SIZE = 0 /\ RAM_BASE <= at
        /\ at + ManagedSize(memory.size) <= RAM_BASE + RAM_LIMIT
        /\ dtb_reserved_regions(m.tree) \in Seq(Chunk)
        /\ Cardinality(FrameBuffers) + Len(dtb_reserved_regions(m.tree)) + 6
             <= MAX_RESERVED_REGIONS

Supported ==
    /\ IsFiniteSet(FrameBuffers) /\ FrameBuffers \subseteq Chunk
    /\ \A m \in Machines : Suits(m)

MachineIsKnown ==
    /\ machine \in Machines
    /\ dtb_addr = va(machine.at)
    /\ cpio_addr = InitrdAt(machine.tree)

\* The pool starts at a page, in the window, and ends there.
PoolIsSound ==
    /\ buddy_base_addr \in Nat /\ buddy_total_pages \in Nat
    /\ va(RAM_BASE) <= buddy_base_addr
    /\ \E j \in Int : buddy_base_addr = j * PAGE_SIZE
    /\ buddy_base_addr + buddy_total_pages * PAGE_SIZE <= va(RAM_BASE) + RAM_LIMIT

KnownAreReserved ==
    /\ Reserves(IMAGE_START, IMAGE_END)
    /\ IMAGE_START > buddy_base_addr => Reserves(buddy_base_addr, IMAGE_START)
    /\ Reserves(dtb_addr, dtb_addr + machine.size)
    /\ cpio_addr # NULL => Reserves(cpio_addr, cpio_addr + INITRD_RESERVE)

\* An array of the allocator: pages of the pool, reserved, that nobody uses.
IsPlaced(a) ==
    /\ \E k \in Nat : /\ a = buddy_base_addr + k * PAGE_SIZE
                      /\ k + PagesNeeded(ArraySize) <= buddy_total_pages
    /\ Reserves(a, a + PagesNeeded(ArraySize) * PAGE_SIZE)
    /\ Pages(a, ArraySize) \cap InUse = {}

StartInv ==
    /\ stage \in {"main", "devices", "video", "pool", "frame_array", "ref_count", "ready"} =>
         Window \subseteq mapped
    /\ Looked => MachineIsKnown
    /\ stage \in {"pool", "frame_array", "ref_count", "ready"} => reserved_regions \in Seq(Regions)
    /\ stage = "pool" => Len(reserved_regions) = Cardinality(FrameBuffers)
    /\ stage = "frame_array" => Len(reserved_regions) + 2 <= MAX_RESERVED_REGIONS
    /\ stage = "ref_count" => Len(reserved_regions) + 1 <= MAX_RESERVED_REGIONS
    /\ stage \in {"frame_array", "ref_count", "ready"} => PoolIsSound /\ KnownAreReserved
    /\ stage \in {"ref_count", "ready"} => IsPlaced(frame_array)
    /\ stage = "ready" => /\ IsPlaced(ref_count)
                          /\ Pages(frame_array, ArraySize) \cap Pages(ref_count, ArraySize) = {}

\* The steps before the pool is known keep this.
LEMMA EarlyStages ==
    ASSUME Supported, StartInv, setup_vm \/ main_devices \/ drop_identity_map \/ video_init
    PROVE  StartInv'
<1>1. CASE setup_vm
  <2>1. map_pages_2m(va(RAM_BASE), RAM_LIMIT) \subseteq mapped'
    BY <1>1 DEF setup_vm
  <2>2. Window \subseteq mapped'
    BY <2>1, WindowIsMapped
  <2>3. stage' = "main" /\ Window' = Window
    BY <1>1 DEF setup_vm, Window, va, Pages, Page
  <2>4. QED BY <2>2, <2>3 DEF StartInv, Looked
<1>2. CASE main_devices
  <2>1. stage' = "devices" /\ Window' = Window /\ mapped' = mapped
    BY <1>2 DEF main_devices, Window, va, Pages, Page
  <2>2. Window \subseteq mapped
    BY <1>2 DEF main_devices, StartInv, Looked
  <2>3. MachineIsKnown'
    BY <1>2 DEF main_devices, MachineIsKnown, InitrdAt, va
  <2>4. QED BY <2>1, <2>2, <2>3 DEF StartInv, Looked
<1>3. CASE drop_identity_map
  <2>1. stage' = "video" /\ Window' = Window /\ mapped' = mapped \ Pages(0, 4 * PGD_SPAN)
    BY <1>3 DEF drop_identity_map, Window, va, Pages, Page
  <2>2. Window \subseteq mapped /\ MachineIsKnown
    BY <1>3 DEF drop_identity_map, StartInv, Looked
  <2>3. Window \subseteq mapped'
    BY <2>1, <2>2, WindowIsMapped
  <2>4. MachineIsKnown'
    <3>1. UNCHANGED <<machine, dtb_addr, cpio_addr>>
      BY <1>3 DEF drop_identity_map, found
    <3>2. QED BY <2>2, <3>1 DEF MachineIsKnown, InitrdAt, va
  <2>5. QED BY <2>1, <2>3, <2>4 DEF StartInv, Looked
<1>4. CASE video_init
  <2>1. stage' = "pool" /\ Window' = Window /\ mapped' = mapped
    BY <1>4 DEF video_init, Window, va, Pages, Page
  <2>2. Window \subseteq mapped /\ MachineIsKnown
    BY <1>4 DEF video_init, StartInv, Looked
  <2>4. MachineIsKnown'
    <3>1. UNCHANGED <<machine, dtb_addr, cpio_addr>>
      BY <1>4 DEF video_init, found
    <3>2. QED BY <2>2, <3>1 DEF MachineIsKnown, InitrdAt, va
  <2>5. reserved_regions' \in Seq(Regions) /\ Len(reserved_regions') = Cardinality(FrameBuffers)
    <3> DEFINE q == SetToSeq(FrameBuffers)
    <3>1. q \in Seq(Chunk) /\ Len(q) = Cardinality(FrameBuffers) /\ Cardinality(FrameBuffers) \in Nat
      BY SetAsSequence DEF Supported
    <3> HIDE DEF q
    <3>2. <<>> \in Seq(Regions) /\ Len(<<>>) = 0
      OBVIOUS
    <3>3. Len(q) <= MAX_RESERVED_REGIONS
      <4>1. machine \in Machines
        BY <2>2 DEF MachineIsKnown
      <4>2. Suits(machine)
        BY <4>1 DEF Supported
      <4>3. /\ Len(dtb_reserved_regions(machine.tree)) \in Nat
            /\ Cardinality(FrameBuffers) + Len(dtb_reserved_regions(machine.tree)) + 6
                 <= MAX_RESERVED_REGIONS
        BY <4>2, LenProperties DEF Suits
      <4>4. QED BY <3>1, <4>3, StartupAssumption
    <3> DEFINE e == <<>>
    <3>4. e \in Seq(Regions) /\ Len(e) = 0
      OBVIOUS
    <3>5. reserved_regions' = memory_reserve(e, q)
      BY <1>4 DEF video_init, q
    <3> HIDE DEF e
    <3>6. Len(e) + Len(q) <= MAX_RESERVED_REGIONS /\ Len(e) + Len(q) = Cardinality(FrameBuffers)
      BY <3>1, <3>3, <3>4
    <3>7. QED BY <3>1, <3>4, <3>5, <3>6, AllAreAdded
  <2>6. QED BY <2>1, <2>2, <2>4, <2>5 DEF StartInv, Looked
<1>5. QED
  BY <1>1, <1>2, <1>3, <1>4

\* The pool buddy_init makes of a supported machine's memory.
LEMMA PoolOfMemory ==
    ASSUME Supported, MachineIsKnown, buddy_init
    PROVE  /\ buddy_base_addr' \in Nat /\ buddy_total_pages' \in Nat
           /\ va(RAM_BASE) <= buddy_base_addr'
           /\ \E j \in Int : buddy_base_addr' = j * PAGE_SIZE
           /\ buddy_base_addr' + buddy_total_pages' * PAGE_SIZE <= va(RAM_BASE) + RAM_LIMIT
<1> DEFINE memory == dtb_get_memory_region(machine.tree)
           at == IF memory.size = 0 THEN RAM_BASE ELSE memory.start
           size == ManagedSize(memory.size)
<1>0. /\ PAGE_SIZE \in Nat \ {0} /\ HPAGE_SIZE \in Nat \ {0} /\ PGD_SPAN \in Nat \ {0}
      /\ RAM_LIMIT \in Nat \ {0} /\ RAM_BASE \in Nat /\ PAGE_OFFSET \in Nat
      /\ HPAGE_SIZE % PAGE_SIZE = 0 /\ PGD_SPAN % HPAGE_SIZE = 0 /\ PAGE_OFFSET % PGD_SPAN = 0
  BY StartupAssumption
<1>1. /\ memory \in Chunk /\ at % PAGE_SIZE = 0 /\ RAM_BASE <= at
      /\ at + size <= RAM_BASE + RAM_LIMIT
  BY DEF Supported, MachineIsKnown, Suits
<1>2. buddy_base_addr' = va(at) /\ buddy_total_pages' = size \div PAGE_SIZE
  BY DEF buddy_init
<1> HIDE DEF memory
<1>3. memory.size \in Nat /\ memory.start \in Nat
  BY <1>1 DEF Chunk
<1>4. at \in Nat /\ size \in Nat
  BY <1>0, <1>3 DEF ManagedSize
<1> HIDE DEF at, size
<1>5. \E j \in Int : PAGE_OFFSET + at = j * PAGE_SIZE
  <2> DEFINE u == HPAGE_SIZE \div PAGE_SIZE
             v == PGD_SPAN \div HPAGE_SIZE
             w == PAGE_OFFSET \div PGD_SPAN
             t == at \div PAGE_SIZE
  <2>1. u \in Int /\ HPAGE_SIZE = u * PAGE_SIZE
    BY <1>0
  <2>2. v \in Int /\ PGD_SPAN = v * HPAGE_SIZE
    BY <1>0
  <2>3. w \in Int /\ PAGE_OFFSET = w * PGD_SPAN
    BY <1>0
  <2>4. t \in Int /\ at = t * PAGE_SIZE
    BY <1>0, <1>1, <1>4
  <2> HIDE DEF u, v, w, t
  <2>5. w * v * u \in Int /\ PAGE_OFFSET = (w * v * u) * PAGE_SIZE
    <3>1. PAGE_OFFSET = w * (v * (u * PAGE_SIZE))
      BY <2>1, <2>2, <2>3
    <3>2. QED BY <1>0, <2>1, <2>2, <2>3, <3>1
  <2> DEFINE z == w * v * u
  <2> HIDE DEF z
  <2>6. z \in Int /\ PAGE_OFFSET = z * PAGE_SIZE
    BY <2>5 DEF z
  <2>7. z + t \in Int /\ (z + t) * PAGE_SIZE = z * PAGE_SIZE + t * PAGE_SIZE
    BY <1>0, <2>4, <2>6, Multiply
  <2>8. QED BY <2>4, <2>6, <2>7
<1>6. va(at) = PAGE_OFFSET + at /\ va(at) \in Nat /\ va(RAM_BASE) <= va(at)
      /\ va(at) + size <= va(RAM_BASE) + RAM_LIMIT
  BY <1>0, <1>1, <1>4 DEF va
<1> DEFINE n == size \div PAGE_SIZE
<1>7. n \in Int /\ n * PAGE_SIZE <= size /\ 0 <= n /\ n * PAGE_SIZE \in Int
  <2>1. n \in Int
    BY <1>0, <1>4, Divide
  <2>2. 0 <= n
    <3>1. 0 * PAGE_SIZE = 0
      BY <1>0
    <3>2. QED BY <1>0, <1>4, <3>1, Divide
  <2>3. n * PAGE_SIZE <= size
    <3>1. n <= size \div PAGE_SIZE
      BY <2>1
    <3> HIDE DEF n
    <3>2. QED BY <1>0, <1>4, <2>1, <3>1, Divide
  <2> HIDE DEF n
  <2>4. QED BY <1>0, <2>1, <2>2, <2>3, Multiply
<1> HIDE DEF n
<1>8. buddy_total_pages' = n
  BY <1>2 DEF n
<1>9. va(at) + n * PAGE_SIZE <= va(RAM_BASE) + RAM_LIMIT
  <2>1. va(RAM_BASE) + RAM_LIMIT \in Int
    BY <1>0 DEF va
  <2>2. QED BY <1>4, <1>6, <1>7, <2>1
<1>10. QED
  BY <1>2, <1>5, <1>6, <1>7, <1>8, <1>9

\* What it adds to the list holds the kernel, the firmware in front of it, the
\* tree and the ramdisk, and there is room for all of it.
LEMMA KnownAreAdded ==
    ASSUME Supported, MachineIsKnown, buddy_init, reserved_regions \in Seq(Regions),
           Len(reserved_regions) = Cardinality(FrameBuffers), buddy_base_addr' \in Nat
    PROVE  /\ reserved_regions' \in Seq(Regions)
           /\ Len(reserved_regions') + 2 <= MAX_RESERVED_REGIONS
           /\ KnownAreReserved'
<1> DEFINE base == buddy_base_addr'
           image == [start |-> IMAGE_START, size |-> IMAGE_END - IMAGE_START]
           before == [start |-> base, size |-> IMAGE_START - base]
           firmware == IF IMAGE_START > base THEN <<before>> ELSE <<>>
           dtb == [start |-> dtb_addr, size |-> machine.size]
           disk == [start |-> cpio_addr, size |-> INITRD_RESERVE]
           initrd == IF cpio_addr # NULL THEN <<disk>> ELSE <<>>
           nodes == dtb_reserved_regions(machine.tree)
           a == <<image>> \o firmware
           b == a \o <<dtb>>
           c == b \o initrd
           more == c \o nodes
<1>1. reserved_regions' = memory_reserve(reserved_regions, more)
  BY DEF buddy_init
<1>2. Suits(machine)
  BY DEF Supported, MachineIsKnown
<1>3. machine.at \in Nat /\ machine.size \in Nat /\ nodes \in Seq(Chunk)
      /\ Cardinality(FrameBuffers) + Len(nodes) + 6 <= MAX_RESERVED_REGIONS
  BY <1>2 DEF Suits
<1>4. dtb_addr \in Nat /\ cpio_addr \in Nat
  <2>1. dtb_addr = machine.at + PAGE_OFFSET
    BY DEF MachineIsKnown, va
  <2>2. dtb_load_initrd_addr(machine.tree) \in Nat
    BY <1>2 DEF Suits
  <2>3. cpio_addr \in Nat
    BY <2>2, StartupAssumption DEF MachineIsKnown, InitrdAt, NULL, va
  <2>4. machine.at \in Nat /\ PAGE_OFFSET \in Nat
    BY <1>3, StartupAssumption
  <2>5. dtb_addr \in Nat
    BY <2>1, <2>4
  <2>6. QED BY <2>3, <2>5
<1>5. image \in Chunk /\ (IMAGE_START > base => before \in Chunk) /\ dtb \in Chunk /\ disk \in Chunk
  <2>1. IMAGE_START \in Nat /\ IMAGE_END \in Nat /\ IMAGE_START < IMAGE_END /\ INITRD_RESERVE \in Nat
    BY StartupAssumption
  <2> HIDE DEF base
  <2>2. base \in Nat
    BY DEF base
  <2>3. IMAGE_END - IMAGE_START \in Nat /\ (IMAGE_START > base => IMAGE_START - base \in Nat)
    BY <2>1, <2>2
  <2>4. QED BY <1>3, <1>4, <2>1, <2>2, <2>3 DEF Chunk
<1> DEFINE one == <<image>>
           two == <<dtb>>
<1>6. one \in Seq(Chunk) /\ two \in Seq(Chunk) /\ Len(one) = 1 /\ Len(two) = 1
      /\ Holds(one, image) /\ Holds(two, dtb)
  <2> HIDE DEF image, dtb
  <2>1. QED BY <1>5, OneHolds
<1>7. firmware \in Seq(Chunk) /\ Len(firmware) <= 1 /\ Len(firmware) \in Nat
      /\ (IMAGE_START > base => Holds(firmware, before))
  <2> HIDE DEF before, base
  <2>1. QED BY <1>5, OneHolds
<1>8. initrd \in Seq(Chunk) /\ Len(initrd) <= 1 /\ Len(initrd) \in Nat
      /\ (cpio_addr # NULL => Holds(initrd, disk))
  <2> HIDE DEF disk
  <2>1. QED BY <1>5, OneHolds
<1>9. a = one \o firmware /\ b = a \o two
  OBVIOUS
<1> HIDE DEF base, image, before, firmware, dtb, disk, initrd, nodes, one, two, a, b, c, more
<1>10. a \in Seq(Chunk) /\ Len(a) = 1 + Len(firmware) /\ Holds(a, image)
       /\ (IMAGE_START > base => Holds(a, before))
  BY <1>6, <1>7, <1>9, JoinedHolds
<1>11. b \in Seq(Chunk) /\ Len(b) = 1 + Len(firmware) + 1 /\ Holds(b, image)
       /\ (IMAGE_START > base => Holds(b, before)) /\ Holds(b, dtb)
  <2>1. b \in Seq(Chunk) /\ Len(b) = Len(a) + Len(two)
        /\ \A e : Holds(a, e) \/ Holds(two, e) => Holds(b, e)
    BY <1>6, <1>9, <1>10, JoinedHolds
  <2>2. QED BY <1>6, <1>10, <2>1
<1>12. c \in Seq(Chunk) /\ Len(c) = 1 + Len(firmware) + 1 + Len(initrd) /\ Holds(c, image)
       /\ (IMAGE_START > base => Holds(c, before)) /\ Holds(c, dtb)
       /\ (cpio_addr # NULL => Holds(c, disk))
  BY <1>8, <1>11, JoinedHolds DEF c
<1>13. more \in Seq(Chunk) /\ Len(more) = 1 + Len(firmware) + 1 + Len(initrd) + Len(nodes)
       /\ Holds(more, image)
       /\ (IMAGE_START > base => Holds(more, before)) /\ Holds(more, dtb)
       /\ (cpio_addr # NULL => Holds(more, disk))
  <2>1. more \in Seq(Chunk) /\ Len(more) = Len(c) + Len(nodes)
        /\ \A e : Holds(c, e) \/ Holds(nodes, e) => Holds(more, e)
    BY <1>3, <1>12, JoinedHolds DEF more
  <2>2. QED BY <1>12, <2>1
<1>14. Len(nodes) \in Nat /\ Len(reserved_regions) \in Nat /\ MAX_RESERVED_REGIONS \in Nat
  BY <1>3, LenProperties, StartupAssumption
<1>15. Len(reserved_regions) + Len(more) + 2 <= MAX_RESERVED_REGIONS /\ Len(more) \in Nat
  BY <1>3, <1>7, <1>8, <1>13, <1>14
<1>16. Len(reserved_regions) + Len(more) <= MAX_RESERVED_REGIONS
  BY <1>14, <1>15
<1> DEFINE r == reserved_regions'
<1>17. /\ r \in Seq(Regions) /\ Len(r) = Len(reserved_regions) + Len(more)
       /\ \A i \in 1..Len(more) : r[Len(reserved_regions) + i] =
            [start |-> more[i].start, end |-> more[i].start + more[i].size]
  BY <1>1, <1>13, <1>16, AllAreAdded
<1>18. ASSUME NEW e, Holds(more, e)
       PROVE  \E i \in DOMAIN r : r[i].start = e.start /\ r[i].end = e.start + e.size
  <2>1. PICK i \in 1..Len(more) : more[i] = e
    BY <1>18 DEF Holds
  <2>2. DOMAIN r = 1..Len(reserved_regions) + Len(more)
    BY <1>17, LenProperties
  <2>3. Len(reserved_regions) + i \in DOMAIN r
    BY <1>14, <1>15, <2>2
  <2>4. r[Len(reserved_regions) + i] = [start |-> e.start, end |-> e.start + e.size]
    BY <1>17, <2>1
  <2>5. QED BY <2>3, <2>4
<1>19. UNCHANGED <<dtb_addr, machine, cpio_addr>>
  BY DEF buddy_init, found
<1> HIDE DEF r
<1>20. /\ (\E i \in DOMAIN r : r[i].start <= IMAGE_START /\ IMAGE_END <= r[i].end)
       /\ IMAGE_START > base => \E i \in DOMAIN r : r[i].start <= base /\ IMAGE_START <= r[i].end
       /\ (\E i \in DOMAIN r : r[i].start <= dtb_addr /\ dtb_addr + machine.size <= r[i].end)
       /\ cpio_addr # NULL =>
            \E i \in DOMAIN r : r[i].start <= cpio_addr /\ cpio_addr + INITRD_RESERVE <= r[i].end
  <2>1. IMAGE_START \in Nat /\ IMAGE_END \in Nat /\ INITRD_RESERVE \in Nat /\ base \in Nat
    BY StartupAssumption DEF base
  <2>2. \E i \in DOMAIN r : r[i].start <= IMAGE_START /\ IMAGE_END <= r[i].end
    <3>1. PICK i \in DOMAIN r : r[i].start = image.start /\ r[i].end = image.start + image.size
      BY <1>13, <1>18
    <3>2. image.start = IMAGE_START /\ image.size = IMAGE_END - IMAGE_START
      BY DEF image
    <3>3. r[i].start <= IMAGE_START /\ IMAGE_END <= r[i].end
      BY <2>1, <3>1, <3>2
    <3>4. QED BY <3>3
  <2>3. ASSUME IMAGE_START > base
        PROVE  \E i \in DOMAIN r : r[i].start <= base /\ IMAGE_START <= r[i].end
    <3>1. PICK i \in DOMAIN r : r[i].start = before.start /\ r[i].end = before.start + before.size
      BY <1>13, <1>18, <2>3
    <3>2. before.start = base /\ before.size = IMAGE_START - base
      BY DEF before
    <3>3. r[i].start <= base /\ IMAGE_START <= r[i].end
      BY <2>1, <3>1, <3>2
    <3>4. QED BY <3>3
  <2>4. \E i \in DOMAIN r : r[i].start <= dtb_addr /\ dtb_addr + machine.size <= r[i].end
    <3>1. PICK i \in DOMAIN r : r[i].start = dtb.start /\ r[i].end = dtb.start + dtb.size
      BY <1>13, <1>18
    <3>2. dtb.start = dtb_addr /\ dtb.size = machine.size
      BY DEF dtb
    <3>3. r[i].start <= dtb_addr /\ dtb_addr + machine.size <= r[i].end
      BY <1>3, <1>4, <3>1, <3>2
    <3>4. QED BY <3>3
  <2>5. ASSUME cpio_addr # NULL
        PROVE  \E i \in DOMAIN r : r[i].start <= cpio_addr /\ cpio_addr + INITRD_RESERVE <= r[i].end
    <3>1. PICK i \in DOMAIN r : r[i].start = disk.start /\ r[i].end = disk.start + disk.size
      BY <1>13, <1>18, <2>5
    <3>2. disk.start = cpio_addr /\ disk.size = INITRD_RESERVE
      BY DEF disk
    <3>3. r[i].start <= cpio_addr /\ cpio_addr + INITRD_RESERVE <= r[i].end
      BY <1>4, <2>1, <3>1, <3>2
    <3>4. QED BY <3>3
  <2>6. QED BY <2>2, <2>3, <2>4, <2>5
<1>21. KnownAreReserved'
  BY <1>19, <1>20 DEF KnownAreReserved, Reserves, r, base, NULL
<1>22. QED
  BY <1>14, <1>15, <1>17, <1>21 DEF r

\* buddy_init makes a pool and keeps it clear of what the kernel knows of.
LEMMA PoolIsMade ==
    ASSUME Supported, StartInv, buddy_init
    PROVE  StartInv'
<1>1. /\ stage = "pool" /\ stage' = "frame_array"
      /\ UNCHANGED <<mapped, machine, dtb_addr, cpio_addr>>
  BY DEF buddy_init, found
<1>2. /\ Window \subseteq mapped /\ MachineIsKnown /\ reserved_regions \in Seq(Regions)
      /\ Len(reserved_regions) = Cardinality(FrameBuffers)
  BY <1>1 DEF StartInv, Looked
<1>3. Window' = Window
  BY DEF Window, va, Pages, Page
<1>4. MachineIsKnown'
  BY <1>1, <1>2 DEF MachineIsKnown, InitrdAt, va
<1>5. /\ PoolIsSound' /\ KnownAreReserved' /\ reserved_regions' \in Seq(Regions)
      /\ Len(reserved_regions') + 2 <= MAX_RESERVED_REGIONS
  <2>1. PoolIsSound'
    BY <1>2, PoolOfMemory DEF PoolIsSound, va
  <2>2. buddy_base_addr' \in Nat
    BY <1>2, PoolOfMemory
  <2>3. QED BY <1>2, <2>1, <2>2, KnownAreAdded
<1>6. QED
  BY <1>1, <1>2, <1>3, <1>4, <1>5 DEF StartInv, Looked

\* A page of the pool or behind its start that is in use is in a region.
LEMMA InUseIsReserved ==
    ASSUME Supported, MachineIsKnown, PoolIsSound, KnownAreReserved,
           NEW x \in InUse, buddy_base_addr <= x * PAGE_SIZE
    PROVE  \E a, s \in Int : Reserves(a, a + s) /\ x \in Pages(a, s)
<1>0. /\ PAGE_SIZE \in Nat \ {0} /\ IMAGE_START \in Nat /\ IMAGE_END \in Nat
      /\ INITRD_RESERVE \in Nat /\ PAGE_OFFSET \in Nat /\ RAM_BASE \in Nat
  BY StartupAssumption
<1>1. Suits(machine)
  BY DEF Supported, MachineIsKnown
<1>2. /\ dtb_addr \in Nat /\ machine.size \in Nat /\ cpio_addr \in Nat
      /\ ArchiveSize(machine.archive) \in Nat /\ ArchiveSize(machine.archive) <= INITRD_RESERVE
  <2>1. machine.at \in Nat /\ machine.size \in Nat
        /\ ArchiveSize(machine.archive) \in Nat /\ ArchiveSize(machine.archive) <= INITRD_RESERVE
    BY <1>0, <1>1 DEF Suits
  <2>2. dtb_addr = machine.at + PAGE_OFFSET
    BY DEF MachineIsKnown, va
  <2>3. dtb_load_initrd_addr(machine.tree) \in Nat
    BY <1>1 DEF Suits
  <2>4. cpio_addr \in Nat
    BY <1>0, <2>3 DEF MachineIsKnown, InitrdAt, NULL, va
  <2>5. QED BY <1>0, <2>1, <2>2, <2>4
<1>3. CASE x \in Pages(IMAGE_START, IMAGE_END - IMAGE_START)
  <2> DEFINE s == IMAGE_END - IMAGE_START
  <2>1. IMAGE_START \in Int /\ s \in Int /\ IMAGE_START + s = IMAGE_END
    BY <1>0
  <2>2. Reserves(IMAGE_START, IMAGE_START + s)
    BY <2>1 DEF KnownAreReserved
  <2>3. QED BY <1>3, <2>1, <2>2
<1>4. CASE x \in Pages(va(RAM_BASE), IMAGE_START - va(RAM_BASE))
  <2> DEFINE a == va(RAM_BASE)
             s == IMAGE_START - a
             p == x * PAGE_SIZE
             t == IMAGE_START - buddy_base_addr
  <2>1. a \in Int /\ s \in Int /\ buddy_base_addr \in Nat
    BY <1>0 DEF va, PoolIsSound
  <2>2. x \in Int /\ p <= a + s - 1
    BY <1>4, <2>1, PageFacts
  <2>3. p \in Int /\ p <= IMAGE_START - 1 /\ buddy_base_addr <= p
    <3>1. p \in Int
      BY <1>0, <2>2, Multiply
    <3> HIDE DEF p, a
    <3>2. a + s - 1 = IMAGE_START - 1
      BY <1>0, <2>1
    <3>3. QED BY <2>2, <3>1, <3>2 DEF p
  <2> HIDE DEF p, a, s
  <2>4. IMAGE_START > buddy_base_addr /\ t \in Int /\ buddy_base_addr + t = IMAGE_START
    BY <1>0, <2>1, <2>3
  <2>5. Reserves(buddy_base_addr, buddy_base_addr + t)
    BY <2>4 DEF KnownAreReserved
  <2>6. buddy_base_addr < p + PAGE_SIZE /\ p <= buddy_base_addr + t - 1
    BY <1>0, <2>1, <2>3, <2>4
  <2> HIDE DEF t
  <2>7. x \in Pages(buddy_base_addr, t)
    BY <2>1, <2>2, <2>4, <2>6, PageFacts DEF p
  <2>8. QED BY <2>1, <2>4, <2>5, <2>7
<1>5. CASE x \in Pages(dtb_addr, machine.size)
  BY <1>2, <1>5 DEF KnownAreReserved
<1>6. CASE cpio_addr # NULL /\ x \in Pages(cpio_addr, ArchiveSize(machine.archive))
  <2> DEFINE s == ArchiveSize(machine.archive)
             p == x * PAGE_SIZE
  <2>1. cpio_addr \in Int /\ s \in Int /\ s <= INITRD_RESERVE
    BY <1>2
  <2>2. Reserves(cpio_addr, cpio_addr + INITRD_RESERVE)
    BY <1>6 DEF KnownAreReserved
  <2> HIDE DEF s
  <2>3. x \in Int /\ cpio_addr < p + PAGE_SIZE /\ p <= cpio_addr + s - 1
    BY <1>6, <2>1, PageFacts DEF s
  <2>4. p \in Int
    BY <1>0, <2>3, Multiply
  <2>5. p <= cpio_addr + INITRD_RESERVE - 1
    <3> HIDE DEF p
    <3>1. QED BY <1>0, <2>1, <2>3, <2>4
  <2>6. x \in Pages(cpio_addr, INITRD_RESERVE) /\ INITRD_RESERVE \in Int
    <3>1. INITRD_RESERVE \in Int
      BY <1>0
    <3>2. x \in Int /\ cpio_addr < x * PAGE_SIZE + PAGE_SIZE
          /\ x * PAGE_SIZE <= cpio_addr + INITRD_RESERVE - 1
      BY <2>3, <2>5
    <3>3. QED BY <2>1, <3>1, <3>2, PageFacts
  <2>7. QED BY <2>1, <2>2, <2>6
<1>7. QED
  BY <1>3, <1>4, <1>5, <1>6 DEF InUse

\* The pages of the pool are pages of the window.
LEMMA PoolIsInWindow ==
    ASSUME PoolIsSound, NEW j \in Int, buddy_base_addr = j * PAGE_SIZE,
           NEW x \in Int, j <= x, x < j + buddy_total_pages
    PROVE  x \in Window /\ buddy_base_addr <= x * PAGE_SIZE
<1>0. PAGE_SIZE \in Nat \ {0} /\ RAM_LIMIT \in Nat /\ RAM_BASE \in Nat /\ PAGE_OFFSET \in Nat
  BY StartupAssumption
<1> DEFINE a == va(RAM_BASE)
           p == x * PAGE_SIZE
           q == buddy_total_pages * PAGE_SIZE
           n == buddy_total_pages
<1>1. a \in Int /\ n \in Nat /\ buddy_base_addr \in Nat /\ a <= buddy_base_addr
      /\ buddy_base_addr + q <= a + RAM_LIMIT
  BY <1>0 DEF PoolIsSound, va
<1>2. p \in Int /\ q \in Int /\ (x + 1) * PAGE_SIZE = p + PAGE_SIZE
      /\ (j + n) * PAGE_SIZE = j * PAGE_SIZE + q
  BY <1>0, <1>1, Multiply
<1>3. j * PAGE_SIZE <= p
  BY <1>0, Multiply
<1>4. (x + 1) * PAGE_SIZE <= (j + n) * PAGE_SIZE
  <2>1. x + 1 <= j + n /\ x + 1 \in Int /\ j + n \in Int
    BY <1>1
  <2>2. QED BY <1>0, <2>1, Multiply
<1> HIDE DEF a, p, q
<1>5. a < p + PAGE_SIZE /\ p <= a + RAM_LIMIT - 1 /\ buddy_base_addr <= p
  BY <1>0, <1>1, <1>2, <1>3, <1>4
<1>6. x \in Pages(a, RAM_LIMIT)
  <2>1. RAM_LIMIT \in Int
    BY <1>0
  <2>2. a < x * PAGE_SIZE + PAGE_SIZE /\ x * PAGE_SIZE <= a + RAM_LIMIT - 1
    BY <1>5 DEF p
  <2>3. QED BY <1>1, <2>1, <2>2, PageFacts
<1>7. QED
  BY <1>5, <1>6 DEF Window, a, p

\* So are those of what lies in the pool.
LEMMA ArrayIsInWindow ==
    ASSUME PoolIsSound, NEW size \in Nat, NEW k \in Nat, k + PagesNeeded(size) <= buddy_total_pages,
           NEW x \in Pages(buddy_base_addr + k * PAGE_SIZE, size)
    PROVE  x \in Window /\ buddy_base_addr <= x * PAGE_SIZE
<1>0. PAGE_SIZE \in Nat \ {0}
  BY StartupAssumption
<1>1. PICK j \in Int : buddy_base_addr = j * PAGE_SIZE
  BY DEF PoolIsSound
<1> DEFINE need == PagesNeeded(size)
           a == buddy_base_addr + k * PAGE_SIZE
           p == x * PAGE_SIZE
           q == need * PAGE_SIZE
<1>2. need \in Nat /\ size <= q /\ q \in Int /\ buddy_total_pages \in Nat /\ buddy_base_addr \in Nat
  BY <1>0, Enough, Multiply DEF PoolIsSound
<1> HIDE DEF need
<1>3. a = (j + k) * PAGE_SIZE /\ a \in Int /\ j + k \in Int
  BY <1>0, <1>1, Multiply
<1> HIDE DEF a
<1>4. x \in Int /\ a < p + PAGE_SIZE /\ p <= a + size - 1
  BY <1>3, PageFacts DEF a
<1>5. p \in Int /\ (x + 1) * PAGE_SIZE = p + PAGE_SIZE
      /\ (j + k + need) * PAGE_SIZE = (j + k) * PAGE_SIZE + q
  BY <1>0, <1>2, <1>3, <1>4, Multiply
<1>6. j + k <= x
  <2>1. (j + k) * PAGE_SIZE < (x + 1) * PAGE_SIZE
    BY <1>3, <1>4, <1>5
  <2>2. j + k < x + 1
    BY <1>0, <1>3, <1>4, <2>1, Multiply
  <2>3. QED BY <1>3, <1>4, <2>2
<1>7. x < j + k + need
  <2>1. p < a + q
    <3> HIDE DEF p, q
    <3>1. QED BY <1>2, <1>3, <1>4, <1>5
  <2>2. x * PAGE_SIZE < (j + k + need) * PAGE_SIZE
    BY <1>3, <1>5, <2>1
  <2>3. j + k + need \in Int
    BY <1>2, <1>3
  <2>4. QED BY <1>0, <1>4, <2>2, <2>3, Multiply
<1>8. j <= x /\ x < j + buddy_total_pages
  <2>1. k + need <= buddy_total_pages
    BY DEF need
  <2>2. QED BY <1>2, <1>4, <1>6, <1>7, <2>1
<1>9. QED
  BY <1>1, <1>4, <1>8, PoolIsInWindow

\* What startup_alloc finds for an array is in the pool, apart from what is in
\* use and from all that is reserved, and reserved from then on.
LEMMA ArrayIsPlaced ==
    ASSUME Supported, MachineIsKnown, PoolIsSound, KnownAreReserved,
           reserved_regions \in Seq(Regions), Len(reserved_regions) + 1 <= MAX_RESERVED_REGIONS,
           NEW a, a = FirstFit(ArraySize), a # NULL
    PROVE  LET bytes == PagesNeeded(ArraySize) * PAGE_SIZE
               r == AndReserve(a, ArraySize)
           IN  /\ \E k \in Nat : /\ a = buddy_base_addr + k * PAGE_SIZE
                                 /\ k + PagesNeeded(ArraySize) <= buddy_total_pages
               /\ Pages(a, ArraySize) \cap InUse = {}
               /\ \A b, s \in Int : Reserves(b, b + s) =>
                    Pages(b, s) \cap Pages(a, ArraySize) = {}
               /\ r \in Seq(Regions) /\ Len(r) = Len(reserved_regions) + 1
               /\ \A i \in DOMAIN reserved_regions : i \in DOMAIN r /\ r[i] = reserved_regions[i]
               /\ \E i \in DOMAIN r : r[i].start = a /\ r[i].end = a + bytes
<1> DEFINE size == ArraySize
           need == PagesNeeded(size)
           bytes == need * PAGE_SIZE
<1>0. PAGE_SIZE \in Nat \ {0} /\ INT_SIZE \in Nat
  BY StartupAssumption
<1>1. buddy_base_addr \in Nat /\ buddy_total_pages \in Nat
  BY DEF PoolIsSound
<1>2. size \in Nat
  BY <1>0, <1>1 DEF ArraySize
<1> HIDE DEF size
<1>3. need \in Nat /\ size <= bytes
  BY <1>2, Enough
<1>4. a = FirstFit(size)
  BY DEF size
<1>5. PICK k \in Nat : /\ a = buddy_base_addr + k * PAGE_SIZE
                       /\ k + need <= buddy_total_pages
                       /\ ClashAt(k, need) = {}
  BY <1>1, <1>2, <1>3, <1>4, FirstFitIsFree
<1>6. PICK j \in Int : buddy_base_addr = j * PAGE_SIZE
  BY DEF PoolIsSound
<1> HIDE DEF need
<1>7. a \in Nat /\ a = (j + k) * PAGE_SIZE /\ j + k \in Int /\ bytes \in Nat
  <2>1. (j + k) * PAGE_SIZE = j * PAGE_SIZE + k * PAGE_SIZE /\ k * PAGE_SIZE \in Int
    BY <1>0, <1>6, Multiply
  <2>2. 0 * PAGE_SIZE <= k * PAGE_SIZE /\ 0 * PAGE_SIZE <= bytes /\ 0 * PAGE_SIZE = 0 /\ bytes \in Int
    BY <1>0, <1>3, Multiply
  <2>3. QED BY <1>1, <1>5, <1>6, <2>1, <2>2
<1>8. \A b, s \in Int : Reserves(b, b + s) => Pages(b, s) \cap Pages(a, size) = {}
  <2>1. buddy_base_addr + k * PAGE_SIZE = (j + k) * PAGE_SIZE
    BY <1>5, <1>7
  <2>2. SUFFICES ASSUME NEW b \in Int, NEW s \in Int, Reserves(b, b + s)
                 PROVE  Pages(b, s) \cap Pages(a, size) = {}
    OBVIOUS
  <2>3. QED BY <1>1, <1>2, <1>3, <1>5, <1>7, <2>1, <2>2, ClearOfReserved
<1>9. Pages(a, size) \cap InUse = {}
  <2> SUFFICES ASSUME NEW x \in Pages(a, size), x \in InUse PROVE FALSE
    OBVIOUS
  <2>1. buddy_base_addr <= x * PAGE_SIZE
    BY <1>2, <1>5, ArrayIsInWindow DEF need
  <2>2. \E b, s \in Int : Reserves(b, b + s) /\ x \in Pages(b, s)
    BY <2>1, InUseIsReserved
  <2>3. QED BY <1>8, <2>2
<1> DEFINE r == AndReserve(a, size)
<1>10. r = memory_reserve(reserved_regions, <<[start |-> a, size |-> bytes]>>)
  BY DEF AndReserve, need
<1> HIDE DEF r, bytes
<1>11. /\ r \in Seq(Regions) /\ Len(r) = Len(reserved_regions) + 1
       /\ \A i \in DOMAIN reserved_regions : i \in DOMAIN r /\ r[i] = reserved_regions[i]
       /\ \E i \in DOMAIN r : r[i].start = a /\ r[i].end = a + bytes
  <2>1. a \in Nat /\ bytes \in Nat
    BY <1>7
  <2> DEFINE q == memory_reserve(reserved_regions, <<[start |-> a, size |-> bytes]>>)
  <2>2. /\ q \in Seq(Regions) /\ Len(q) = Len(reserved_regions) + 1
        /\ \A i \in DOMAIN reserved_regions : i \in DOMAIN q /\ q[i] = reserved_regions[i]
        /\ \E i \in DOMAIN q : q[i].start = a /\ q[i].end = a + bytes
    BY <2>1, OneIsAdded
  <2>3. QED BY <1>10, <2>2
<1>12. QED
  BY <1>5, <1>8, <1>9, <1>11 DEF r, bytes, need, size

\* What is reserved stays reserved when the list grows.
LEMMA ReservedStays ==
    ASSUME UNCHANGED <<pool, found>>,
           \A i \in DOMAIN reserved_regions :
             i \in DOMAIN reserved_regions' /\ reserved_regions'[i] = reserved_regions[i]
    PROVE  /\ \A a, b : Reserves(a, b) => Reserves(a, b)'
           /\ PoolIsSound => PoolIsSound'
           /\ MachineIsKnown => MachineIsKnown'
           /\ KnownAreReserved => KnownAreReserved'
           /\ \A a : IsPlaced(a) => IsPlaced(a)'
           /\ InUse' = InUse /\ ArraySize' = ArraySize /\ Window' = Window
<1>1. UNCHANGED <<buddy_base_addr, buddy_total_pages, machine, dtb_addr, cpio_addr>>
  BY DEF pool, found
<1>2. ASSUME NEW a, NEW b, Reserves(a, b) PROVE Reserves(a, b)'
  BY <1>2 DEF Reserves
<1>3. PoolIsSound => PoolIsSound'
  BY <1>1 DEF PoolIsSound, va
<1>4. MachineIsKnown => MachineIsKnown'
  BY <1>1 DEF MachineIsKnown, InitrdAt, va
<1>5. KnownAreReserved => KnownAreReserved'
  BY <1>1, <1>2 DEF KnownAreReserved
<1>6. InUse' = InUse /\ ArraySize' = ArraySize /\ Window' = Window
  BY <1>1 DEF InUse, ArraySize, Window, va
<1>7. ASSUME NEW a, IsPlaced(a) PROVE IsPlaced(a)'
  BY <1>1, <1>2, <1>6, <1>7 DEF IsPlaced
<1>8. QED
  BY <1>2, <1>3, <1>4, <1>5, <1>6, <1>7

\* startup_alloc puts each of the two arrays where nothing is.
LEMMA ArraysArePlaced ==
    ASSUME Supported, StartInv, alloc_frame_array \/ alloc_ref_count
    PROVE  StartInv'
<1>0. PICK a : a = FirstFit(ArraySize)
  OBVIOUS
<1>11. PICK bytes : bytes = PagesNeeded(ArraySize) * PAGE_SIZE
  OBVIOUS
<1>1. /\ stage \in {"frame_array", "ref_count"} /\ UNCHANGED <<mapped, found, pool>>
      /\ reserved_regions' = AndReserve(a, ArraySize)
      /\ stage' \in {"failed", "ref_count", "ready"}
      /\ (stage' = "failed" <=> a = NULL)
  BY <1>0 DEF alloc_frame_array, alloc_ref_count
<1>2. /\ Window \subseteq mapped /\ MachineIsKnown /\ PoolIsSound /\ KnownAreReserved
      /\ reserved_regions \in Seq(Regions) /\ Len(reserved_regions) + 1 <= MAX_RESERVED_REGIONS
  <2>1. /\ Window \subseteq mapped /\ MachineIsKnown /\ PoolIsSound /\ KnownAreReserved
        /\ reserved_regions \in Seq(Regions)
    BY <1>1 DEF StartInv, Looked
  <2>2. Len(reserved_regions) \in Nat /\ MAX_RESERVED_REGIONS \in Nat
    BY <2>1, LenProperties, StartupAssumption
  <2>3. Len(reserved_regions) + 2 <= MAX_RESERVED_REGIONS
        \/ Len(reserved_regions) + 1 <= MAX_RESERVED_REGIONS
    BY <1>1 DEF StartInv, Looked
  <2>4. QED BY <2>1, <2>2, <2>3
<1>12. MachineIsKnown'
  BY <1>1, <1>2 DEF MachineIsKnown, InitrdAt, va, found
<1> SUFFICES ASSUME a # NULL PROVE StartInv'
  BY <1>1, <1>12 DEF StartInv, Looked
<1> DEFINE r == AndReserve(a, ArraySize)
<1>3. /\ \E k \in Nat : /\ a = buddy_base_addr + k * PAGE_SIZE
                        /\ k + PagesNeeded(ArraySize) <= buddy_total_pages
      /\ Pages(a, ArraySize) \cap InUse = {}
      /\ \A b, s \in Int : Reserves(b, b + s) => Pages(b, s) \cap Pages(a, ArraySize) = {}
      /\ r \in Seq(Regions) /\ Len(r) = Len(reserved_regions) + 1
      /\ \A i \in DOMAIN reserved_regions : i \in DOMAIN r /\ r[i] = reserved_regions[i]
      /\ \E i \in DOMAIN r : r[i].start = a /\ r[i].end = a + bytes
  BY <1>0, <1>2, <1>11, ArrayIsPlaced
<1> HIDE DEF r
<1>4. reserved_regions' = r
  BY <1>1 DEF r
<1>5. /\ PoolIsSound' /\ MachineIsKnown' /\ KnownAreReserved' /\ Window' = Window
      /\ InUse' = InUse /\ ArraySize' = ArraySize
      /\ \A b : IsPlaced(b) => IsPlaced(b)'
  BY <1>1, <1>2, <1>3, <1>4, ReservedStays
<1>6. IsPlaced(a)'
  <2>1. UNCHANGED <<buddy_base_addr, buddy_total_pages>>
    BY <1>1 DEF pool
  <2>2. (Reserves(a, a + bytes))'
    <3>1. a \in Nat /\ bytes \in Nat
      <4>1. buddy_base_addr \in Nat /\ PAGE_SIZE \in Nat /\ buddy_total_pages \in Nat /\ INT_SIZE \in Nat
        BY <1>2, StartupAssumption DEF PoolIsSound
      <4>2. ArraySize \in Nat
        BY <4>1 DEF ArraySize
      <4>3. PagesNeeded(ArraySize) \in Nat
        BY <4>2, Enough
      <4>4. \A x, y \in Nat : x * y \in Nat
        OBVIOUS
      <4>5. PICK k \in Nat : a = buddy_base_addr + k * PAGE_SIZE
        BY <1>3
      <4>6. k * PAGE_SIZE \in Nat /\ bytes \in Nat
        BY <1>11, <4>1, <4>3, <4>4
      <4>7. QED BY <4>1, <4>5, <4>6
    <3>2. PICK i \in DOMAIN r : r[i].start = a /\ r[i].end = a + bytes
      BY <1>3
    <3>3. QED BY <1>4, <3>1, <3>2 DEF Reserves
  <2>4. (PagesNeeded(ArraySize) * PAGE_SIZE)' = bytes
    BY <1>5, <1>11 DEF PagesNeeded
  <2>3. QED BY <1>3, <1>5, <2>1, <2>2, <2>4 DEF IsPlaced
<1>7. reserved_regions' \in Seq(Regions) /\ Len(reserved_regions') = Len(reserved_regions) + 1
  BY <1>3, <1>4
<1>8. CASE alloc_frame_array
  <2>1. stage = "frame_array" /\ stage' = "ref_count" /\ frame_array' = a
    BY <1>0, <1>1, <1>8 DEF alloc_frame_array
  <2>2. Len(reserved_regions') + 1 <= MAX_RESERVED_REGIONS
    <3>1. Len(reserved_regions) + 2 <= MAX_RESERVED_REGIONS /\ Len(reserved_regions) \in Nat
      BY <1>2, <2>1, LenProperties DEF StartInv, Looked
    <3>2. QED BY <1>7, <3>1, StartupAssumption
  <2>3. IsPlaced(frame_array)'
    BY <1>6, <2>1 DEF IsPlaced, Reserves
  <2>4. QED BY <1>1, <1>2, <1>5, <1>7, <2>1, <2>2, <2>3 DEF StartInv, Looked
<1>9. CASE alloc_ref_count
  <2>1. stage = "ref_count" /\ stage' = "ready" /\ ref_count' = a /\ frame_array' = frame_array
    BY <1>0, <1>1, <1>9 DEF alloc_ref_count
  <2>2. IsPlaced(frame_array)
    BY <2>1 DEF StartInv, Looked
  <2>3. IsPlaced(frame_array)' /\ IsPlaced(ref_count)'
    BY <1>5, <1>6, <2>1, <2>2 DEF IsPlaced, Reserves
  <2>4. Pages(frame_array, ArraySize) \cap Pages(a, ArraySize) = {}
    <3> DEFINE n == PagesNeeded(ArraySize) * PAGE_SIZE
    <3>1. /\ PAGE_SIZE \in Nat \ {0} /\ ArraySize \in Nat /\ ArraySize <= n /\ n \in Int
          /\ frame_array \in Int
      <4>1. buddy_base_addr \in Nat /\ PAGE_SIZE \in Nat \ {0} /\ buddy_total_pages \in Nat /\ INT_SIZE \in Nat
        BY <1>2, StartupAssumption DEF PoolIsSound
      <4>2. ArraySize \in Nat
        BY <4>1 DEF ArraySize
      <4>3. PagesNeeded(ArraySize) \in Nat /\ ArraySize <= n
        BY <4>2, Enough
      <4>4. \A x, y \in Nat : x * y \in Nat
        OBVIOUS
      <4>5. PICK k \in Nat : frame_array = buddy_base_addr + k * PAGE_SIZE
        BY <2>2 DEF IsPlaced
      <4>6. QED BY <4>1, <4>2, <4>3, <4>4, <4>5
    <3>2. Reserves(frame_array, frame_array + n)
      BY <2>2 DEF IsPlaced
    <3> HIDE DEF n
    <3>3. Pages(frame_array, n) \cap Pages(a, ArraySize) = {}
      BY <1>3, <3>1, <3>2
    <3>4. Pages(frame_array, ArraySize) \subseteq Pages(frame_array, n)
      <4> DEFINE m == ArraySize
      <4> HIDE DEF m
      <4>1. m \in Int /\ m <= n /\ n \in Int /\ frame_array \in Int
        BY <3>1 DEF m
      <4>2. ASSUME NEW x \in Pages(frame_array, m) PROVE x \in Pages(frame_array, n)
        <5> DEFINE p == x * PAGE_SIZE
        <5>1. x \in Int /\ frame_array < p + PAGE_SIZE /\ p <= frame_array + m - 1
          BY <4>1, PageFacts
        <5>2. p \in Int
          BY <3>1, <5>1, Multiply
        <5>3. p <= frame_array + n - 1
          <6> HIDE DEF p
          <6>1. QED BY <4>1, <5>1, <5>2
        <5>4. QED BY <4>1, <5>1, <5>3, PageFacts
      <4>3. QED BY <4>2 DEF m
    <3>5. QED BY <3>3, <3>4
  <2>5. (Pages(frame_array, ArraySize) \cap Pages(ref_count, ArraySize) = {})'
    BY <1>5, <2>1, <2>4 DEF Pages, Page
  <2>6. QED BY <1>1, <1>2, <1>5, <1>7, <2>1, <2>3, <2>5 DEF StartInv, Looked
<1>10. QED
  BY <1>8, <1>9

\* Every step keeps this, the loader's and the user's included.
LEMMA StartInvKept ==
    ASSUME Supported, StartInv, [Next]_vars
    PROVE  StartInv'
<1>1. CASE start_kernel \/ power_cycle
  <2>1. stage' \in {"entry", "off"}
    BY <1>1 DEF start_kernel, power_cycle, switch_off
  <2>2. QED BY <2>1 DEF StartInv, Looked
<1>2. CASE StartupStep
  BY <1>2, EarlyStages, PoolIsMade, ArraysArePlaced DEF StartupStep
<1>3. CASE UNCHANGED startupVars
  <2>1. UNCHANGED <<stage, mapped, machine, dtb_addr, cpio_addr, buddy_base_addr, buddy_total_pages,
                    reserved_regions, frame_array, ref_count>>
    BY <1>3 DEF startupVars, found, pool, arrays
  <2>2. /\ PoolIsSound' <=> PoolIsSound
        /\ MachineIsKnown' <=> MachineIsKnown
        /\ \A a, b : Reserves(a, b)' <=> Reserves(a, b)
        /\ InUse' = InUse /\ ArraySize' = ArraySize /\ Window' = Window
    BY <2>1 DEF PoolIsSound, MachineIsKnown, Reserves, InUse, ArraySize, Window, InitrdAt, va
  <2>3. KnownAreReserved' <=> KnownAreReserved
    BY <2>1, <2>2 DEF KnownAreReserved
  <2>4. \A a : IsPlaced(a)' <=> IsPlaced(a)
    BY <2>1, <2>2 DEF IsPlaced
  <2>5. (IsPlaced(frame_array)' <=> IsPlaced(frame_array)) /\ (IsPlaced(ref_count)' <=> IsPlaced(ref_count))
    BY <2>1, <2>4 DEF IsPlaced, Reserves
  <2>6. (Pages(frame_array, ArraySize) \cap Pages(ref_count, ArraySize))'
        = Pages(frame_array, ArraySize) \cap Pages(ref_count, ArraySize)
    BY <2>1, <2>2 DEF Pages, Page
  <2>7. QED BY <2>1, <2>2, <2>3, <2>5, <2>6 DEF StartInv, Looked
<1>4. QED
  BY <1>1, <1>2, <1>3 DEF Next, Processor, User, vars

\* On a supported machine the kernel's start keeps what a stage relies on.
THEOREM StartInvariance ==
    ASSUME Supported
    PROVE  Spec => []StartInv
<1>1. Init => StartInv
  BY DEF Init, StartupInit, StartInv, Looked
<1>2. StartInv /\ [Next]_vars => StartInv'
  BY StartInvKept
<1>3. QED
  BY <1>1, <1>2, PTL DEF Spec

\* Every page that buddy_init puts on a free list is memory the kernel has
\* mapped and that holds nothing: no kernel, firmware, device tree or ramdisk,
\* and neither of the arrays startup_alloc placed, which are apart from all of
\* these and from each other.
THEOREM FreeListsAreSafe ==
    ASSUME Supported
    PROVE  Spec => []FreePagesAreUsable
<1>1. ASSUME StartInv, stage = "ready"
      PROVE  LET frames == Pages(frame_array, ArraySize)
                 counts == Pages(ref_count, ArraySize)
             IN  /\ Free \subseteq mapped
                 /\ Free \cap (InUse \cup frames \cup counts) = {}
                 /\ frames \cap (InUse \cup counts) = {}
                 /\ counts \cap InUse = {}
                 /\ frames \cup counts \subseteq mapped
  <2> DEFINE frames == Pages(frame_array, ArraySize)
             counts == Pages(ref_count, ArraySize)
  <2>1. /\ Window \subseteq mapped /\ MachineIsKnown /\ PoolIsSound /\ KnownAreReserved
        /\ reserved_regions \in Seq(Regions) /\ IsPlaced(frame_array) /\ IsPlaced(ref_count)
        /\ frames \cap counts = {}
    BY <1>1 DEF StartInv, Looked
  <2>2. PICK j \in Int : buddy_base_addr = j * PAGE_SIZE
    BY <2>1 DEF PoolIsSound
  <2>3. /\ PAGE_SIZE \in Nat \ {0} /\ buddy_base_addr \in Nat /\ buddy_total_pages \in Nat
        /\ ArraySize \in Nat
    <3>1. PAGE_SIZE \in Nat \ {0} /\ buddy_base_addr \in Nat /\ buddy_total_pages \in Nat /\ INT_SIZE \in Nat
      BY <2>1, StartupAssumption DEF PoolIsSound
    <3>2. \A x, y \in Nat : x * y \in Nat
      OBVIOUS
    <3>3. QED BY <3>1, <3>2 DEF ArraySize
  <2>4. \A x \in Free : /\ x \in Window /\ buddy_base_addr <= x * PAGE_SIZE
                        /\ \A a, s \in Int : Reserves(a, a + s) => x \notin Pages(a, s)
    <3> SUFFICES ASSUME NEW x \in Free
                 PROVE  /\ x \in Window /\ buddy_base_addr <= x * PAGE_SIZE
                        /\ \A a, s \in Int : Reserves(a, a + s) => x \notin Pages(a, s)
      OBVIOUS
    <3>1. /\ x \in Int /\ j <= x /\ x < j + buddy_total_pages
          /\ \A a, s \in Int : Reserves(a, a + s) => x \notin Pages(a, s)
      BY <2>1, <2>2, <2>3, FreeIsUnreserved
    <3>2. QED BY <2>1, <2>2, <3>1, PoolIsInWindow
  <2>5. ASSUME NEW a, IsPlaced(a)
        PROVE  /\ Pages(a, ArraySize) \subseteq Window
               /\ Free \cap Pages(a, ArraySize) = {}
    <3> DEFINE need == PagesNeeded(ArraySize)
    <3>1. PICK k \in Nat : a = buddy_base_addr + k * PAGE_SIZE /\ k + need <= buddy_total_pages
      BY <2>5 DEF IsPlaced
    <3>2. \A x \in Pages(a, ArraySize) : x \in Window
      BY <2>1, <2>3, <3>1, ArrayIsInWindow
    <3> DEFINE bytes == need * PAGE_SIZE
    <3>3. need \in Nat /\ ArraySize <= bytes
      BY <2>3, Enough
    <3>4. a \in Int /\ bytes \in Int
      BY <2>3, <3>1, <3>3, Multiply
    <3>5. Reserves(a, a + bytes)
      BY <2>5 DEF IsPlaced
    <3> DEFINE m == ArraySize
    <3> HIDE DEF bytes, m
    <3>6. m \in Int /\ m <= bytes
      BY <2>3, <3>3 DEF m
    <3>7. ASSUME NEW x \in Pages(a, m) PROVE x \in Pages(a, bytes)
      <4> DEFINE p == x * PAGE_SIZE
      <4>1. x \in Int /\ a < p + PAGE_SIZE /\ p <= a + m - 1
        BY <3>4, <3>6, <3>7, PageFacts
      <4>2. p \in Int
        BY <2>3, <4>1, Multiply
      <4>3. p <= a + bytes - 1
        <5> HIDE DEF p
        <5>1. QED BY <3>4, <3>6, <4>1, <4>2
      <4>4. QED BY <3>4, <4>1, <4>3, PageFacts
    <3>8. \A x \in Free : x \notin Pages(a, bytes)
      BY <2>4, <3>4, <3>5
    <3>9. QED BY <3>2, <3>7, <3>8 DEF m
  <2>6. Free \cap InUse = {}
    <3> SUFFICES ASSUME NEW x \in Free, x \in InUse PROVE FALSE
      OBVIOUS
    <3>1. \E a, s \in Int : Reserves(a, a + s) /\ x \in Pages(a, s)
      BY <2>1, <2>4, InUseIsReserved
    <3>2. QED BY <2>4, <3>1
  <2>7. frames \cap InUse = {} /\ counts \cap InUse = {}
    BY <2>1 DEF IsPlaced
  <2>8. frames \subseteq Window /\ counts \subseteq Window
        /\ Free \cap frames = {} /\ Free \cap counts = {}
    BY <2>1, <2>5
  <2>9. Free \subseteq Window
    BY <2>4
  <2> HIDE DEF frames, counts
  <2>10. /\ Free \subseteq mapped
         /\ Free \cap (InUse \cup frames \cup counts) = {}
         /\ frames \cap (InUse \cup counts) = {}
         /\ counts \cap InUse = {}
         /\ frames \cup counts \subseteq mapped
    BY <2>1, <2>6, <2>7, <2>8, <2>9
  <2>11. QED BY <2>10 DEF frames, counts
<1>2. StartInv => FreePagesAreUsable
  BY <1>1 DEF FreePagesAreUsable
<1>3. QED
  BY <1>2, StartInvariance, PTL

-----------------------------------------------------------------------------
(* Archives *)

\* The two ways to round up come to the same at multiples of four.
LEMMA Rounding ==
    ASSUME NEW n \in Nat, NEW p \in Nat, p % 4 = 0
    PROVE  /\ PaddedTo4(n) \in Nat /\ PaddedTo4(n) >= n
           /\ align4(n) = PaddedTo4(n) /\ align4(p + n) = p + PaddedTo4(n)
           /\ (p + PaddedTo4(n)) % 4 = 0
<1>1. ASSUME NEW k \in Nat, NEW r \in 0..3
      PROVE  /\ PaddedTo4(4 * k + r) = IF r = 0 THEN 4 * k ELSE 4 * k + 4
             /\ align4(4 * k + r) = IF r = 0 THEN 4 * k ELSE 4 * k + 4
  <2>1. (4 * k + r) % 4 = r
    OBVIOUS
  <2>2. (4 * k + r + 3) \div 4 = IF r = 0 THEN k ELSE k + 1
    OBVIOUS
  <2>3. QED BY <2>1, <2>2 DEF PaddedTo4, align4
<1>2. PICK k \in Nat, r \in 0..3 : n = 4 * k + r
  <2>1. n \div 4 \in Nat /\ n % 4 \in 0..3 /\ n = 4 * (n \div 4) + (n % 4)
    OBVIOUS
  <2>2. QED BY <2>1
<1>3. PICK q \in Nat : p = 4 * q
  <2>1. p \div 4 \in Nat /\ p = 4 * (p \div 4) + (p % 4)
    OBVIOUS
  <2>2. QED BY <2>1
<1>4. q + k \in Nat /\ p + n = 4 * (q + k) + r
  BY <1>2, <1>3
<1>5. align4(p + n) = IF r = 0 THEN 4 * (q + k) ELSE 4 * (q + k) + 4
  BY <1>1, <1>4
<1>6. PaddedTo4(n) = (IF r = 0 THEN 4 * k ELSE 4 * k + 4) /\ align4(n) = PaddedTo4(n)
  BY <1>1, <1>2
<1>7. p + PaddedTo4(n) = IF r = 0 THEN 4 * (q + k) ELSE 4 * (q + k + 1)
  BY <1>3, <1>6
<1>8. \A m \in Nat : (4 * m) % 4 = 0
  OBVIOUS
<1>9. (p + PaddedTo4(n)) % 4 = 0
  <2>1. q + k \in Nat /\ q + k + 1 \in Nat
    OBVIOUS
  <2>2. (4 * (q + k)) % 4 = 0 /\ (4 * (q + k + 1)) % 4 = 0
    BY <1>8, <2>1
  <2>3. QED BY <1>7, <2>2
<1>10. QED
  BY <1>2, <1>3, <1>5, <1>6, <1>9

\* What cpio writes: files, then the trailer.
Entry == [name : STRING, namesize : Nat, filesize : Nat]
IsArchive(a) ==
    /\ a \in Seq(Entry) /\ a # <<>>
    /\ \A i \in 1..Len(a) : a[i].name = TRAILER <=> i = Len(a)

\* Where the files lie: each behind the one before it.
LEMMA Offsets ==
    ASSUME NEW a, IsArchive(a)
    PROVE  LET n == Len(a)
               o == Offset(a)
           IN  /\ n \in Nat \ {0} /\ DOMAIN a = 1..n
               /\ \A i \in 1..n : a[i].namesize \in Nat /\ a[i].filesize \in Nat
               /\ o \in [1..n + 1 -> Nat] /\ o[1] = 0
               /\ \A i \in 1..n : o[i + 1] = o[i] + PaddedTo4(CPIO_HEADER_SIZE + a[i].namesize)
                                                 + PaddedTo4(a[i].filesize)
<1> DEFINE n == Len(a)
           o == Offset(a)
           W(i) == PaddedTo4(CPIO_HEADER_SIZE + a[i].namesize) + PaddedTo4(a[i].filesize)
           w == [i \in 1..n |-> W(i)]
           Place(f) == [i \in 1..n + 1 |->
                          IF i = 1 THEN 0
                          ELSE f[i - 1] + PaddedTo4(CPIO_HEADER_SIZE + a[i - 1].namesize)
                                        + PaddedTo4(a[i - 1].filesize)]
<1>1. n \in Nat \ {0} /\ DOMAIN a = 1..n
  BY EmptySeq, LenProperties DEF IsArchive
<1>2. ASSUME NEW i \in 1..n
      PROVE  /\ a[i].namesize \in Nat /\ a[i].filesize \in Nat
             /\ PaddedTo4(CPIO_HEADER_SIZE + a[i].namesize) \in Nat
             /\ PaddedTo4(a[i].filesize) \in Nat /\ W(i) \in Nat
  <2>1. a[i] \in Entry
    BY ElementOfSeq DEF IsArchive
  <2>2. a[i].namesize \in Nat /\ a[i].filesize \in Nat
    BY <2>1 DEF Entry
  <2>3. CPIO_HEADER_SIZE + a[i].namesize \in Nat
    BY <2>2, HeaderAssumption
  <2>4. 0 \in Nat /\ 0 % 4 = 0
    OBVIOUS
  <2>5. /\ PaddedTo4(CPIO_HEADER_SIZE + a[i].namesize) \in Nat
        /\ PaddedTo4(a[i].filesize) \in Nat
    BY <2>2, <2>3, <2>4, Rounding
  <2>6. QED BY <2>2, <2>5
<1>3. w \in [1..n -> Nat]
  <2> HIDE DEF W
  <2>1. QED BY <1>2
<1> HIDE DEF n
<1>4. PICK f \in [1..n + 1 -> Nat] : IsSums(f, w, n)
  BY <1>1, <1>3, SumsExist
<1>5. ASSUME NEW g, g \in [1..n + 1 -> Nat]
      PROVE  \A i \in 1..n + 1 :
               (IF i = 1 THEN 0 ELSE g[i - 1] + w[i - 1])
               = (IF i = 1 THEN 0
                  ELSE g[i - 1] + PaddedTo4(CPIO_HEADER_SIZE + a[i - 1].namesize)
                                + PaddedTo4(a[i - 1].filesize))
  <2> SUFFICES ASSUME NEW i \in 1..n + 1, i # 1
               PROVE  g[i - 1] + w[i - 1]
                      = g[i - 1] + PaddedTo4(CPIO_HEADER_SIZE + a[i - 1].namesize)
                                 + PaddedTo4(a[i - 1].filesize)
    OBVIOUS
  <2>1. i - 1 \in 1..n /\ g[i - 1] \in Nat
    BY <1>1, <1>5
  <2>2. w[i - 1] = W(i - 1)
    BY <2>1
  <2>3. /\ PaddedTo4(CPIO_HEADER_SIZE + a[i - 1].namesize) \in Nat
        /\ PaddedTo4(a[i - 1].filesize) \in Nat
    BY <1>2, <2>1
  <2>4. QED BY <2>1, <2>2, <2>3
<1>6. f = Place(f)
  <2> HIDE DEF W, w
  <2>1. \A i \in 1..n + 1 :
               (IF i = 1 THEN 0 ELSE f[i - 1] + w[i - 1])
               = (IF i = 1 THEN 0
                  ELSE f[i - 1] + PaddedTo4(CPIO_HEADER_SIZE + a[i - 1].namesize)
                                + PaddedTo4(a[i - 1].filesize))
    BY <1>4, <1>5
  <2>2. QED BY <1>4, <2>1 DEF IsSums
<1>7. o = CHOOSE g : g = Place(g)
  BY DEF Offset, n
<1>8. o = Place(o)
  <2> HIDE DEF Place, o
  <2>1. QED BY <1>6, <1>7
<1> HIDE DEF o, W, w
<1>9. \A i \in 1..n + 1 :
        o[i] = IF i = 1 THEN 0
               ELSE o[i - 1] + PaddedTo4(CPIO_HEADER_SIZE + a[i - 1].namesize)
                             + PaddedTo4(a[i - 1].filesize)
  BY <1>8
<1>10. o[1] = 0
  BY <1>1, <1>9
<1>11. ASSUME NEW i \in 1..n
       PROVE  o[i + 1] = o[i] + PaddedTo4(CPIO_HEADER_SIZE + a[i].namesize)
                              + PaddedTo4(a[i].filesize)
  <2>1. i + 1 \in 1..n + 1 /\ i + 1 # 1 /\ (i + 1) - 1 = i
    BY <1>1
  <2>2. QED BY <1>9, <2>1
<1>12. \A i \in 1..n + 1 : o[i] \in Nat
  <2> DEFINE P == {i \in Nat : o[i] \in Nat}
  <2>1. 1 \in P
    BY <1>10
  <2>2. \A i \in 1..((n + 1) - 1) : i \in P => i + 1 \in P
    <3> SUFFICES ASSUME NEW i \in 1..n, o[i] \in Nat PROVE i + 1 \in Nat /\ o[i + 1] \in Nat
      BY <1>1
    <3>1. /\ PaddedTo4(CPIO_HEADER_SIZE + a[i].namesize) \in Nat
          /\ PaddedTo4(a[i].filesize) \in Nat
      BY <1>2
    <3>2. QED BY <1>11, <3>1
  <2> HIDE DEF P
  <2>3. 1 \in Int /\ n + 1 \in Int
    BY <1>1
  <2>4. \A i \in 1..n + 1 : i \in P
    BY <2>1, <2>2, <2>3, Upward
  <2>5. QED BY <2>4 DEF P
<1>13. o \in [1..n + 1 -> Nat]
  <2>1. o = [i \in 1..n + 1 |-> o[i]]
    BY <1>8
  <2>2. QED BY <1>12, <2>1
<1>14. QED
  BY <1>1, <1>2, <1>10, <1>11, <1>13 DEF n, o

\* The entries lie one behind the other, all at multiples of four; the three
\* ways to step from one to the next, and to its data, lead there; and At tells
\* which entry is where.
LEMMA Entries ==
    ASSUME NEW a, IsArchive(a), NEW base \in Nat, base % 4 = 0
    PROVE  LET n == Len(a)
               o == Offset(a)
           IN  /\ n \in Nat \ {0} /\ DOMAIN a = 1..n
               /\ \A i \in 1..n + 1 : o[i] \in Nat
               /\ \A i \in 1..n : /\ At(a, base, base + o[i]) = i
                                  /\ Next_hdr(base + o[i], a[i]) = base + o[i + 1]
                                  /\ base + o[i] + align4(CPIO_HEADER_SIZE + a[i].namesize)
                                       = base + DataOf(a, i)
                                  /\ file_data(base + o[i], a[i]) = base + DataOf(a, i)
                                  /\ align4(file_data(base + o[i], a[i]) + a[i].filesize)
                                       = base + o[i + 1]
                                  /\ o[i + 1] > o[i]
               /\ \A p \in Nat : At(a, base, p) # 0 =>
                    At(a, base, p) \in 1..n /\ p = base + o[At(a, base, p)]
               /\ \A p \in Nat : p >= base + o[n + 1] => At(a, base, p) = 0
<1> DEFINE n == Len(a)
           o == Offset(a)
           h(i) == PaddedTo4(CPIO_HEADER_SIZE + a[i].namesize)
           d(i) == PaddedTo4(a[i].filesize)
<1>1. /\ n \in Nat \ {0} /\ DOMAIN a = 1..n
      /\ \A i \in 1..n : a[i].namesize \in Nat /\ a[i].filesize \in Nat
      /\ o \in [1..n + 1 -> Nat] /\ o[1] = 0
      /\ \A i \in 1..n : o[i + 1] = o[i] + h(i) + d(i)
  BY Offsets
<1>2. ASSUME NEW i \in 1..n, NEW p \in Nat, p % 4 = 0
      PROVE  /\ h(i) \in Nat \ {0} /\ d(i) \in Nat
             /\ align4(CPIO_HEADER_SIZE + a[i].namesize) = h(i) /\ align4(a[i].filesize) = d(i)
             /\ file_data(p, a[i]) = p + h(i) /\ (p + h(i)) % 4 = 0
             /\ align4(p + h(i) + a[i].filesize) = p + h(i) + d(i) /\ (p + h(i) + d(i)) % 4 = 0
  <2> DEFINE s == CPIO_HEADER_SIZE + a[i].namesize
             t == a[i].filesize
  <2>1. s \in Nat \ {0} /\ t \in Nat
    BY <1>1, HeaderAssumption
  <2> HIDE DEF t
  <2>2. p + CPIO_HEADER_SIZE + a[i].namesize = p + s
    BY <1>1, HeaderAssumption
  <2> HIDE DEF s
  <2>3. /\ PaddedTo4(s) \in Nat /\ PaddedTo4(s) >= s
        /\ align4(s) = PaddedTo4(s) /\ align4(p + s) = p + PaddedTo4(s)
        /\ (p + PaddedTo4(s)) % 4 = 0
    BY <1>2, <2>1, Rounding
  <2> DEFINE q == p + PaddedTo4(s)
  <2>4. q \in Nat /\ q % 4 = 0
    BY <2>3
  <2> HIDE DEF q
  <2>5. /\ PaddedTo4(t) \in Nat
        /\ align4(t) = PaddedTo4(t) /\ align4(q + t) = q + PaddedTo4(t)
        /\ (q + PaddedTo4(t)) % 4 = 0
    BY <2>1, <2>4, Rounding
  <2>6. h(i) = PaddedTo4(s) /\ d(i) = PaddedTo4(t)
    BY DEF s, t
  <2>7. file_data(p, a[i]) = p + h(i)
    BY <2>2, <2>3, <2>6 DEF file_data
  <2>8. h(i) \in Nat \ {0}
    BY <2>1, <2>3, <2>6
  <2>9. q = p + h(i)
    BY <2>6 DEF q
  <2> HIDE DEF h, d
  <2>10. QED BY <2>3, <2>4, <2>5, <2>6, <2>7, <2>8, <2>9 DEF s, t
<1> HIDE DEF n, o, h, d
<1>3. \A i \in 1..n + 1 : o[i] \in Nat
  BY <1>1
<1>4. ASSUME NEW i \in 1..n
      PROVE  o[i] \in Nat /\ i + 1 \in 1..n + 1 /\ o[i + 1] \in Nat /\ o[i + 1] > o[i]
  <2>1. i \in 1..n + 1 /\ i + 1 \in 1..n + 1
    BY <1>1
  <2>2. base % 4 = 0 /\ base \in Nat
    OBVIOUS
  <2>3. h(i) \in Nat \ {0} /\ d(i) \in Nat
    BY <1>2, <2>2
  <2>4. o[i + 1] = o[i] + h(i) + d(i) /\ o[i] \in Nat /\ o[i + 1] \in Nat
    BY <1>1, <2>1
  <2>5. QED BY <2>1, <2>3, <2>4
<1>5. \A i \in 1..n + 1 : (base + o[i]) % 4 = 0
  <2> DEFINE P == {i \in Nat : (base + o[i]) % 4 = 0}
  <2>1. 1 \in P
    BY <1>1
  <2>2. ASSUME NEW i \in 1..n, i \in P PROVE i + 1 \in P
    <3>1. base + o[i] \in Nat /\ (base + o[i]) % 4 = 0
      BY <1>4, <2>2
    <3>2. (base + o[i] + h(i) + d(i)) % 4 = 0 /\ h(i) \in Nat /\ d(i) \in Nat
      BY <1>2, <3>1
    <3>3. base + o[i + 1] = base + o[i] + h(i) + d(i)
      <4>1. o[i + 1] = o[i] + h(i) + d(i) /\ o[i] \in Nat
        BY <1>1, <1>4
      <4>2. QED BY <3>2, <4>1
    <3>4. QED BY <3>2, <3>3
  <2> HIDE DEF P
  <2>3. 1 \in Int /\ n + 1 \in Int /\ \A i \in 1..((n + 1) - 1) : i \in P => i + 1 \in P
    BY <1>1, <2>2
  <2>4. \A i \in 1..n + 1 : i \in P
    BY <2>1, <2>3, Upward
  <2>5. QED BY <2>4 DEF P
<1>6. ASSUME NEW i \in 1..n + 1 PROVE \A j \in i..n + 1 : j = i \/ o[i] < o[j]
  <2> DEFINE P == {j \in Nat : j = i \/ o[i] < o[j]}
  <2>1. i \in P
    OBVIOUS
  <2>2. ASSUME NEW j \in i..n, j \in P PROVE j + 1 \in P
    <3>1. j \in 1..n /\ j + 1 \in Nat
      BY <1>1, <2>2
    <3>2. o[j] \in Nat /\ o[j + 1] \in Nat /\ o[j + 1] > o[j]
      BY <1>4, <3>1
    <3>3. o[i] \in Nat /\ (j = i \/ o[i] < o[j])
      BY <1>3, <2>2
    <3>4. o[i] < o[j + 1]
      BY <3>2, <3>3
    <3>5. QED BY <3>1, <3>4
  <2> HIDE DEF P
  <2>3. i \in Int /\ n + 1 \in Int /\ \A j \in i..((n + 1) - 1) : j \in P => j + 1 \in P
    BY <1>1, <2>2
  <2>4. \A j \in i..n + 1 : j \in P
    BY <2>1, <2>3, Upward
  <2>5. QED BY <2>4 DEF P
<1>7. ASSUME NEW i \in 1..n, NEW j \in 1..n, o[i] = o[j] PROVE i = j
  <2>1. i \in 1..n + 1 /\ j \in 1..n + 1 /\ (i <= j => j \in i..n + 1) /\ (j <= i => i \in j..n + 1)
    BY <1>1
  <2>2. o[i] \in Nat /\ o[j] \in Nat
    BY <1>3, <2>1
  <2>3. i <= j => j = i \/ o[i] < o[j]
    BY <1>6, <2>1
  <2>4. j <= i => i = j \/ o[j] < o[i]
    BY <1>6, <2>1
  <2>5. QED BY <1>7, <2>2, <2>3, <2>4
<1>8. ASSUME NEW p \in Nat, At(a, base, p) # 0
      PROVE  At(a, base, p) \in 1..n /\ p = base + o[At(a, base, p)]
  <2> DEFINE here == {i \in DOMAIN a : base + Offset(a)[i] = p}
  <2>1. here # {} /\ At(a, base, p) = Min(here)
    BY <1>8 DEF At
  <2>2. here \in SUBSET Nat /\ \A i \in here : i \in 1..n /\ base + o[i] = p
    BY <1>1 DEF o
  <2> HIDE DEF here
  <2>3. \E x \in here : \A y \in here : x <= y
    BY <2>1, <2>2, LeastNumber
  <2>4. Min(here) \in here
    BY <2>3 DEF Min
  <2>5. QED BY <2>1, <2>2, <2>4
<1>9. ASSUME NEW i \in 1..n PROVE At(a, base, base + o[i]) = i
  <2> DEFINE here == {j \in DOMAIN a : base + Offset(a)[j] = base + o[i]}
  <2>1. \A j \in 1..n : j \in here <=> base + o[j] = base + o[i]
    BY <1>1 DEF o
  <2>2. here \subseteq 1..n
    BY <1>1
  <2>3. \A j \in 1..n : o[j] \in Nat
    BY <1>4
  <2>4. here = {i}
    <3> HIDE DEF here
    <3>1. i \in here
      BY <2>1
    <3>2. ASSUME NEW j \in here PROVE j = i
      <4>1. j \in 1..n /\ base + o[j] = base + o[i]
        BY <2>1, <2>2
      <4>2. o[j] = o[i]
        BY <2>3, <4>1
      <4>3. QED BY <1>7, <4>1, <4>2
    <3>3. QED BY <3>1, <3>2
  <2>5. Min({i}) = i
    BY DEF Min
  <2>6. At(a, base, base + o[i]) = IF here = {} THEN 0 ELSE Min(here)
    BY DEF At
  <2> HIDE DEF here
  <2>7. QED BY <2>4, <2>5, <2>6
<1>10. ASSUME NEW i \in 1..n
       PROVE  /\ Next_hdr(base + o[i], a[i]) = base + o[i + 1]
              /\ base + o[i] + align4(CPIO_HEADER_SIZE + a[i].namesize) = base + DataOf(a, i)
              /\ file_data(base + o[i], a[i]) = base + DataOf(a, i)
              /\ align4(file_data(base + o[i], a[i]) + a[i].filesize) = base + o[i + 1]
  <2> DEFINE p == base + o[i]
  <2>1. p \in Nat /\ p % 4 = 0
    <3>1. i \in 1..n + 1
      BY <1>1
    <3>2. QED BY <1>3, <1>5, <3>1
  <2> HIDE DEF p
  <2>2. /\ h(i) \in Nat \ {0} /\ d(i) \in Nat
        /\ align4(CPIO_HEADER_SIZE + a[i].namesize) = h(i) /\ align4(a[i].filesize) = d(i)
        /\ file_data(p, a[i]) = p + h(i)
        /\ align4(p + h(i) + a[i].filesize) = p + h(i) + d(i)
    BY <1>2, <2>1
  <2>3. base + o[i + 1] = p + h(i) + d(i)
    <3>1. o[i + 1] = o[i] + h(i) + d(i) /\ o[i] \in Nat
      BY <1>1, <1>4
    <3>2. QED BY <2>2, <3>1 DEF p
  <2>4. base + DataOf(a, i) = p + h(i)
    <3>1. DataOf(a, i) = o[i] + h(i)
      BY DEF DataOf, o, h
    <3>2. QED BY <1>4, <2>2, <3>1 DEF p
  <2>5. Next_hdr(p, a[i]) = p + h(i) + d(i)
    BY <2>2 DEF Next_hdr
  <2>6. QED BY <2>2, <2>3, <2>4, <2>5 DEF p
<1>11. ASSUME NEW p \in Nat, p >= base + o[n + 1] PROVE At(a, base, p) = 0
  <2> SUFFICES ASSUME At(a, base, p) # 0 PROVE FALSE
    OBVIOUS
  <2>1. PICK i \in 1..n : p = base + o[i]
    BY <1>8
  <2>2. i \in 1..n + 1 /\ n + 1 \in i..n + 1 /\ n + 1 # i /\ n + 1 \in 1..n + 1
    BY <1>1
  <2>3. o[i] < o[n + 1] /\ o[i] \in Nat /\ o[n + 1] \in Nat
    BY <1>3, <1>6, <2>2
  <2>4. QED BY <1>11, <2>1, <2>3
<1>12. QED
  BY <1>1, <1>3, <1>4, <1>8, <1>9, <1>10, <1>11 DEF n, o

\* The walk from header to header that cpio_cat and cpio_find have in common.
Content(a, base, i) == [data |-> base + DataOf(a, i), size |-> a[i].filesize]
Behind(a, base, i) == base + Offset(a)[i + 1]
Ends(a, i) == i = 0 \/ a[i].name = TRAILER
IsWalk(g, a, base, t) ==
    g = [p \in Nat |-> IF Ends(a, At(a, base, p)) THEN NotFound
                       ELSE IF a[At(a, base, p)].name = t THEN Content(a, base, At(a, base, p))
                       ELSE g[Behind(a, base, At(a, base, p))]]

\* Every step of a walk over an archive goes forward, up to its end.
LEMMA WalkGoesForward ==
    ASSUME NEW a, IsArchive(a), NEW base \in Nat, base % 4 = 0,
           NEW stop \in SUBSET Nat, \A p \in Nat : At(a, base, p) = 0 => p \in stop
    PROVE  GoesForward(base + Offset(a)[Len(a) + 1], stop,
                       [p \in Nat |-> IF p \in stop THEN p ELSE Behind(a, base, At(a, base, p))])
<1> DEFINE n == Len(a)
           o == Offset(a)
           N == base + o[n + 1]
           next == [p \in Nat |-> IF p \in stop THEN p ELSE Behind(a, base, At(a, base, p))]
<1>1. /\ n \in Nat \ {0} /\ \A i \in 1..n + 1 : o[i] \in Nat
      /\ \A i \in 1..n : o[i + 1] > o[i]
      /\ \A p \in Nat : At(a, base, p) # 0 =>
           At(a, base, p) \in 1..n /\ p = base + o[At(a, base, p)]
      /\ \A p \in Nat : p >= N => At(a, base, p) = 0
  BY Entries
<1> HIDE DEF n, o
<1>2. N \in Nat
  <2>1. n + 1 \in 1..n + 1
    BY <1>1
  <2>2. o[n + 1] \in Nat
    BY <1>1, <2>1
  <2>3. QED BY <2>2
<1>3. ASSUME NEW p \in Nat, p \notin stop
      PROVE  Behind(a, base, At(a, base, p)) \in Nat /\ Behind(a, base, At(a, base, p)) > p
  <2> DEFINE i == At(a, base, p)
  <2>1. i \in 1..n /\ p = base + o[i]
    BY <1>1, <1>3
  <2> HIDE DEF i
  <2>2. i \in 1..n + 1 /\ i + 1 \in 1..n + 1
    BY <1>1, <2>1
  <2>3. o[i] \in Nat /\ o[i + 1] \in Nat /\ o[i + 1] > o[i]
    BY <1>1, <2>1, <2>2
  <2>4. Behind(a, base, i) = base + o[i + 1]
    BY DEF Behind, o
  <2>5. Behind(a, base, i) \in Nat /\ Behind(a, base, i) > p
    BY <2>1, <2>3, <2>4
  <2>6. QED BY <2>5 DEF i
<1>4. next \in [Nat -> Nat] /\ \A p \in Nat : p \notin stop => next[p] > p
  BY <1>3
<1>5. \A p \in Nat : p >= N => p \in stop
  <2> HIDE DEF N
  <2>1. QED BY <1>1
<1> HIDE DEF N, next
<1>6. GoesForward(N, stop, next)
  BY <1>2, <1>4, <1>5 DEF GoesForward
<1>7. QED
  BY <1>6 DEF N, n, o, next

\* The walk that looks for one file has a value at every place.
LEMMA WalkExists ==
    ASSUME NEW a, IsArchive(a), NEW base \in Nat, base % 4 = 0, NEW t
    PROVE  \E g : IsWalk(g, a, base, t)
<1> DEFINE i(p) == At(a, base, p)
           stop == {p \in Nat : Ends(a, i(p)) \/ a[i(p)].name = t}
           val == [p \in Nat |-> IF Ends(a, i(p)) THEN NotFound ELSE Content(a, base, i(p))]
           next == [p \in Nat |-> IF p \in stop THEN p ELSE Behind(a, base, i(p))]
           N == base + Offset(a)[Len(a) + 1]
<1>1. stop \in SUBSET Nat /\ \A p \in Nat : At(a, base, p) = 0 => p \in stop
  BY DEF Ends
<1>2. GoesForward(N, stop, next)
  <2> HIDE DEF stop
  <2>1. QED BY <1>1, WalkGoesForward
<1>3. HasScan(stop, val, next)
  <2> HIDE DEF stop, val, next, N
  <2>1. QED BY <1>2, ScanExists
<1>4. PICK g : IsScan(g, stop, val, next)
  <2> HIDE DEF stop, val, next
  <2>1. QED BY <1>3 DEF HasScan
<1>5. \A p \in Nat : (IF p \in stop THEN val[p] ELSE g[next[p]])
        = (IF Ends(a, i(p)) THEN NotFound
           ELSE IF a[i(p)].name = t THEN Content(a, base, i(p))
           ELSE g[Behind(a, base, i(p))])
  OBVIOUS
<1>6. g = [p \in Nat |-> IF p \in stop THEN val[p] ELSE g[next[p]]]
  <2> HIDE DEF stop, val, next
  <2>1. QED BY <1>4 DEF IsScan
<1>7. IsWalk(g, a, base, t)
  <2> HIDE DEF stop, val, next
  <2>1. QED BY <1>5, <1>6 DEF IsWalk
<1>8. QED
  BY <1>7

\* It comes to the first file of a name.
LEMMA WalkFinds ==
    ASSUME NEW a, IsArchive(a), NEW base \in Nat, base % 4 = 0, NEW t,
           NEW g, IsWalk(g, a, base, t),
           NEW i \in 1..Len(a) - 1, a[i].name = t, \A j \in 1..i - 1 : a[j].name # t
    PROVE  g[base] = Content(a, base, i)
<1> DEFINE n == Len(a)
           o == Offset(a)
<1>1. /\ n \in Nat \ {0} /\ \A j \in 1..n + 1 : o[j] \in Nat
      /\ \A j \in 1..n : At(a, base, base + o[j]) = j
      /\ o[1] = 0
  BY Entries, Offsets
<1>2. ASSUME NEW j \in 1..n - 1
      PROVE  g[base + o[j]] = IF a[j].name = t THEN Content(a, base, j) ELSE g[base + o[j + 1]]
  <2>1. j \in 1..n /\ base + o[j] \in Nat /\ At(a, base, base + o[j]) = j /\ j # 0 /\ j # n
    <3> HIDE DEF n, o
    <3>1. j \in 1..n /\ j \in 1..n + 1 /\ j # 0 /\ j # n
      BY <1>1
    <3>2. o[j] \in Nat
      BY <1>1, <3>1
    <3>3. QED BY <1>1, <3>1, <3>2
  <2>2. ~Ends(a, j)
    BY <2>1 DEF Ends, IsArchive
  <2> DEFINE p == base + o[j]
  <2>3. p \in Nat /\ At(a, base, p) = j
    BY <2>1
  <2>4. Behind(a, base, j) = base + o[j + 1]
    BY DEF Behind
  <2> HIDE DEF p, o, n
  <2>5. g[p] = IF Ends(a, At(a, base, p)) THEN NotFound
               ELSE IF a[At(a, base, p)].name = t THEN Content(a, base, At(a, base, p))
               ELSE g[Behind(a, base, At(a, base, p))]
    BY <2>3 DEF IsWalk
  <2>6. g[p] = IF a[j].name = t THEN Content(a, base, j) ELSE g[base + o[j + 1]]
    BY <2>2, <2>3, <2>4, <2>5
  <2>7. QED BY <2>6 DEF p
<1> HIDE DEF n, o
<1>3. i \in 1..n - 1 /\ i \in 1..n
  BY <1>1 DEF n
<1> DEFINE P == {j \in Nat : g[base + o[j]] = Content(a, base, i)}
<1>4. i \in P
  BY <1>2, <1>3
<1>5. \A j \in 1..i - 1 : j + 1 \in P => j \in P
  <2> SUFFICES ASSUME NEW j \in 1..i - 1, g[base + o[j + 1]] = Content(a, base, i)
               PROVE  g[base + o[j]] = Content(a, base, i)
    OBVIOUS
  <2>1. j \in 1..n - 1 /\ a[j].name # t
    BY <1>1, <1>3
  <2>2. QED BY <1>2, <2>1
<1> HIDE DEF P
<1>6. \A j \in 1..i : j \in P
  <2>1. 1 \in Int /\ i \in Int
    OBVIOUS
  <2>2. QED BY <1>4, <1>5, <2>1, Downward
<1>7. 1 \in P
  <2>1. 1 \in 1..i
    OBVIOUS
  <2>2. QED BY <1>6, <2>1
<1>8. base + o[1] = base
  BY <1>1
<1>9. QED
  BY <1>7, <1>8 DEF P

\* cat and exec get the first file of a name.
LEMMA CatFinds ==
    ASSUME NEW a, IsArchive(a), NEW base \in Nat, base % 4 = 0, NEW t,
           NEW i \in 1..Len(a) - 1, a[i].name = t, \A j \in 1..i - 1 : a[j].name # t
    PROVE  cpio_cat(a, base, t) = Content(a, base, i)
<1> DEFINE Body(g) == [p \in Nat |->
             IF At(a, base, p) = 0 \/ a[At(a, base, p)].name = TRAILER THEN NotFound
             ELSE IF a[At(a, base, p)].name = t
               THEN [data |-> p + align4(CPIO_HEADER_SIZE + a[At(a, base, p)].namesize),
                     size |-> a[At(a, base, p)].filesize]
             ELSE g[Next_hdr(p, a[At(a, base, p)])]]
           walk == CHOOSE g : g = Body(g)
<1>1. /\ \A k \in 1..Len(a) : /\ Next_hdr(base + Offset(a)[k], a[k]) = base + Offset(a)[k + 1]
                              /\ base + Offset(a)[k] + align4(CPIO_HEADER_SIZE + a[k].namesize)
                                   = base + DataOf(a, k)
      /\ \A p \in Nat : At(a, base, p) # 0 =>
           At(a, base, p) \in 1..Len(a) /\ p = base + Offset(a)[At(a, base, p)]
  BY Entries
<1>2. ASSUME NEW g PROVE g = Body(g) <=> IsWalk(g, a, base, t)
  <2>1. ASSUME NEW p \in Nat
        PROVE  (IF At(a, base, p) = 0 \/ a[At(a, base, p)].name = TRAILER THEN NotFound
                ELSE IF a[At(a, base, p)].name = t
                  THEN [data |-> p + align4(CPIO_HEADER_SIZE + a[At(a, base, p)].namesize),
                        size |-> a[At(a, base, p)].filesize]
                ELSE g[Next_hdr(p, a[At(a, base, p)])])
               = (IF Ends(a, At(a, base, p)) THEN NotFound
                  ELSE IF a[At(a, base, p)].name = t THEN Content(a, base, At(a, base, p))
                  ELSE g[Behind(a, base, At(a, base, p))])
    <3> DEFINE k == At(a, base, p)
    <3>1. k # 0 => /\ Next_hdr(p, a[k]) = Behind(a, base, k)
                   /\ p + align4(CPIO_HEADER_SIZE + a[k].namesize) = base + DataOf(a, k)
      BY <1>1 DEF Behind
    <3> HIDE DEF k
    <3>2. k # 0 => [data |-> p + align4(CPIO_HEADER_SIZE + a[k].namesize), size |-> a[k].filesize]
                   = Content(a, base, k)
      BY <3>1 DEF Content
    <3>3. (IF k = 0 \/ a[k].name = TRAILER THEN NotFound
                ELSE IF a[k].name = t
                  THEN [data |-> p + align4(CPIO_HEADER_SIZE + a[k].namesize),
                        size |-> a[k].filesize]
                ELSE g[Next_hdr(p, a[k])])
               = (IF Ends(a, k) THEN NotFound
                  ELSE IF a[k].name = t THEN Content(a, base, k)
                  ELSE g[Behind(a, base, k)])
      BY <3>1, <3>2 DEF Ends
    <3>4. QED BY <3>3 DEF k
  <2>2. QED BY <2>1 DEF IsWalk
<1>3. PICK f : IsWalk(f, a, base, t)
  BY WalkExists
<1>4. walk = Body(walk)
  <2>1. f = Body(f)
    BY <1>2, <1>3
  <2> HIDE DEF Body
  <2>2. QED BY <2>1
<1>5. cpio_cat(a, base, t) = walk[base]
  BY DEF cpio_cat
<1> HIDE DEF walk, Body
<1>6. IsWalk(walk, a, base, t)
  BY <1>2, <1>4
<1>7. walk[base] = Content(a, base, i)
  BY <1>6, WalkFinds
<1>8. QED
  BY <1>5, <1>7

\* exec finds what cat finds.
LEMMA ExecFinds ==
    ASSUME NEW a, IsArchive(a), NEW base \in Nat, base % 4 = 0, NEW t,
           NEW i \in 1..Len(a) - 1, a[i].name = t, \A j \in 1..i - 1 : a[j].name # t
    PROVE  cpio_find(a, base, t) = Content(a, base, i)
<1> DEFINE Body(g) == [p \in Nat |->
             IF At(a, base, p) = 0 \/ a[At(a, base, p)].name = TRAILER THEN NotFound
             ELSE IF a[At(a, base, p)].name = t
               THEN [data |-> file_data(p, a[At(a, base, p)]), size |-> a[At(a, base, p)].filesize]
             ELSE g[align4(file_data(p, a[At(a, base, p)]) + a[At(a, base, p)].filesize)]]
           walk == CHOOSE g : g = Body(g)
<1>1. /\ \A k \in 1..Len(a) :
           /\ file_data(base + Offset(a)[k], a[k]) = base + DataOf(a, k)
           /\ align4(file_data(base + Offset(a)[k], a[k]) + a[k].filesize) = base + Offset(a)[k + 1]
      /\ \A p \in Nat : At(a, base, p) # 0 =>
           At(a, base, p) \in 1..Len(a) /\ p = base + Offset(a)[At(a, base, p)]
  BY Entries
<1>2. ASSUME NEW g PROVE g = Body(g) <=> IsWalk(g, a, base, t)
  <2>1. ASSUME NEW p \in Nat
        PROVE  (IF At(a, base, p) = 0 \/ a[At(a, base, p)].name = TRAILER THEN NotFound
                ELSE IF a[At(a, base, p)].name = t
                  THEN [data |-> file_data(p, a[At(a, base, p)]), size |-> a[At(a, base, p)].filesize]
                ELSE g[align4(file_data(p, a[At(a, base, p)]) + a[At(a, base, p)].filesize)])
               = (IF Ends(a, At(a, base, p)) THEN NotFound
                  ELSE IF a[At(a, base, p)].name = t THEN Content(a, base, At(a, base, p))
                  ELSE g[Behind(a, base, At(a, base, p))])
    <3> DEFINE k == At(a, base, p)
    <3>1. k # 0 => /\ align4(file_data(p, a[k]) + a[k].filesize) = Behind(a, base, k)
                   /\ file_data(p, a[k]) = base + DataOf(a, k)
      BY <1>1 DEF Behind
    <3> HIDE DEF k
    <3>2. k # 0 => [data |-> file_data(p, a[k]), size |-> a[k].filesize] = Content(a, base, k)
      BY <3>1 DEF Content
    <3>3. (IF k = 0 \/ a[k].name = TRAILER THEN NotFound
                ELSE IF a[k].name = t
                  THEN [data |-> file_data(p, a[k]), size |-> a[k].filesize]
                ELSE g[align4(file_data(p, a[k]) + a[k].filesize)])
               = (IF Ends(a, k) THEN NotFound
                  ELSE IF a[k].name = t THEN Content(a, base, k)
                  ELSE g[Behind(a, base, k)])
      BY <3>1, <3>2 DEF Ends
    <3>4. QED BY <3>3 DEF k
  <2>2. QED BY <2>1 DEF IsWalk
<1>3. PICK f : IsWalk(f, a, base, t)
  BY WalkExists
<1>4. walk = Body(walk)
  <2>1. f = Body(f)
    BY <1>2, <1>3
  <2> HIDE DEF Body
  <2>2. QED BY <2>1
<1>5. cpio_find(a, base, t) = walk[base]
  BY DEF cpio_find
<1> HIDE DEF walk, Body
<1>6. IsWalk(walk, a, base, t)
  BY <1>2, <1>4
<1>7. walk[base] = Content(a, base, i)
  BY <1>6, WalkFinds
<1>8. QED
  BY <1>5, <1>7

\* The first pass of ls, which looks for the trailer.
IsComplete(g, a, base) ==
    g = [p \in Nat |-> At(a, base, p) # 0 /\ (a[At(a, base, p)].name = TRAILER
                                              \/ g[Next_hdr(p, a[At(a, base, p)])])]

\* So has the walk that looks for the trailer.
LEMMA CompleteExists ==
    ASSUME NEW a, IsArchive(a), NEW base \in Nat, base % 4 = 0
    PROVE  \E g : IsComplete(g, a, base)
<1> DEFINE i(p) == At(a, base, p)
           stop == {p \in Nat : Ends(a, i(p))}
           val == [p \in Nat |-> i(p) # 0]
           next == [p \in Nat |-> IF p \in stop THEN p ELSE Behind(a, base, i(p))]
           cons == [p \in Nat |-> [b \in BOOLEAN |-> b]]
           N == base + Offset(a)[Len(a) + 1]
<1>0. /\ \A k \in 1..Len(a) : Next_hdr(base + Offset(a)[k], a[k]) = base + Offset(a)[k + 1]
      /\ \A p \in Nat : i(p) # 0 => i(p) \in 1..Len(a) /\ p = base + Offset(a)[i(p)]
  BY Entries
<1>1. stop \in SUBSET Nat /\ \A p \in Nat : At(a, base, p) = 0 => p \in stop
  BY DEF Ends
<1>2. GoesForward(N, stop, next)
  <2> HIDE DEF stop
  <2>1. QED BY <1>1, WalkGoesForward
<1>3. val \in [Nat -> BOOLEAN] /\ cons \in [Nat -> [BOOLEAN -> BOOLEAN]]
  OBVIOUS
<1>4. PICK g \in [Nat -> BOOLEAN] : IsFold(g, stop, val, next, cons)
  <2> HIDE DEF stop, val, next, N, cons
  <2>1. HasFold(BOOLEAN, stop, val, next, cons)
    BY <1>2, <1>3, FoldExists
  <2>2. QED BY <2>1 DEF HasFold
<1>5. ASSUME NEW p \in Nat
      PROVE  g[p] = (i(p) # 0 /\ (a[i(p)].name = TRAILER \/ g[Next_hdr(p, a[i(p)])]))
  <2>1. g[p] = IF p \in stop THEN val[p] ELSE cons[p][g[next[p]]]
    <3> HIDE DEF stop, val, next, cons
    <3>1. QED BY <1>4 DEF IsFold
  <2>2. CASE p \in stop
    <3>1. g[p] = (i(p) # 0)
      BY <2>1, <2>2
    <3>2. i(p) = 0 \/ a[i(p)].name = TRAILER
      BY <2>2 DEF Ends
    <3> HIDE DEF i
    <3>3. QED BY <3>1, <3>2
  <2>3. CASE p \notin stop
    <3>1. next[p] = Behind(a, base, i(p)) /\ next[p] \in Nat
      <4>1. next \in [Nat -> Nat]
        BY <1>2 DEF GoesForward
      <4>2. QED BY <2>3, <4>1
    <3>2. g[p] = g[next[p]]
      BY <2>1, <2>3, <3>1
    <3>3. i(p) # 0 /\ a[i(p)].name # TRAILER
      BY <2>3 DEF Ends
    <3>4. Next_hdr(p, a[i(p)]) = Behind(a, base, i(p))
      BY <1>0, <3>3 DEF Behind
    <3>5. g[p] \in BOOLEAN
      OBVIOUS
    <3> HIDE DEF i, next
    <3>6. QED BY <3>1, <3>2, <3>3, <3>4, <3>5
  <2>4. QED BY <2>2, <2>3
<1>6. IsComplete(g, a, base)
  BY <1>5 DEF IsComplete
<1>7. QED
  BY <1>6

\* It finds the trailer from every file on.
LEMMA ArchiveIsComplete ==
    ASSUME NEW a, IsArchive(a), NEW base \in Nat, base % 4 = 0, NEW g, IsComplete(g, a, base)
    PROVE  g[base]
<1> DEFINE n == Len(a)
           o == Offset(a)
           P == {j \in Nat : g[base + o[j]]}
<1>1. /\ n \in Nat \ {0} /\ \A j \in 1..n + 1 : o[j] \in Nat
      /\ \A j \in 1..n : At(a, base, base + o[j]) = j
                         /\ Next_hdr(base + o[j], a[j]) = base + o[j + 1]
      /\ o[1] = 0
  <2>1. o[1] = 0
    BY Offsets, Zenon
  <2>2. QED BY <2>1, Entries, Zenon
<1>2. ASSUME NEW j \in 1..n
      PROVE  g[base + o[j]] <=> (a[j].name = TRAILER \/ g[base + o[j + 1]])
  <2> DEFINE p == base + o[j]
  <2>1. p \in Nat
    <3> HIDE DEF n, o
    <3>1. o[j] \in Nat
      BY <1>1
    <3>2. QED BY <3>1
  <2>2. At(a, base, p) = j /\ j # 0 /\ Next_hdr(p, a[j]) = base + o[j + 1]
    BY <1>1
  <2> HIDE DEF p, o, n
  <2>3. g[p] = (At(a, base, p) # 0 /\ (a[At(a, base, p)].name = TRAILER
                                       \/ g[Next_hdr(p, a[At(a, base, p)])]))
    BY <2>1, Zenon DEF IsComplete
  <2>4. g[p] <=> (a[j].name = TRAILER \/ g[base + o[j + 1]])
    BY <2>2, <2>3
  <2>5. QED BY <2>4 DEF p
<1>3. a[n].name = TRAILER
  BY <1>1 DEF IsArchive
<1> HIDE DEF n, o
<1>4. n \in P
  BY <1>1, <1>2, <1>3
<1>5. \A j \in 1..n - 1 : j + 1 \in P => j \in P
  BY <1>1, <1>2
<1> HIDE DEF P
<1>6. \A j \in 1..n : j \in P
  <2>1. 1 \in Int /\ n \in Int
    BY <1>1
  <2>2. QED BY <1>4, <1>5, <2>1, Downward
<1>7. 1 \in P
  BY <1>1, <1>6
<1>8. base + o[1] = base
  BY <1>1
<1>9. QED
  BY <1>7, <1>8 DEF P

\* The second pass, which prints the names.
IsNames(g, a, base) ==
    g = [p \in Nat |-> IF Ends(a, At(a, base, p)) THEN <<>>
                       ELSE <<a[At(a, base, p)].name>> \o g[Next_hdr(p, a[At(a, base, p)])]]

\* And so has the walk that lists the names.
LEMMA NamesExist ==
    ASSUME NEW a, IsArchive(a), NEW base \in Nat, base % 4 = 0
    PROVE  \E g : IsNames(g, a, base)
<1> DEFINE i(p) == At(a, base, p)
           S == Seq(STRING)
           stop == {p \in Nat : Ends(a, i(p))}
           val == [p \in Nat |-> <<>>]
           next == [p \in Nat |-> IF p \in stop THEN p ELSE Behind(a, base, i(p))]
           cons == [p \in Nat |-> [s \in S |-> IF p \in stop THEN s ELSE <<a[i(p)].name>> \o s]]
           N == base + Offset(a)[Len(a) + 1]
<1>0. /\ \A k \in 1..Len(a) : Next_hdr(base + Offset(a)[k], a[k]) = base + Offset(a)[k + 1]
      /\ \A p \in Nat : i(p) # 0 => i(p) \in 1..Len(a) /\ p = base + Offset(a)[i(p)]
  BY Entries
<1>1. stop \in SUBSET Nat /\ \A p \in Nat : At(a, base, p) = 0 => p \in stop
  BY DEF Ends
<1>2. GoesForward(N, stop, next)
  <2> HIDE DEF stop
  <2>1. QED BY <1>1, WalkGoesForward
<1>3. val \in [Nat -> S] /\ cons \in [Nat -> [S -> S]]
  <2>1. <<>> \in S
    BY EmptySeq
  <2>2. ASSUME NEW p \in Nat, p \notin stop, NEW s \in S PROVE <<a[i(p)].name>> \o s \in S
    <3>1. i(p) \in 1..Len(a)
      BY <1>0, <2>2 DEF Ends
    <3> DEFINE e == a[i(p)]
    <3>2. e \in Entry
      BY <3>1, ElementOfSeq DEF IsArchive
    <3> HIDE DEF e
    <3>3. e.name \in STRING
      BY <3>2 DEF Entry
    <3> DEFINE x == e.name
    <3> HIDE DEF x
    <3>4. <<x>> \in Seq(STRING)
      BY <3>3 DEF x
    <3>5. <<x>> \o s \in S
      BY <3>4, ConcatProperties
    <3>6. QED BY <3>5 DEF x, e
  <2> HIDE DEF S, stop, i
  <2>3. QED BY <2>1, <2>2
<1>4. PICK g \in [Nat -> S] : IsFold(g, stop, val, next, cons)
  <2> HIDE DEF S, stop, val, next, N, cons
  <2>1. HasFold(S, stop, val, next, cons)
    BY <1>2, <1>3, FoldExists
  <2>2. QED BY <2>1 DEF HasFold
<1> HIDE DEF S
<1>5. ASSUME NEW p \in Nat
      PROVE  g[p] = IF Ends(a, i(p)) THEN <<>> ELSE <<a[i(p)].name>> \o g[Next_hdr(p, a[i(p)])]
  <2>1. g[p] = IF p \in stop THEN val[p] ELSE cons[p][g[next[p]]]
    <3> HIDE DEF stop, val, next, cons
    <3>1. QED BY <1>4 DEF IsFold
  <2>2. CASE p \in stop
    BY <2>1, <2>2
  <2>3. CASE p \notin stop
    <3>1. next[p] = Behind(a, base, i(p)) /\ next[p] \in Nat
      <4>1. next \in [Nat -> Nat]
        BY <1>2 DEF GoesForward
      <4>2. QED BY <2>3, <4>1
    <3>2. i(p) # 0 /\ ~Ends(a, i(p))
      BY <2>3 DEF Ends
    <3>3. Next_hdr(p, a[i(p)]) = Behind(a, base, i(p))
      BY <1>0, <3>2 DEF Behind
    <3>4. g[next[p]] \in S
      BY <3>1
    <3>5. \A s \in S : cons[p][s] = <<a[i(p)].name>> \o s
      BY <2>3
    <3> HIDE DEF i, next, cons
    <3>6. QED BY <2>1, <2>3, <3>1, <3>2, <3>3, <3>4, <3>5
  <2>4. QED BY <2>2, <2>3
<1>6. IsNames(g, a, base)
  <2>1. g = [p \in Nat |-> g[p]]
    OBVIOUS
  <2>2. QED BY <1>5, <2>1 DEF IsNames
<1>7. QED
  BY <1>6

\* The names of the files from entry j on.
NamesFrom(a, j) == [k \in 1..Len(a) - j |-> a[j + k - 1].name]

\* The names from one file on are its own and those from the next.
LEMMA NamesGrow ==
    ASSUME NEW a, IsArchive(a), NEW j \in 1..Len(a) - 1
    PROVE  <<a[j].name>> \o NamesFrom(a, j + 1) = NamesFrom(a, j)
<1> DEFINE n == Len(a)
           s == NamesFrom(a, j + 1)
           t == NamesFrom(a, j)
           x == a[j].name
<1>1. n \in Nat
  BY LenProperties DEF IsArchive
<1>2. \A k \in 1..n : a[k].name \in STRING
  <2> SUFFICES ASSUME NEW k \in 1..n PROVE a[k].name \in STRING
    OBVIOUS
  <2>1. a[k] \in Entry
    BY ElementOfSeq DEF IsArchive
  <2>2. QED BY <2>1 DEF Entry
<1>3. /\ t \in [1..n - j -> STRING] /\ \A k \in 1..n - j : t[k] = a[j + k - 1].name
  <2> HIDE DEF n
  <2>1. \A k \in 1..n - j : j + k - 1 \in 1..n
    BY <1>1 DEF n
  <2>2. t = [k \in 1..n - j |-> a[j + k - 1].name]
    BY DEF NamesFrom, n
  <2>3. QED BY <1>2, <2>1, <2>2
<1>4. /\ s \in [1..n - j - 1 -> STRING] /\ \A k \in 1..n - j - 1 : s[k] = a[j + k].name
  <2> HIDE DEF n
  <2>1. \A k \in 1..n - j - 1 : j + k \in 1..n /\ (j + 1) + k - 1 = j + k
    BY <1>1 DEF n
  <2>0. n - (j + 1) = n - j - 1
    BY <1>1
  <2>2. s = [k \in 1..n - j - 1 |-> a[(j + 1) + k - 1].name]
    BY <2>0 DEF NamesFrom, n
  <2>3. QED BY <1>2, <2>1, <2>2
<1>5. n - j \in Nat /\ n - j - 1 \in Nat /\ j \in 1..n
  BY <1>1
<1> HIDE DEF n, s, t
<1>6. t \in Seq(STRING) /\ Len(t) = n - j
  BY <1>3, <1>5, FunctionIsSeq
<1>7. s \in Seq(STRING) /\ Len(s) = n - j - 1
  BY <1>4, <1>5, FunctionIsSeq
<1>8. x \in STRING
  BY <1>2, <1>5
<1> HIDE DEF x
<1>9. <<x>> \in Seq(STRING) /\ Len(<<x>>) = 1 /\ <<x>>[1] = x
  <2>1. \A T : \A y \in T : <<y>> \in Seq(T) /\ Len(<<y>>) = 1 /\ <<y>>[1] = y
    OBVIOUS
  <2>2. QED BY <1>8, <2>1
<1> DEFINE h == <<x>>
<1>10. h \in Seq(STRING) /\ Len(h) = 1 /\ h[1] = x
  BY <1>9
<1> HIDE DEF h
<1>11. /\ h \o s \in Seq(STRING) /\ Len(h \o s) = Len(h) + Len(s)
       /\ \A k \in 1..Len(h) + Len(s) : (h \o s)[k] = IF k <= Len(h) THEN h[k] ELSE s[k - Len(h)]
  BY <1>7, <1>10, ConcatProperties
<1>12. Len(h \o s) = n - j
  BY <1>1, <1>5, <1>7, <1>10, <1>11
<1>13. ASSUME NEW k \in 1..Len(h \o s) PROVE (h \o s)[k] = t[k]
  <2>1. k \in 1..n - j /\ k \in 1..Len(h) + Len(s)
    BY <1>11, <1>12
  <2>2. CASE k = 1
    <3>1. (h \o s)[k] = x
      BY <1>10, <1>11, <2>1, <2>2
    <3>2. t[k] = a[j].name
      <4>1. j + 1 - 1 = j
        OBVIOUS
      <4>2. QED BY <1>3, <2>1, <2>2, <4>1
    <3>3. QED BY <3>1, <3>2 DEF x
  <2>3. CASE k # 1
    <3>1. ~(k <= 1) /\ k - 1 \in 1..n - j - 1 /\ j + (k - 1) = j + k - 1
      BY <1>5, <2>1, <2>3
    <3>2. (h \o s)[k] = s[k - 1]
      BY <1>10, <1>11, <2>1, <3>1
    <3>3. s[k - 1] = a[j + k - 1].name
      BY <1>4, <3>1
    <3>4. QED BY <1>3, <2>1, <3>2, <3>3
  <2>4. QED BY <2>2, <2>3
<1>14. h \o s = t
  BY <1>6, <1>11, <1>12, <1>13, SeqEqual
<1>15. QED
  BY <1>14 DEF h, x, s, t

\* ls lists the names of the files, in order.
LEMMA NamesAreListed ==
    ASSUME NEW a, IsArchive(a), NEW base \in Nat, base % 4 = 0, NEW g, IsNames(g, a, base)
    PROVE  g[base] = NamesFrom(a, 1)
<1> DEFINE n == Len(a)
           o == Offset(a)
           P == {j \in Nat : g[base + o[j]] = NamesFrom(a, j)}
<1>1. /\ n \in Nat \ {0} /\ \A j \in 1..n + 1 : o[j] \in Nat
      /\ \A j \in 1..n : At(a, base, base + o[j]) = j
                         /\ Next_hdr(base + o[j], a[j]) = base + o[j + 1]
      /\ o[1] = 0
  <2>1. o[1] = 0
    BY Offsets, Zenon
  <2>2. QED BY <2>1, Entries, Zenon
<1>2. ASSUME NEW j \in 1..n
      PROVE  g[base + o[j]] = IF j = n THEN <<>> ELSE <<a[j].name>> \o g[base + o[j + 1]]
  <2> DEFINE p == base + o[j]
  <2>1. p \in Nat
    <3> HIDE DEF n, o
    <3>1. o[j] \in Nat
      BY <1>1
    <3>2. QED BY <3>1
  <2>2. At(a, base, p) = j /\ Next_hdr(p, a[j]) = base + o[j + 1]
    BY <1>1
  <2>3. Ends(a, j) <=> j = n
    BY <1>1 DEF Ends, IsArchive
  <2> HIDE DEF p, o, n
  <2>4. g[p] = IF Ends(a, At(a, base, p)) THEN <<>>
               ELSE <<a[At(a, base, p)].name>> \o g[Next_hdr(p, a[At(a, base, p)])]
    BY <2>1 DEF IsNames
  <2>5. g[p] = IF j = n THEN <<>> ELSE <<a[j].name>> \o g[base + o[j + 1]]
    BY <2>2, <2>3, <2>4
  <2>6. QED BY <2>5 DEF p
<1>3. NamesFrom(a, n) = <<>>
  <2>1. NamesFrom(a, n) = [k \in 1..n - n |-> a[n + k - 1].name]
    BY DEF NamesFrom
  <2> HIDE DEF n
  <2>2. 1..n - n = {}
    BY <1>1
  <2> DEFINE s == NamesFrom(a, n)
  <2>3. s \in [1..0 -> STRING]
    BY <2>1, <2>2
  <2> HIDE DEF s
  <2>4. s \in Seq(STRING) /\ Len(s) = 0
    BY <2>3, FunctionIsSeq
  <2>5. QED BY <2>4, EmptySeq DEF s
<1>4. ASSUME NEW j \in 1..n - 1, g[base + o[j + 1]] = NamesFrom(a, j + 1)
      PROVE  g[base + o[j]] = NamesFrom(a, j)
  <2>1. <<a[j].name>> \o NamesFrom(a, j + 1) = NamesFrom(a, j)
    BY NamesGrow
  <2> HIDE DEF n, o
  <2>2. j \in 1..n /\ j # n
    BY <1>1
  <2>3. QED BY <1>2, <1>4, <2>1, <2>2
<1> HIDE DEF n, o
<1>5. n \in P
  <2>1. n \in 1..n /\ n \in Nat
    BY <1>1
  <2>2. g[base + o[n]] = <<>>
    BY <1>2, <2>1
  <2>3. QED BY <1>3, <2>1, <2>2
<1>6. \A j \in 1..n - 1 : j + 1 \in P => j \in P
  BY <1>1, <1>4
<1> HIDE DEF P
<1>7. \A j \in 1..n : j \in P
  <2>1. 1 \in Int /\ n \in Int
    BY <1>1
  <2>2. QED BY <1>5, <1>6, <2>1, Downward
<1>8. 1 \in P /\ base + o[1] = base
  BY <1>1, <1>7
<1>9. QED
  BY <1>8 DEF P

\* ls shows every file of an archive at a multiple of four, and cat and exec
\* get what the first file of a name holds.
LEMMA ArchiveIsRead ==
    ASSUME NEW a, IsArchive(a), NEW base \in Nat, base % 4 = 0
    PROVE  FilesAreSound(a, base)
<1> DEFINE Looks(g) == [p \in Nat |-> At(a, base, p) # 0
                                      /\ (a[At(a, base, p)].name = TRAILER
                                          \/ g[Next_hdr(p, a[At(a, base, p)])])]
           Lists(g) == [p \in Nat |-> IF At(a, base, p) = 0 \/ a[At(a, base, p)].name = TRAILER
                                        THEN <<>>
                                      ELSE <<a[At(a, base, p)].name>>
                                           \o g[Next_hdr(p, a[At(a, base, p)])]]
           complete == CHOOSE g : g = Looks(g)
           names == CHOOSE g : g = Lists(g)
<1>1. cpio_ls(a, base) = IF complete[base] THEN names[base] ELSE <<>>
  BY DEF cpio_ls
<1>2. complete = Looks(complete)
  <2>1. PICK g : IsComplete(g, a, base)
    BY CompleteExists
  <2>2. g = Looks(g)
    BY <2>1 DEF IsComplete
  <2> HIDE DEF Looks
  <2>3. QED BY <2>2
<1>3. names = Lists(names)
  <2>1. PICK g : IsNames(g, a, base)
    BY NamesExist
  <2>2. g = Lists(g)
    BY <2>1 DEF IsNames, Ends
  <2> HIDE DEF Lists
  <2>3. QED BY <2>2
<1> HIDE DEF complete, names
<1>4. IsComplete(complete, a, base) /\ IsNames(names, a, base)
  BY <1>2, <1>3 DEF IsComplete, IsNames, Ends
<1>5. cpio_ls(a, base) = NamesFrom(a, 1)
  BY <1>1, <1>4, ArchiveIsComplete, NamesAreListed
<1>6. NamesFrom(a, 1) = [i \in 1..Len(a) - 1 |-> a[i].name]
  <2>1. \A k \in 1..Len(a) - 1 : 1 + k - 1 = k
    OBVIOUS
  <2>2. QED BY <2>1 DEF NamesFrom
<1>7. ASSUME NEW i \in 1..Len(a) - 1, \A j \in 1..i - 1 : a[j].name # a[i].name
      PROVE  /\ cpio_cat(a, base, a[i].name) = [data |-> base + DataOf(a, i), size |-> a[i].filesize]
             /\ cpio_find(a, base, a[i].name) = [data |-> base + DataOf(a, i), size |-> a[i].filesize]
  <2> DEFINE t == a[i].name
  <2>1. a[i].name = t /\ \A j \in 1..i - 1 : a[j].name # t
    BY <1>7
  <2> HIDE DEF t
  <2>2. cpio_cat(a, base, t) = Content(a, base, i) /\ cpio_find(a, base, t) = Content(a, base, i)
    BY <2>1, CatFinds, ExecFinds
  <2>3. QED BY <2>2 DEF Content, t
<1>8. QED
  BY <1>5, <1>6, <1>7 DEF FilesAreSound

-----------------------------------------------------------------------------
(* The ramdisk of a machine *)

\* Machines whose ramdisk is what cpio writes, at a multiple of four bytes.
Readable ==
    \A m \in Machines :
      /\ IsArchive(m.archive)
      /\ InitrdAt(m.tree) \in Nat /\ InitrdAt(m.tree) % 4 = 0

\* From main on, what the kernel took from the tree stays that of the machine.
LEMMA MachineStaysKnown ==
    Spec => [](Looked => MachineIsKnown)
<1> DEFINE Inv == Looked => MachineIsKnown
<1>1. Init => Inv
  BY DEF Init, StartupInit, Looked
<1>2. ASSUME Inv, [Next]_vars PROVE Inv'
  <2>1. CASE UNCHANGED startupVars
    BY <1>2, <2>1 DEF startupVars, found, Looked, MachineIsKnown, va, InitrdAt
  <2>2. CASE start_kernel
    BY <2>2 DEF start_kernel, Looked
  <2>3. CASE setup_vm
    BY <2>3 DEF setup_vm, Looked
  <2>4. CASE main_devices
    BY <2>4 DEF main_devices, MachineIsKnown, va, InitrdAt
  <2>5. CASE drop_identity_map \/ video_init \/ buddy_init \/ alloc_frame_array \/ alloc_ref_count
    <3>1. Looked /\ UNCHANGED found
      BY <2>5 DEF drop_identity_map, video_init, buddy_init, alloc_frame_array,
                  alloc_ref_count, Looked
    <3>2. QED BY <1>2, <3>1 DEF found, MachineIsKnown, va, InitrdAt
  <2>6. CASE power_cycle
    BY <2>6 DEF power_cycle, switch_off, Looked
  <2>7. QED
    BY <1>2, <2>1, <2>2, <2>3, <2>4, <2>5, <2>6
       DEF Next, Processor, User, StartupStep, vars
<1>3. QED
  BY <1>1, <1>2, PTL DEF Spec

\* The shell finds in the ramdisk what is in it: ls lists every file once and in
\* order, and cat and exec get the content of the first file of a name, whatever
\* the names and sizes are.
THEOREM FilesAreReadable ==
    ASSUME Readable
    PROVE  Spec => []FilesAreFound
<1>1. (Looked => MachineIsKnown) => FilesAreFound
  <2> SUFFICES ASSUME Looked => MachineIsKnown, Looked, cpio_addr # NULL
               PROVE  FilesAreSound(machine.archive, cpio_addr)
    BY DEF FilesAreFound
  <2>1. machine \in Machines /\ cpio_addr = InitrdAt(machine.tree)
    BY DEF MachineIsKnown
  <2>2. IsArchive(machine.archive) /\ cpio_addr \in Nat /\ cpio_addr % 4 = 0
    BY <2>1 DEF Readable
  <2>3. QED BY <2>2, ArchiveIsRead
<1>2. QED
  BY <1>1, MachineStaysKnown, PTL

-----------------------------------------------------------------------------
(* Trees *)

\* What dtc writes: nodes that are closed as often as they are opened, and one
\* FDT_END behind them.
Token == [t : {"begin"}, name : STRING]
         \cup [t : {"prop"}, name : STRING, cells : Seq(0..CELL - 1)]
         \cup [t : {"end", "nop", "stop"}]

IsTree(tree) ==
    /\ tree.magic = TRUE
    /\ tree.tokens \in Seq(Token) /\ tree.tokens # <<>>
    /\ \A i \in 1..Len(tree.tokens) :
         /\ tree.tokens[i].t = "stop" <=> i = Len(tree.tokens)
         /\ tree.tokens[i].t = "end" => Around(tree.tokens)[i] # <<>>

LEMMA AroundSteps ==
    ASSUME NEW tokens \in Seq(Token), tokens # <<>>
    PROVE  LET n == Len(tokens)
               open == Around(tokens)
           IN  /\ n \in Nat \ {0}
               /\ open \in [1..n -> Seq(STRING)] /\ open[1] = <<>>
               /\ \A i \in 1..(n - 1) : open[i + 1] =
                    CASE tokens[i].t = "begin" -> Append(open[i], tokens[i].name)
                      [] tokens[i].t = "end" -> Front(open[i])
                      [] OTHER -> open[i]
<1> DEFINE n == Len(tokens)
           S == Seq(STRING)
           F(i, s) == CASE tokens[i].t = "begin" -> Append(s, tokens[i].name)
                        [] tokens[i].t = "end" -> Front(s)
                        [] OTHER -> s
           step == [i \in 1..n - 1 |-> [s \in S |-> F(i, s)]]
           Body(f) == [i \in 1..n |->
                         IF i = 1 THEN <<>>
                         ELSE CASE tokens[i - 1].t = "begin" -> Append(f[i - 1], tokens[i - 1].name)
                                [] tokens[i - 1].t = "end" -> Front(f[i - 1])
                                [] OTHER -> f[i - 1]]
<1>1. n \in Nat \ {0} /\ n - 1 \in Nat
  BY EmptySeq, LenProperties
<1>2. \A i \in 1..n : tokens[i] \in Token
  BY ElementOfSeq
<1>3. \A i \in 1..n, s \in S : F(i, s) \in S
  <2> SUFFICES ASSUME NEW i \in 1..n, NEW s \in S PROVE F(i, s) \in S
    OBVIOUS
  <2>1. tokens[i].t = "begin" => tokens[i].name \in STRING
    BY <1>2 DEF Token
  <2>2. tokens[i].t = "begin" => Append(s, tokens[i].name) \in S
    BY <2>1
  <2>3. Front(s) \in S
    BY FrontIsSeq
  <2>4. QED BY <2>2, <2>3
<1>4. step \in [1..n - 1 -> [S -> S]] /\ <<>> \in S
  <2> HIDE DEF F, S
  <2>1. \A i \in 1..n - 1 : i \in 1..n
    BY <1>1
  <2>2. step \in [1..n - 1 -> [S -> S]]
    BY <1>3, <2>1
  <2>3. <<>> \in S
    BY DEF S
  <2>4. QED BY <2>2, <2>3
<1>5. \A i \in 1..n - 1, s \in S : step[i][s] = F(i, s)
  <2> HIDE DEF F, S
  <2>1. QED OBVIOUS
<1> HIDE DEF step
<1>6. ASSUME NEW f, f \in [1..n -> S]
      PROVE  IsRun(f, <<>>, step, n - 1) <=> f = Body(f)
  <2>1. \A i \in 1..n : i # 1 => i - 1 \in 1..n - 1 /\ f[i - 1] \in S
    BY <1>1, <1>6
  <2>2. \A i \in 1..n : i # 1 => step[i - 1][f[i - 1]] = F(i - 1, f[i - 1])
    <3> HIDE DEF F
    <3>1. QED BY <1>5, <2>1
  <2>3. [i \in 1..n |-> IF i = 1 THEN <<>> ELSE step[i - 1][f[i - 1]]]
        = [i \in 1..n |-> IF i = 1 THEN <<>> ELSE F(i - 1, f[i - 1])]
    <3> HIDE DEF F
    <3>1. QED BY <2>2
  <2>4. Body(f) = [i \in 1..n |-> IF i = 1 THEN <<>> ELSE F(i - 1, f[i - 1])]
    OBVIOUS
  <2>5. (n - 1) + 1 = n
    BY <1>1
  <2> HIDE DEF F, Body
  <2>6. QED BY <2>3, <2>4, <2>5 DEF IsRun
<1>7. PICK f \in [1..n -> S] : f = Body(f)
  <2> HIDE DEF S, Body, n
  <2>1. n - 1 + 1 = n
    BY <1>1
  <2>2. PICK f \in [1..n - 1 + 1 -> S] : IsRun(f, <<>>, step, n - 1)
    BY <1>1, <1>4, RunExists
  <2>3. QED BY <1>6, <2>1, <2>2
<1>8. Around(tokens) = CHOOSE g : g = Body(g)
  BY DEF Around
<1> DEFINE open == Around(tokens)
<1>9. open = Body(open)
  <2> HIDE DEF Body
  <2>1. QED BY <1>7, <1>8
<1> HIDE DEF open
<1>10. ASSUME NEW g, g = Body(g) PROVE g \in [1..n -> S]
  <2> DEFINE P == {i \in Nat : g[i] \in S}
  <2>1. \A i \in 1..n : g[i] = IF i = 1 THEN <<>> ELSE F(i - 1, g[i - 1])
    BY <1>10
  <2>2. 1 \in P
    <3> HIDE DEF F
    <3>1. 1 \in 1..n
      BY <1>1
    <3>2. g[1] = <<>>
      BY <2>1, <3>1
    <3>3. QED BY <1>4, <3>2
  <2>3. ASSUME NEW i \in 1..(n - 1), i \in P PROVE i + 1 \in P
    <3> HIDE DEF F
    <3>1. i + 1 \in 1..n /\ i + 1 # 1 /\ (i + 1) - 1 = i /\ i \in 1..n /\ i + 1 \in Nat
      BY <1>1
    <3>2. g[i + 1] = F(i, g[i])
      BY <2>1, <3>1
    <3>3. QED BY <1>3, <2>3, <3>1, <3>2
  <2>4. \A i \in 1..n : i \in P
    <3> HIDE DEF P
    <3>1. 1 \in Int /\ n \in Int
      BY <1>1
    <3>2. QED BY <2>2, <2>3, <3>1, Upward
  <2>5. DOMAIN g = 1..n /\ g = [i \in 1..n |-> g[i]]
    BY <1>10
  <2>6. QED BY <2>4, <2>5
<1>11. open \in [1..n -> S]
  <2> HIDE DEF Body, S, n
  <2>1. QED BY <1>9, <1>10
<1>12. \A i \in 1..n : open[i] = IF i = 1 THEN <<>> ELSE F(i - 1, open[i - 1])
  BY <1>9
<1>13. open[1] = <<>>
  <2> HIDE DEF F
  <2>1. 1 \in 1..n
    BY <1>1
  <2>2. QED BY <1>12, <2>1
<1>14. ASSUME NEW i \in 1..(n - 1) PROVE open[i + 1] = F(i, open[i])
  <2> HIDE DEF F
  <2>1. i + 1 \in 1..n /\ i + 1 # 1 /\ (i + 1) - 1 = i
    BY <1>1
  <2>2. QED BY <1>12, <2>1
<1>15. QED
  BY <1>1, <1>11, <1>13, <1>14 DEF open

\* A chain of names goes through a node of the path's depth and last name.
Inside(s, path) == Len(s) > Len(path) /\ s[Len(path) + 1] = path[Len(path)]
MatchedIn(s, path) == IF Inside(s, path) THEN Len(path) ELSE -1

LEMMA Enters ==
    ASSUME NEW path, Len(path) \in Nat \ {0}, NEW S, NEW s \in Seq(S), NEW name \in S
    PROVE  MatchedIn(Append(s, name), path) =
             IF MatchedIn(s, path) < 0 /\ Reaches(Len(s), name, path) THEN Len(s)
             ELSE MatchedIn(s, path)
<1> DEFINE r == Append(s, name)
           k == Len(path)
           n == Len(s)
<1>1. /\ n \in Nat /\ Len(r) = n + 1 /\ r[n + 1] = name
      /\ \A i \in 1..n : r[i] = s[i]
  BY AppendProperties, LenProperties
<1> HIDE DEF r
<1>2. k \in Nat \ {0}
  OBVIOUS
<1> HIDE DEF n, k
<1>3. Reaches(n, name, path) <=> n = k /\ name = path[k]
  <2>1. Reaches(n, name, path) <=> n = k /\ (n > 0 => name = path[n])
    BY DEF Reaches, node_name_match, k
  <2>2. QED BY <1>2, <2>1
<1>4. Inside(s, path) <=> n > k /\ s[k + 1] = path[k]
  BY DEF Inside, n, k
<1>5. Inside(r, path) <=> n + 1 > k /\ r[k + 1] = path[k]
  BY <1>1 DEF Inside, k
<1>6. CASE n > k
  <2>1. k + 1 \in 1..n
    BY <1>1, <1>2, <1>6
  <2>2. Inside(r, path) <=> Inside(s, path)
    BY <1>1, <1>2, <1>4, <1>5, <1>6, <2>1
  <2>3. ~Reaches(n, name, path)
    BY <1>1, <1>2, <1>3, <1>6
  <2>4. QED BY <2>2, <2>3 DEF MatchedIn, r, n
<1>7. CASE n = k
  <2>1. ~Inside(s, path) /\ (Inside(r, path) <=> Reaches(n, name, path))
    BY <1>1, <1>2, <1>3, <1>4, <1>5, <1>7
  <2>2. MatchedIn(s, path) = -1 /\ -1 < 0
    BY <2>1 DEF MatchedIn
  <2>3. MatchedIn(r, path) = IF Reaches(n, name, path) THEN n ELSE -1
    BY <1>7, <2>1 DEF MatchedIn, k
  <2>4. QED BY <2>2, <2>3 DEF r, n
<1>8. CASE n < k
  <2>1. ~Inside(s, path) /\ ~Inside(r, path) /\ ~Reaches(n, name, path)
    BY <1>1, <1>2, <1>3, <1>4, <1>5, <1>8
  <2>2. QED BY <2>1 DEF MatchedIn, r, n
<1>9. QED
  BY <1>1, <1>2, <1>6, <1>7, <1>8

LEMMA Leaves ==
    ASSUME NEW path, Len(path) \in Nat \ {0}, NEW S, NEW s \in Seq(S), s # <<>>
    PROVE  MatchedIn(Front(s), path) = Leave(Len(s) - 1, MatchedIn(s, path))
<1> DEFINE r == Front(s)
           k == Len(path)
           n == Len(s)
<1>1. /\ n \in Nat \ {0} /\ Len(r) = n - 1
      /\ \A i \in 1..(n - 1) : r[i] = s[i]
  BY EmptySeq, LenProperties, FrontElements
<1> HIDE DEF r
<1>2. k \in Nat \ {0}
  OBVIOUS
<1> HIDE DEF n, k
<1>4. Inside(s, path) <=> n > k /\ s[k + 1] = path[k]
  BY DEF Inside, n, k
<1>5. Inside(r, path) <=> n - 1 > k /\ r[k + 1] = path[k]
  BY <1>1 DEF Inside, k
<1>6. CASE n - 1 > k
  <2>1. k + 1 \in 1..(n - 1)
    BY <1>1, <1>2, <1>6
  <2>2. Inside(r, path) <=> Inside(s, path)
    BY <1>1, <1>2, <1>4, <1>5, <1>6, <2>1
  <2>3. n - 1 # k /\ n - 1 # -1
    BY <1>1, <1>2, <1>6
  <2>4. MatchedIn(r, path) = MatchedIn(s, path) /\ MatchedIn(s, path) \in {k, -1}
    BY <2>2 DEF MatchedIn, k
  <2>5. QED BY <2>3, <2>4 DEF Leave, r, n
<1>7. CASE n - 1 <= k
  <2>1. ~Inside(r, path)
    BY <1>1, <1>2, <1>5, <1>7
  <2>2. Inside(s, path) => n - 1 = k
    BY <1>1, <1>2, <1>4, <1>7
  <2>3. MatchedIn(r, path) = -1
    BY <2>1 DEF MatchedIn
  <2>4. Leave(n - 1, MatchedIn(s, path)) = -1
    BY <2>2 DEF MatchedIn, Leave, k
  <2>5. QED BY <2>3, <2>4 DEF r, n
<1>8. QED
  BY <1>1, <1>2, <1>6, <1>7

\* Where the scan is when it comes to token i.
PlaceOf(tree, path, i) ==
    [next |-> i, depth |-> Len(Around(tree.tokens)[i]) - 1,
     matched |-> MatchedIn(Around(tree.tokens)[i], path)]

LEMMA PlacesFollow ==
    ASSUME NEW tree, IsTree(tree), NEW path, Len(path) \in Nat \ {0},
           NEW i \in 1..(Len(tree.tokens) - 1)
    PROVE  LET at == PlaceOf(tree, path, i)
               tok == tree.tokens[i]
           IN  /\ at \in Places /\ PlaceOf(tree, path, i + 1) \in Places
               /\ Advance(at, tok, Reaches(at.depth + 1, tok.name, path))
                    = PlaceOf(tree, path, i + 1)
<1> DEFINE tokens == tree.tokens
           n == Len(tokens)
           open == Around(tokens)
           tok == tokens[i]
           s == open[i]
           r == open[i + 1]
           at == PlaceOf(tree, path, i)
           to == PlaceOf(tree, path, i + 1)
           hit == Reaches(at.depth + 1, tok.name, path)
<1>1. /\ tokens \in Seq(Token) /\ tokens # <<>>
      /\ n \in Nat \ {0} /\ i \in 1..n /\ i + 1 \in 1..n
  BY AroundSteps DEF IsTree
<1>2. /\ s \in Seq(STRING) /\ r \in Seq(STRING)
      /\ r = CASE tok.t = "begin" -> Append(s, tok.name)
               [] tok.t = "end" -> Front(s)
               [] OTHER -> s
  BY <1>1, AroundSteps
<1>3. /\ tok \in Token
      /\ tok.t = "end" => s # <<>>
  BY <1>1, ElementOfSeq DEF IsTree
<1>4. tok.t = "begin" => tok.name \in STRING
  BY <1>3 DEF Token
<1> DEFINE a == Len(s) - 1
           m == MatchedIn(s, path)
<1>5. Len(s) \in Nat /\ Len(r) \in Nat
  BY <1>2, LenProperties
<1>6. /\ at = [next |-> i, depth |-> a, matched |-> m]
      /\ to = [next |-> i + 1, depth |-> Len(r) - 1, matched |-> MatchedIn(r, path)]
  BY DEF PlaceOf
<1>7. m \in Int /\ MatchedIn(r, path) \in Int /\ a \in Int /\ i \in Nat
      /\ a + 1 = Len(s) /\ Len(s) - 1 = a
  BY <1>5 DEF MatchedIn
<1> HIDE DEF tok, s, r, at, to, m, a
<1>8. at \in Places /\ to \in Places
  BY <1>5, <1>6, <1>7 DEF Places
<1>9. at.next = i /\ at.depth = a /\ at.matched = m /\ (hit <=> Reaches(Len(s), tok.name, path))
  BY <1>6, <1>7
<1> HIDE DEF hit
<1> DEFINE v == Advance(at, tok, hit)
<1>10. /\ tok.t = "begin" => v = [next |-> i + 1, depth |-> a + 1,
                                 matched |-> IF m < 0 /\ hit THEN a + 1 ELSE m]
       /\ tok.t = "end" => v = [next |-> i + 1, depth |-> a - 1, matched |-> Leave(a, m)]
       /\ tok.t # "begin" /\ tok.t # "end" => v = [next |-> i + 1, depth |-> a, matched |-> m]
  BY <1>9 DEF Advance
<1> HIDE DEF v
<1>11. /\ tok.t = "begin" => r = Append(s, tok.name)
       /\ tok.t = "end" => r = Front(s)
       /\ tok.t # "begin" /\ tok.t # "end" => r = s
  BY <1>2
<1> SUFFICES v = to
  BY <1>8 DEF at, to, hit, tok, v
<1>12. CASE tok.t = "begin"
  <2>1. r = Append(s, tok.name) /\ Len(r) = Len(s) + 1
    BY <1>2, <1>4, <1>11, <1>12, AppendProperties
  <2>2. MatchedIn(r, path) = IF m < 0 /\ Reaches(Len(s), tok.name, path) THEN Len(s) ELSE m
    BY <1>2, <1>4, <1>12, <2>1, Enters DEF m
  <2>3. MatchedIn(r, path) = IF m < 0 /\ hit THEN a + 1 ELSE m
    BY <1>7, <1>9, <2>2
  <2>4. Len(r) - 1 = a + 1
    BY <1>5, <1>7, <2>1
  <2>5. QED BY <1>6, <1>10, <1>12, <2>3, <2>4
<1>13. CASE tok.t = "end"
  <2>1. s # <<>> /\ r = Front(s)
    BY <1>3, <1>11, <1>13
  <2>2. Len(r) = Len(s) - 1
    BY <1>2, <2>1, FrontElements
  <2>3. MatchedIn(r, path) = Leave(a, m)
    <3>1. MatchedIn(Front(s), path) = Leave(Len(s) - 1, MatchedIn(s, path))
      BY <1>2, <2>1, Leaves
    <3>2. QED BY <2>1, <3>1 DEF a, m
  <2>4. Len(r) - 1 = a - 1
    BY <1>5, <1>7, <2>2
  <2>5. QED BY <1>6, <1>10, <1>13, <2>3, <2>4
<1>14. CASE tok.t # "begin" /\ tok.t # "end"
  <2>1. r = s
    BY <1>11, <1>14
  <2>2. Len(r) - 1 = a /\ MatchedIn(r, path) = m
    BY <1>7, <2>1 DEF m
  <2>3. QED BY <1>6, <1>10, <1>14, <2>2
<1>15. QED
  BY <1>12, <1>13, <1>14

\* The scan's equation, as a condition on a function.
IsSearch(g, tree, path, name) ==
    g = [at \in Places |->
           IF Stops(tree.tokens, at) THEN <<>>
           ELSE IF tree.tokens[at.next].t = "prop" /\ at.matched >= 0
                   /\ tree.tokens[at.next].name = name
             THEN tree.tokens[at.next].cells
           ELSE g[Advance(at, tree.tokens[at.next],
                          Reaches(at.depth + 1, tree.tokens[at.next].name, path))]]

LEMMA SearchExists ==
    ASSUME NEW tree, IsTree(tree), NEW path, NEW name
    PROVE  \E g : IsSearch(g, tree, path, name)
<1> DEFINE tokens == tree.tokens
           tok(at) == tokens[at.next]
           over(at) == Stops(tokens, at)
           hits(at) == tok(at).t = "prop" /\ at.matched >= 0 /\ tok(at).name = name
           go(at) == Advance(at, tok(at), Reaches(at.depth + 1, tok(at).name, path))
           stop == {at \in Places : over(at) \/ hits(at)}
           val == [at \in Places |-> IF over(at) THEN <<>> ELSE tok(at).cells]
           next == [at \in Places |-> go(at)]
           rank == [at \in Places |-> at.next]
           S == {val[at] : at \in Places}
           cons == [at \in Places |-> [x \in S |-> x]]
           N == Len(tokens) + 1
<1>1. Len(tokens) \in Nat
  BY LenProperties DEF IsTree
<1>2. ASSUME NEW at \in Places
      PROVE  go(at) \in Places /\ go(at).next = at.next + 1 /\ at.next \in Nat
  <2>1. at.next \in Nat /\ at.depth \in Int /\ at.matched \in Int
    BY DEF Places
  <2> DEFINE t == tok(at)
             hit == Reaches(at.depth + 1, tok(at).name, path)
             v == Advance(at, t, hit)
  <2>2. v = IF t.t = "begin" THEN [next |-> at.next + 1, depth |-> at.depth + 1,
                                   matched |-> IF at.matched < 0 /\ hit THEN at.depth + 1 ELSE at.matched]
            ELSE IF t.t = "end" THEN [next |-> at.next + 1, depth |-> at.depth - 1,
                                      matched |-> Leave(at.depth, at.matched)]
            ELSE [next |-> at.next + 1, depth |-> at.depth, matched |-> at.matched]
    BY DEF Advance
  <2> HIDE DEF v, t, hit
  <2>3. Leave(at.depth, at.matched) \in Int
    BY <2>1 DEF Leave
  <2>4. v \in Places /\ v.next = at.next + 1
    BY <2>1, <2>2, <2>3 DEF Places
  <2>5. QED BY <2>1, <2>4 DEF v, t, hit
<1>3. \A at \in Places : over(at) <=> at.next > Len(tokens) \/ tok(at).t = "stop"
  BY DEF Stops
<1> HIDE DEF go, over, hits
<1>4. Rises(Places, rank, N, stop, next)
  <2>1. N \in Nat /\ stop \in SUBSET Places
    BY <1>1
  <2>2. rank \in [Places -> Nat] /\ next \in [Places -> Places]
    BY <1>2
  <2>3. \A at \in Places : rank[at] = at.next /\ next[at] = go(at) /\ at.next \in Nat
    BY <1>2
  <2>4. ASSUME NEW at \in Places, rank[at] >= N PROVE at \in stop
    BY <1>1, <1>3, <2>3, <2>4
  <2>5. ASSUME NEW at \in Places PROVE rank[next[at]] > rank[at]
    BY <1>2, <2>3
  <2> HIDE DEF rank, next, stop, N
  <2>6. QED BY <2>1, <2>2, <2>4, <2>5 DEF Rises
<1>5. val \in [Places -> S] /\ cons \in [Places -> [S -> S]]
  OBVIOUS
<1>6. /\ \A at \in Places, x \in S : cons[at][x] = x
      /\ \A at \in Places : next[at] = go(at) /\ go(at) \in Places
      /\ \A at \in Places : val[at] = IF over(at) THEN <<>> ELSE tok(at).cells
      /\ \A at \in Places : at \in stop <=> over(at) \/ hits(at)
  BY <1>2
<1> HIDE DEF S, val, cons, next, rank, stop, N
<1>7. PICK f \in [Places -> S] : IsFoldOver(f, Places, stop, val, next, cons)
  BY <1>4, <1>5, FoldOverExists DEF HasFoldOver
<1>8. f = [at \in Places |-> IF at \in stop THEN val[at] ELSE cons[at][f[next[at]]]]
  BY <1>7 DEF IsFoldOver
<1>9. \A at \in Places : cons[at][f[next[at]]] = f[go(at)]
  BY <1>6
<1>10. \A at \in Places : (IF at \in stop THEN val[at] ELSE cons[at][f[next[at]]])
                          = IF over(at) THEN <<>> ELSE IF hits(at) THEN tok(at).cells ELSE f[go(at)]
  BY <1>6, <1>9
<1>11. f = [at \in Places |-> IF over(at) THEN <<>> ELSE IF hits(at) THEN tok(at).cells ELSE f[go(at)]]
  BY <1>8, <1>10
<1>12. IsSearch(f, tree, path, name)
  BY <1>11, Zenon DEF IsSearch, over, hits, go
<1>13. QED
  BY <1>12

\* A property of the name that the scan comes across in a node it takes for the
\* path's.
Matches(tree, path, name, i) ==
    /\ tree.tokens[i].t = "prop" /\ tree.tokens[i].name = name
    /\ Inside(Around(tree.tokens)[i], path)

\* v is what the first of them from token i on has.
IsFirst(tree, path, name, i, v) ==
    \/ \E j \in i..Len(tree.tokens) :
         /\ Matches(tree, path, name, j) /\ v = tree.tokens[j].cells
         /\ \A k \in i..(j - 1) : ~Matches(tree, path, name, k)
    \/ v = <<>> /\ \A k \in i..Len(tree.tokens) : ~Matches(tree, path, name, k)

LEMMA SearchFinds ==
    ASSUME NEW tree, IsTree(tree), NEW path, Len(path) \in Nat \ {0}, NEW name,
           NEW g, IsSearch(g, tree, path, name)
    PROVE  IsFirst(tree, path, name, 1, g[Beginning])
<1> DEFINE tokens == tree.tokens
           n == Len(tokens)
           place(i) == PlaceOf(tree, path, i)
           hit(i) == Matches(tree, path, name, i)
           Q == {i \in Nat : IsFirst(tree, path, name, i, g[place(i)])}
<1>1. n \in Nat \ {0}
  BY AroundSteps DEF IsTree
<1>2. ASSUME NEW i \in 1..n
      PROVE  /\ place(i) \in Places /\ place(i).next = i
             /\ Stops(tokens, place(i)) <=> i = n
             /\ place(i).matched >= 0 <=> Inside(Around(tokens)[i], path)
  <2>1. Around(tokens)[i] \in Seq(STRING)
    BY AroundSteps DEF IsTree
  <2>2. Len(Around(tokens)[i]) \in Nat
    BY <2>1, LenProperties
  <2>3. place(i).next = i /\ place(i).matched = MatchedIn(Around(tokens)[i], path)
    BY DEF PlaceOf
  <2>4. place(i) \in Places
    BY <1>1, <2>2 DEF PlaceOf, Places, MatchedIn
  <2>5. Stops(tokens, place(i)) <=> i > n \/ tokens[i].t = "stop"
    BY <2>3 DEF Stops
  <2>6. tokens[i].t = "stop" <=> i = n
    BY DEF IsTree
  <2>7. place(i).matched >= 0 <=> Inside(Around(tokens)[i], path)
    BY <2>3 DEF MatchedIn
  <2>8. QED BY <1>1, <2>3, <2>4, <2>5, <2>6, <2>7
<1>3. ASSUME NEW i \in 1..(n - 1)
      PROVE  g[place(i)] = IF hit(i) THEN tokens[i].cells ELSE g[place(i + 1)]
  <2>1. i \in 1..n /\ i # n
    BY <1>1
  <2> DEFINE at == place(i)
             to == Advance(at, tokens[i], Reaches(at.depth + 1, tokens[i].name, path))
  <2>2. at \in Places /\ at.next = i /\ ~Stops(tokens, at)
        /\ (at.matched >= 0 <=> Inside(Around(tokens)[i], path))
    BY <1>2, <2>1
  <2>3. to = place(i + 1)
    BY PlacesFollow
  <2> HIDE DEF place
  <2>4. g[at] = IF tokens[i].t = "prop" /\ at.matched >= 0 /\ tokens[i].name = name
                  THEN tokens[i].cells ELSE g[to]
    BY <2>2 DEF IsSearch
  <2>5. hit(i) <=> tokens[i].t = "prop" /\ at.matched >= 0 /\ tokens[i].name = name
    BY <2>2 DEF Matches
  <2> HIDE DEF at, to, hit
  <2>6. g[at] = IF hit(i) THEN tokens[i].cells ELSE g[place(i + 1)]
    BY <2>3, <2>4, <2>5
  <2>7. QED BY <2>6 DEF at
<1>4. g[place(n)] = <<>> /\ ~hit(n)
  <2>1. n \in 1..n
    BY <1>1
  <2>2. place(n) \in Places /\ Stops(tokens, place(n))
    BY <1>2, <2>1
  <2> HIDE DEF place
  <2>3. g[place(n)] = <<>>
    BY <2>2 DEF IsSearch
  <2>4. tokens[n].t = "stop"
    BY <2>1 DEF IsTree
  <2>5. QED BY <2>3, <2>4 DEF Matches
<1>5. n \in Q
  <2> HIDE DEF hit, place
  <2>1. \A k \in n..n : ~hit(k)
    BY <1>1, <1>4
  <2>2. QED BY <1>1, <1>4, <2>1 DEF IsFirst, hit
<1>6. ASSUME NEW i \in 1..(n - 1), i + 1 \in Q PROVE i \in Q
  <2> DEFINE v == g[place(i + 1)]
             w == g[place(i)]
  <2>1. IsFirst(tree, path, name, i + 1, v)
    BY <1>6
  <2>2. w = IF hit(i) THEN tokens[i].cells ELSE v
    BY <1>3
  <2> HIDE DEF place, v, w
  <2>3. /\ i \in Nat /\ i \in i..n /\ \A k \in i..n : k = i \/ k \in (i + 1)..n
        /\ \A j : \A k \in i..(j - 1) : j \in (i + 1)..n => k = i \/ k \in (i + 1)..(j - 1)
        /\ \A k \in i..(i - 1) : FALSE
        /\ \A j \in (i + 1)..n : j \in i..n
    BY <1>1
  <2>4. IsFirst(tree, path, name, i, w)
    <3>1. CASE hit(i)
      <4>1. w = tokens[i].cells
        BY <2>2, <3>1
      <4>2. QED BY <2>3, <3>1, <4>1 DEF IsFirst
    <3>2. CASE ~hit(i)
      <4>1. w = v
        BY <2>2, <3>2
      <4>2. CASE \E j \in i + 1..n : /\ hit(j) /\ v = tokens[j].cells
                                     /\ \A k \in i + 1..(j - 1) : ~hit(k)
        <5>1. PICK j \in i + 1..n : /\ hit(j) /\ v = tokens[j].cells
                                    /\ \A k \in i + 1..(j - 1) : ~hit(k)
          BY <4>2
        <5>2. j \in i..n /\ \A k \in i..(j - 1) : ~hit(k)
          <6> HIDE DEF hit
          <6>1. QED BY <2>3, <3>2, <5>1
        <5>3. QED BY <4>1, <5>1, <5>2 DEF IsFirst
      <4>3. CASE v = <<>> /\ \A k \in i + 1..n : ~hit(k)
        <5>1. \A k \in i..n : ~hit(k)
          <6> HIDE DEF hit
          <6>1. QED BY <2>3, <3>2, <4>3
        <5>2. QED BY <4>1, <4>3, <5>1 DEF IsFirst
      <4>4. QED BY <2>1, <4>2, <4>3 DEF IsFirst
    <3>3. QED BY <3>1, <3>2
  <2>5. QED BY <2>3, <2>4 DEF w
<1>7. 1 \in Q
  <2> HIDE DEF Q
  <2>1. 1 \in Int /\ n \in Int /\ 1 \in 1..n
    BY <1>1
  <2>2. \A i \in 1..n : i \in Q
    BY <1>5, <1>6, <2>1, Downward
  <2>3. QED BY <2>1, <2>2
<1>8. place(1) = Beginning
  <2>1. Around(tokens)[1] = <<>> /\ Len(<<>>) = 0
    BY AroundSteps DEF IsTree
  <2>2. ~Inside(Around(tokens)[1], path)
    BY <2>1 DEF Inside
  <2>3. Len(Around(tokens)[1]) - 1 = -1
    BY <2>1
  <2>4. QED BY <2>2, <2>3 DEF PlaceOf, MatchedIn, Beginning
<1>9. QED
  BY <1>7, <1>8

\* Name and depth tell a node's path: what the scan takes for the property comes
\* with one that is directly in the path's node, or behind it.
Direct(tree, path, name, i) ==
    /\ tree.tokens[i].t = "prop" /\ tree.tokens[i].name = name
    /\ Around(tree.tokens)[i] = <<ROOT>> \o path

Told(tree, path, name) ==
    \A i \in 1..Len(tree.tokens) :
      Matches(tree, path, name, i) => \E j \in 1..i : Direct(tree, path, name, j)

\* Then the scan finds what the path means.
LEMMA PropertyIsFound ==
    ASSUME NEW tree, IsTree(tree), NEW S, ROOT \in S, NEW path \in Seq(S), path # <<>>,
           NEW name, Told(tree, path, name)
    PROVE  dtb_getprop(tree, path, name) = Lookup(tree, path, name)
<1> DEFINE tokens == tree.tokens
           n == Len(tokens)
           k == Len(path)
           at == {i \in DOMAIN tokens : Direct(tree, path, name, i)}
           Body(g) == [p \in Places |->
             IF Stops(tokens, p) THEN <<>>
             ELSE IF tokens[p.next].t = "prop" /\ p.matched >= 0 /\ tokens[p.next].name = name
               THEN tokens[p.next].cells
             ELSE g[Advance(p, tokens[p.next], Reaches(p.depth + 1, tokens[p.next].name, path))]]
           g == CHOOSE g : g = Body(g)
<1>1. n \in Nat \ {0} /\ DOMAIN tokens = 1..n /\ k \in Nat \ {0}
  BY AroundSteps, EmptySeq, LenProperties DEF IsTree
<1>2. dtb_getprop(tree, path, name) = g[Beginning]
  BY DEF dtb_getprop, IsTree
<1>3. IsSearch(g, tree, path, name)
  <2>1. \A h : IsSearch(h, tree, path, name) <=> h = Body(h)
    BY DEF IsSearch
  <2>2. \E h : h = Body(h)
    BY <2>1, SearchExists
  <2> HIDE DEF Body
  <2>3. g = Body(g)
    BY <2>2
  <2>4. QED BY <2>1, <2>3
<1> HIDE DEF g, k, n
<1>0. n \in Nat /\ k \in Nat /\ k > 0
  BY <1>1
<1> DEFINE v == g[Beginning]
<1>4. IsFirst(tree, path, name, 1, v)
  BY <1>1, <1>3, SearchFinds DEF k
<1> HIDE DEF v
<1>5. ASSUME NEW i \in 1..n, Direct(tree, path, name, i) PROVE Matches(tree, path, name, i)
  <2> DEFINE root == <<ROOT>>
             s == root \o path
  <2>1. root \in Seq(S) /\ Len(root) = 1
    OBVIOUS
  <2> HIDE DEF root
  <2>2. Len(s) = 1 + k /\ s[1 + k] = path[k]
    <3>1. /\ Len(root \o path) = Len(root) + Len(path)
          /\ \A j \in 1..Len(root) + Len(path) :
               (root \o path)[j] = IF j <= Len(root) THEN root[j] ELSE path[j - Len(root)]
      BY <2>1, ConcatProperties
    <3>2. Len(root) = 1 /\ Len(path) = k
      BY <2>1 DEF k
    <3>4. 1 + k \in 1..Len(root) + Len(path) /\ ~(1 + k <= Len(root)) /\ 1 + k - Len(root) = k
      BY <1>0, <3>2
    <3>3. QED BY <3>1, <3>2, <3>4
  <2>3. Around(tokens)[i] = s
    BY <1>5 DEF Direct, root
  <2> HIDE DEF s
  <2>4. Inside(s, path)
    <3>1. Len(s) > k /\ k + 1 = 1 + k
      BY <1>0, <2>2
    <3>2. QED BY <2>2, <3>1 DEF Inside, k
  <2>5. QED BY <1>5, <2>3, <2>4 DEF Direct, Matches
<1>6. CASE at = {}
  <2>1. Lookup(tree, path, name) = <<>>
    BY <1>6 DEF Lookup, Direct
  <2>2. \A i \in 1..n : ~Direct(tree, path, name, i)
    BY <1>1, <1>6
  <2>3. \A i \in 1..n : ~Matches(tree, path, name, i)
    <3> SUFFICES ASSUME NEW i \in 1..n, Matches(tree, path, name, i) PROVE FALSE
      OBVIOUS
    <3>1. PICK j \in 1..i : Direct(tree, path, name, j)
      BY DEF Told, n
    <3>2. j \in 1..n
      BY <1>0
    <3>3. QED BY <2>2, <3>1, <3>2
  <2>4. v = <<>>
    BY <1>4, <2>3 DEF IsFirst, n
  <2>5. QED BY <1>2, <2>1, <2>4 DEF v
<1>7. CASE at # {}
  <2>1. PICK i \in 1..n : Direct(tree, path, name, i)
    BY <1>1, <1>7
  <2>2. Matches(tree, path, name, i)
    BY <1>5, <2>1
  <2>3. PICK j \in 1..n : /\ Matches(tree, path, name, j) /\ v = tokens[j].cells
                          /\ \A l \in 1..(j - 1) : ~Matches(tree, path, name, l)
    BY <1>4, <2>2 DEF IsFirst, n
  <2>4. \A l \in 1..n : Matches(tree, path, name, l) => j <= l
    <3> SUFFICES ASSUME NEW l \in 1..n, Matches(tree, path, name, l), ~(j <= l) PROVE FALSE
      OBVIOUS
    <3>1. l \in 1..(j - 1)
      BY <1>0
    <3>2. QED BY <2>3, <3>1
  <2>5. PICK m \in 1..j : Direct(tree, path, name, m)
    BY <2>3 DEF Told, n
  <2>6. m = j
    <3>1. m \in 1..n
      BY <1>0
    <3>2. Matches(tree, path, name, m)
      BY <1>5, <2>5, <3>1
    <3>3. j <= m
      BY <2>4, <3>1, <3>2
    <3>4. QED BY <1>0, <3>1, <3>3
  <2>7. j \in at /\ j \in Nat /\ \A l \in at : j <= l /\ l \in Nat
    <3>1. j \in at
      BY <1>1, <2>5, <2>6
    <3>2. \A l \in at : l \in 1..n /\ Direct(tree, path, name, l)
      BY <1>1
    <3>3. \A l \in at : j <= l
      BY <1>5, <2>4, <3>2
    <3>4. QED BY <1>0, <3>1, <3>2, <3>3
  <2>8. Lookup(tree, path, name) = tokens[Min(at)].cells
    BY <1>7 DEF Lookup, Direct
  <2> HIDE DEF at
  <2>9. Min(at) = j
    <3>1. \A x \in at : (\A y \in at : x <= y) => x = j
      <4> SUFFICES ASSUME NEW x \in at, \A y \in at : x <= y PROVE x = j
        OBVIOUS
      <4>1. x <= j /\ j <= x /\ x \in Nat /\ j \in Nat
        BY <2>7
      <4>2. QED BY <4>1
    <3>2. QED BY <2>7, <3>1 DEF Min
  <2>10. QED BY <1>2, <2>3, <2>8, <2>9 DEF v
<1>8. QED
  BY <1>6, <1>7

-----------------------------------------------------------------------------
(* What the kernel takes from the tree *)

\* These are the paths' meaning, as the tree is written.
Console(tree) ==
    LET serial == Lookup(tree, <<"soc", "serial">>, "reg")
    IN  Address(IF serial # <<>> THEN serial ELSE Lookup(tree, <<"soc", "uart">>, "reg"))
Initrd(tree) == Lookup(tree, <<"chosen">>, "linux,initrd-start")
Memory(tree) ==
    LET memory == Region(Lookup(tree, <<"memory">>, "reg"))
    IN  IF memory.size = 0 THEN <<va(RAM_BASE), RAM_LIMIT \div PAGE_SIZE>>
        ELSE <<va(memory.start), Min({memory.size, RAM_LIMIT}) \div PAGE_SIZE>>

\* Memory the kernel maps.
Lies(a, size) ==
    /\ a \in Nat /\ size \in Nat
    /\ RAM_BASE <= a /\ a + size <= RAM_BASE + RAM_LIMIT

\* Machines whose tree is one, tells what the kernel asks it, and gives no
\* address 0; their console is on a page of a device, their tree and ramdisk in
\* the window.
Tells(tree) ==
    /\ IsTree(tree)
    /\ Told(tree, <<"soc", "serial">>, "reg") /\ Told(tree, <<"soc", "uart">>, "reg")
    /\ Told(tree, <<"chosen">>, "linux,initrd-start") /\ Told(tree, <<"memory">>, "reg")
    /\ LET serial == Lookup(tree, <<"soc", "serial">>, "reg")
       IN  serial # <<>> => Address(serial) # 0
    /\ Initrd(tree) # <<>> => Address(Initrd(tree)) # 0

Described ==
    \A m \in Machines :
      /\ Tells(m.tree)
      /\ \E d \in Devices : Console(m.tree) \in d..(d + PAGE_SIZE - 1)
      /\ Lies(m.at, m.size)
      /\ Initrd(m.tree) # <<>> => Lies(Address(Initrd(m.tree)), ArchiveSize(m.archive))

\* The pool buddy_init makes of the tree.
PoolOf(tree) ==
    LET memory == dtb_get_memory_region(tree)
    IN  <<va(IF memory.size = 0 THEN RAM_BASE ELSE memory.start),
          ManagedSize(memory.size) \div PAGE_SIZE>>

\* The kernel takes the paths' meaning.
LEMMA TreeIsRead ==
    ASSUME NEW tree, Tells(tree)
    PROVE  /\ UartAt(tree) = va(Console(tree))
           /\ InitrdAt(tree) = IF Initrd(tree) = <<>> THEN NULL ELSE va(Address(Initrd(tree)))
           /\ dtb_get_memory_region(tree) = Region(Lookup(tree, <<"memory">>, "reg"))
<1> DEFINE S == {"soc", "serial", "uart", "chosen", "memory", ROOT}
           serial == Lookup(tree, <<"soc", "serial">>, "reg")
           uart == Lookup(tree, <<"soc", "uart">>, "reg")
           disk == Lookup(tree, <<"chosen">>, "linux,initrd-start")
<1>1. IsTree(tree) /\ ROOT \in S
  BY DEF Tells
<1>2. /\ <<"soc", "serial">> \in Seq(S) /\ <<"soc", "serial">> # <<>>
      /\ <<"soc", "uart">> \in Seq(S) /\ <<"soc", "uart">> # <<>>
      /\ <<"chosen">> \in Seq(S) /\ <<"chosen">> # <<>>
      /\ <<"memory">> \in Seq(S) /\ <<"memory">> # <<>>
  <2>1. \A T : \A a, b \in T : <<a, b>> \in Seq(T) /\ <<a, b>> # <<>>
                               /\ <<a>> \in Seq(T) /\ <<a>> # <<>>
    OBVIOUS
  <2>2. "soc" \in S /\ "serial" \in S /\ "uart" \in S /\ "chosen" \in S /\ "memory" \in S
    OBVIOUS
  <2> HIDE DEF S
  <2>3. QED BY <2>1, <2>2
<1> HIDE DEF S
<1>3. dtb_getprop(tree, <<"soc", "serial">>, "reg") = serial
  BY <1>1, <1>2, PropertyIsFound DEF Tells
<1>4. dtb_getprop(tree, <<"soc", "uart">>, "reg") = uart
  BY <1>1, <1>2, PropertyIsFound DEF Tells
<1>5. dtb_getprop(tree, <<"chosen">>, "linux,initrd-start") = disk
  BY <1>1, <1>2, PropertyIsFound DEF Tells
<1>6. Address(<<>>) = 0
  BY DEF Address
<1>7. (serial # <<>> => Address(serial) # 0) /\ (disk # <<>> => Address(disk) # 0)
  BY DEF Tells, Initrd
<1> HIDE DEF serial, uart, disk
<1>8. UartAt(tree) = va(IF Address(serial) # 0 THEN Address(serial) ELSE Address(uart))
  BY <1>3, <1>4 DEF UartAt, dtb_get_reg
<1>9. Console(tree) = Address(IF serial # <<>> THEN serial ELSE uart)
  BY DEF Console, serial, uart
<1>10. UartAt(tree) = va(Console(tree))
  BY <1>6, <1>7, <1>8, <1>9
<1>11. InitrdAt(tree) = IF Address(disk) = NULL THEN NULL ELSE va(Address(disk))
  BY <1>5 DEF InitrdAt, dtb_load_initrd_addr
<1>12. Initrd(tree) = disk
  BY DEF Initrd, disk
<1>13. dtb_get_memory_region(tree) = Region(Lookup(tree, <<"memory">>, "reg"))
  <2>1. dtb_getprop(tree, <<"memory">>, "reg") = Lookup(tree, <<"memory">>, "reg")
    BY <1>1, <1>2, PropertyIsFound DEF Tells
  <2>2. QED BY <2>1 DEF dtb_get_memory_region
<1>14. QED
  BY <1>6, <1>7, <1>10, <1>11, <1>12, <1>13 DEF NULL

\* Its pool is the memory the tree tells of, as far as it is mapped.
LEMMA MemoryIsRead ==
    ASSUME NEW tree, Tells(tree), dtb_get_memory_region(tree).size \in Nat
    PROVE  PoolOf(tree) = Memory(tree)
<1>1. PICK memory : memory = dtb_get_memory_region(tree)
  OBVIOUS
<1>2. memory = Region(Lookup(tree, <<"memory">>, "reg"))
  BY <1>1, TreeIsRead
<1>3. RAM_LIMIT \in Nat /\ memory.size \in Nat
  BY <1>1, StartupAssumption
<1>4. memory.size # 0 => ManagedSize(memory.size) = Min({memory.size, RAM_LIMIT})
  <2>1. PICK n \in Nat : n = memory.size
    BY <1>3
  <2>2. CASE n <= RAM_LIMIT
    <3>1. Min({n, RAM_LIMIT}) = n
      BY <1>3, <2>2 DEF Min
    <3>2. QED BY <1>3, <2>1, <2>2, <3>1 DEF ManagedSize
  <2>3. CASE n > RAM_LIMIT
    <3>1. Min({n, RAM_LIMIT}) = RAM_LIMIT
      BY <1>3, <2>3 DEF Min
    <3>2. QED BY <2>1, <2>3, <3>1 DEF ManagedSize
  <2>4. QED BY <1>3, <2>2, <2>3
<1>5. memory.size = 0 => ManagedSize(memory.size) = RAM_LIMIT
  BY DEF ManagedSize
<1>6. PoolOf(tree) = <<va(IF memory.size = 0 THEN RAM_BASE ELSE memory.start),
                       ManagedSize(memory.size) \div PAGE_SIZE>>
  BY <1>1 DEF PoolOf
<1>7. Memory(tree) = IF memory.size = 0 THEN <<va(RAM_BASE), RAM_LIMIT \div PAGE_SIZE>>
                     ELSE <<va(memory.start), Min({memory.size, RAM_LIMIT}) \div PAGE_SIZE>>
  BY <1>2 DEF Memory
<1>8. QED
  BY <1>4, <1>5, <1>6, <1>7

-----------------------------------------------------------------------------
(* What is mapped for it *)

\* The pages of the devices, at the kernel's addresses.
DevicePages == UNION {Pages(va(d), PAGE_SIZE) : d \in Devices}

LEMMA DevicesAreMapped ==
    /\ \A d \in Devices : Pages(va(d), PAGE_SIZE) = map_pages_4k(va(d), PAGE_SIZE)
    /\ DevicePages \cap Pages(0, 4 * PGD_SPAN) = {}
<1>1. ASSUME NEW d \in Devices PROVE Pages(va(d), PAGE_SIZE) \cap Pages(0, 4 * PGD_SPAN) = {}
  <2>1. /\ d \in Nat /\ PAGE_OFFSET \in Nat /\ PGD_SPAN \in Nat /\ PAGE_SIZE \in Int
        /\ 4 * PGD_SPAN <= PAGE_OFFSET
    BY StartupAssumption
  <2>2. va(d) \in Nat /\ va(d) >= 4 * PGD_SPAN
    BY <2>1 DEF va
  <2>3. QED BY <2>1, <2>2, AboveIdentity
<1>2. QED
  BY <1>1 DEF DevicePages, map_pages_4k

\* Where the console and the tree are, there are pages of these.
LEMMA ConsoleIsThere ==
    ASSUME NEW d \in Devices, NEW a \in d..(d + PAGE_SIZE - 1)
    PROVE  va(a) \in Nat /\ Page(va(a)) \in DevicePages
<1>1. d \in Nat /\ PAGE_OFFSET \in Nat /\ PAGE_SIZE \in Nat \ {0}
  BY StartupAssumption
<1> DEFINE b == va(d)
           c == va(a)
           x == Page(c)
<1>2. b \in Nat /\ c \in Nat /\ b <= c /\ c <= b + PAGE_SIZE - 1
  BY <1>1 DEF va
<1> HIDE DEF b, c
<1>3. x \in Int
  BY <1>2, PageFacts
<1>4. x * PAGE_SIZE <= c /\ (x + 1) * PAGE_SIZE > c
  <2>1. x = c \div PAGE_SIZE /\ x + 1 \in Int /\ x + 1 > x
    BY <1>3 DEF Page
  <2>2. c \in Int
    BY <1>2
  <2> HIDE DEF x
  <2>3. x <= c \div PAGE_SIZE /\ x + 1 > c \div PAGE_SIZE
    BY <1>3, <2>1
  <2>4. x * PAGE_SIZE <= c
    BY <1>1, <1>3, <2>2, <2>3, Divide
  <2>5. (x + 1) * PAGE_SIZE > c
    BY <1>1, <2>1, <2>2, <2>3, Divide
  <2>6. QED BY <2>4, <2>5
<1> HIDE DEF x
<1>5. (x + 1) * PAGE_SIZE = x * PAGE_SIZE + PAGE_SIZE /\ x * PAGE_SIZE \in Int
  BY <1>1, <1>3, Multiply
<1>6. b < x * PAGE_SIZE + PAGE_SIZE /\ x * PAGE_SIZE <= b + PAGE_SIZE - 1
  BY <1>1, <1>2, <1>4, <1>5
<1>7. x \in Pages(b, PAGE_SIZE)
  <2>1. b \in Int /\ PAGE_SIZE \in Int
    BY <1>1, <1>2
  <2>2. \A y : y \in Pages(b, PAGE_SIZE) <=>
                y \in Int /\ b < y * PAGE_SIZE + PAGE_SIZE /\ y * PAGE_SIZE <= b + PAGE_SIZE - 1
    BY <2>1, PageFacts
  <2>3. QED BY <1>3, <1>6, <2>2
<1>8. QED
  BY <1>2, <1>7 DEF DevicePages, b, c, x

LEMMA LiesInWindow ==
    ASSUME NEW a, NEW size, Lies(a, size)
    PROVE  va(a) \in Nat /\ Pages(va(a), size) \subseteq Window
<1>1. /\ RAM_BASE \in Nat /\ RAM_LIMIT \in Nat /\ PAGE_OFFSET \in Nat /\ PAGE_SIZE \in Nat \ {0}
      /\ a \in Nat /\ size \in Nat /\ RAM_BASE <= a /\ a + size <= RAM_BASE + RAM_LIMIT
  BY StartupAssumption DEF Lies
<1> DEFINE b == va(a)
           w == va(RAM_BASE)
<1>2. b \in Nat /\ w \in Nat /\ w <= b /\ b + size - 1 <= w + RAM_LIMIT - 1
  BY <1>1 DEF va
<1> HIDE DEF b, w
<1>3. ASSUME NEW x \in Pages(b, size) PROVE x \in Pages(w, RAM_LIMIT)
  <2> DEFINE p == x * PAGE_SIZE
  <2>1. x \in Int /\ b < p + PAGE_SIZE /\ p <= b + size - 1
    BY <1>1, <1>2, PageFacts
  <2>2. p \in Int
    BY <1>1, <2>1, Multiply
  <2>3. w < p + PAGE_SIZE /\ p <= w + RAM_LIMIT - 1
    <3> HIDE DEF p
    <3>1. QED BY <1>1, <1>2, <2>1, <2>2
  <2>4. w \in Int /\ RAM_LIMIT \in Int
    BY <1>1, <1>2
  <2>5. \A y : y \in Pages(w, RAM_LIMIT) <=>
                y \in Int /\ w < y * PAGE_SIZE + PAGE_SIZE /\ y * PAGE_SIZE <= w + RAM_LIMIT - 1
    BY <2>4, PageFacts
  <2>6. QED BY <2>1, <2>3, <2>5
<1>4. QED
  BY <1>2, <1>3 DEF Window, b, w

-----------------------------------------------------------------------------
(* The kernel finds its devices *)

FoundInv ==
    /\ StartupTypeOK
    /\ stage \notin {"off", "entry"} => Window \cup DevicePages \subseteq mapped
    /\ Looked => MachineIsKnown /\ uart_base = UartAt(machine.tree)
    /\ PoolIsKnown => <<buddy_base_addr, buddy_total_pages>> = PoolOf(machine.tree)

\* What the tree of a machine says is there and mapped.
LEMMA MachineIsThere ==
    ASSUME Described, NEW m \in Machines
    PROVE  /\ va(m.at) \in Nat /\ UartAt(m.tree) \in Nat /\ InitrdAt(m.tree) \in Nat
           /\ UartAt(m.tree) = va(Console(m.tree)) /\ Page(UartAt(m.tree)) \in DevicePages
           /\ Pages(va(m.at), m.size) \subseteq Window
           /\ InitrdAt(m.tree) = IF Initrd(m.tree) = <<>> THEN NULL ELSE va(Address(Initrd(m.tree)))
           /\ InitrdAt(m.tree) # NULL =>
                Pages(InitrdAt(m.tree), ArchiveSize(m.archive)) \subseteq Window
<1>1. /\ Tells(m.tree) /\ Lies(m.at, m.size)
      /\ Initrd(m.tree) # <<>> => Lies(Address(Initrd(m.tree)), ArchiveSize(m.archive))
  BY DEF Described
<1>2. PICK d \in Devices : Console(m.tree) \in d..(d + PAGE_SIZE - 1)
  BY DEF Described
<1>3. /\ UartAt(m.tree) = va(Console(m.tree))
      /\ InitrdAt(m.tree) = IF Initrd(m.tree) = <<>> THEN NULL ELSE va(Address(Initrd(m.tree)))
  BY <1>1, TreeIsRead
<1>4. va(Console(m.tree)) \in Nat /\ Page(va(Console(m.tree))) \in DevicePages
  BY <1>2, ConsoleIsThere
<1>5. va(m.at) \in Nat /\ Pages(va(m.at), m.size) \subseteq Window
  BY <1>1, LiesInWindow
<1>6. Initrd(m.tree) # <<>> =>
        /\ va(Address(Initrd(m.tree))) \in Nat
        /\ Pages(va(Address(Initrd(m.tree))), ArchiveSize(m.archive)) \subseteq Window
  BY <1>1, LiesInWindow
<1>7. NULL \in Nat
  BY DEF NULL
<1>8. QED
  BY <1>3, <1>4, <1>5, <1>6, <1>7

\* The type of what buddy_init leaves.
LEMMA PoolTypes ==
    ASSUME Supported, StartInv, StartInv', StartupTypeOK,
           video_init \/ buddy_init \/ alloc_frame_array \/ alloc_ref_count
    PROVE  StartupTypeOK'
<1>0. MAX_RESERVED_REGIONS \in Nat /\ Cardinality(FrameBuffers) + 0 <= MAX_RESERVED_REGIONS
  <2>1. machine \in Machines
    <3>1. MachineIsKnown
      BY DEF video_init, buddy_init, alloc_frame_array, alloc_ref_count, StartInv, Looked
    <3>2. QED BY <3>1 DEF MachineIsKnown
  <2>2. Suits(machine)
    BY <2>1 DEF Supported
  <2>3. /\ Len(dtb_reserved_regions(machine.tree)) \in Nat
        /\ Cardinality(FrameBuffers) + Len(dtb_reserved_regions(machine.tree)) + 6
             <= MAX_RESERVED_REGIONS
    BY <2>2, LenProperties DEF Suits
  <2>4. Cardinality(FrameBuffers) \in Nat
    BY SetAsSequence DEF Supported
  <2>5. QED BY <2>3, <2>4, StartupAssumption
<1>1. CASE video_init
  <2>1. stage' = "pool" /\ UNCHANGED <<found, pool, arrays>>
    BY <1>1 DEF video_init
  <2>2. Len(reserved_regions') = Cardinality(FrameBuffers)
    BY <2>1 DEF StartInv
  <2>3. Cardinality(FrameBuffers) \in Nat
    BY SetAsSequence DEF Supported
  <2>4. Len(reserved_regions') <= MAX_RESERVED_REGIONS
    BY <1>0, <2>2, <2>3
  <2>5. QED BY <2>1, <2>4 DEF StartupTypeOK, found, pool, arrays
<1>2. CASE buddy_init
  <2>1. stage' = "frame_array" /\ UNCHANGED <<found, arrays>>
    BY <1>2 DEF buddy_init
  <2>2. /\ Len(reserved_regions') + 2 <= MAX_RESERVED_REGIONS /\ PoolIsSound'
        /\ reserved_regions' \in Seq(Regions)
    BY <2>1 DEF StartInv
  <2>3. Len(reserved_regions') <= MAX_RESERVED_REGIONS
    <3>1. Len(reserved_regions') \in Nat
      BY <2>2, LenProperties
    <3>2. QED BY <1>0, <2>2, <3>1
  <2>4. buddy_base_addr' \in Nat /\ buddy_total_pages' \in Nat
    BY <2>2 DEF PoolIsSound
  <2>5. QED BY <2>1, <2>3, <2>4 DEF StartupTypeOK, found, arrays
<1>3. CASE alloc_frame_array \/ alloc_ref_count
  <2>0. PICK a : a = FirstFit(ArraySize)
    OBVIOUS
  <2>1. /\ stage \in {"frame_array", "ref_count"} /\ stage' \in {"failed", "ref_count", "ready"}
        /\ UNCHANGED <<found, pool>> /\ reserved_regions' = AndReserve(a, ArraySize)
        /\ frame_array' \in {frame_array, a} /\ ref_count' \in {ref_count, a}
    BY <1>3, <2>0 DEF alloc_frame_array, alloc_ref_count
  <2>2. /\ MachineIsKnown /\ PoolIsSound /\ KnownAreReserved /\ reserved_regions \in Seq(Regions)
        /\ (Len(reserved_regions) + 2 <= MAX_RESERVED_REGIONS
            \/ Len(reserved_regions) + 1 <= MAX_RESERVED_REGIONS)
    BY <2>1 DEF StartInv, Looked
  <2>3. Len(reserved_regions) \in Nat /\ Len(reserved_regions) + 1 <= MAX_RESERVED_REGIONS
    BY <1>0, <2>2, LenProperties
  <2>4. a \in Nat /\ Len(reserved_regions') <= MAX_RESERVED_REGIONS
    <3>1. CASE a = NULL
      <4>1. reserved_regions' = reserved_regions
        BY <2>1, <3>1 DEF AndReserve
      <4>2. QED BY <1>0, <2>3, <3>1, <4>1 DEF NULL
    <3>2. CASE a # NULL
      <4>1. /\ \E k \in Nat : a = buddy_base_addr + k * PAGE_SIZE
            /\ Len(AndReserve(a, ArraySize)) = Len(reserved_regions) + 1
        BY <2>0, <2>2, <2>3, <3>2, ArrayIsPlaced
      <4>2. buddy_base_addr \in Nat /\ PAGE_SIZE \in Nat /\ \A x, y \in Nat : x * y \in Nat
        BY <2>2, StartupAssumption DEF PoolIsSound
      <4>3. a \in Nat
        BY <4>1, <4>2
      <4>4. QED BY <2>1, <2>3, <4>1, <4>3
    <3>3. QED BY <3>1, <3>2
  <2>5. QED BY <2>1, <2>4 DEF StartupTypeOK, found, pool
<1>4. QED
  BY <1>1, <1>2, <1>3

LEMMA FoundKept ==
    ASSUME Supported, Described, StartInv, FoundInv, [Next]_vars
    PROVE  FoundInv'
<1>0. /\ StartInv' /\ Window' = Window /\ DevicePages' = DevicePages
  BY StartInvKept DEF Window, DevicePages, va, Pages, Page
<1>1. CASE UNCHANGED startupVars
  BY <1>0, <1>1 DEF FoundInv, StartupTypeOK, Looked, MachineIsKnown, UartAt, InitrdAt, va,
                    PoolIsKnown, PoolOf, startupVars, found, pool, arrays
<1>2. CASE start_kernel
  BY <1>2 DEF start_kernel, FoundInv, StartupTypeOK, Looked, PoolIsKnown, found, pool, arrays
<1>3. CASE power_cycle
  <2>1. switch_off
    BY <1>3 DEF power_cycle
  <2>2. MAX_RESERVED_REGIONS \in Nat /\ Len(<<>>) = 0
    BY StartupAssumption
  <2>3. StartupTypeOK'
    BY <2>1, <2>2 DEF switch_off, StartupTypeOK, NULL
  <2>4. QED BY <2>1, <2>3 DEF switch_off, FoundInv, Looked, PoolIsKnown
<1>4. CASE setup_vm
  <2>1. /\ stage' = "main" /\ UNCHANGED <<found, pool, reserved_regions, arrays>>
        /\ map_pages_2m(va(RAM_BASE), RAM_LIMIT) \subseteq mapped'
        /\ \A d \in Devices : map_pages_4k(va(d), PAGE_SIZE) \subseteq mapped'
    <3> DEFINE memory == {map_pages_2m(a, RAM_LIMIT) : a \in {RAM_BASE, va(RAM_BASE)}}
               places == Devices \cup {va(d) : d \in Devices}
               devices == {map_pages_4k(a, PAGE_SIZE) : a \in places}
    <3>1. mapped' = (UNION memory) \cup (UNION devices)
      BY <1>4 DEF setup_vm
    <3>2. map_pages_2m(va(RAM_BASE), RAM_LIMIT) \in memory
      OBVIOUS
    <3>3. \A d \in Devices : va(d) \in places
      OBVIOUS
    <3>4. \A d \in Devices : map_pages_4k(va(d), PAGE_SIZE) \in devices
      <4> HIDE DEF places
      <4>1. QED BY <3>3
    <3> HIDE DEF memory, places, devices
    <3>5. map_pages_2m(va(RAM_BASE), RAM_LIMIT) \subseteq mapped'
      BY <3>1, <3>2
    <3>6. \A d \in Devices : map_pages_4k(va(d), PAGE_SIZE) \subseteq mapped'
      BY <3>1, <3>4
    <3>7. QED BY <1>4, <3>5, <3>6 DEF setup_vm
  <2>2. Window \subseteq mapped' /\ DevicePages \subseteq mapped'
    BY <2>1, WindowIsMapped, DevicesAreMapped DEF DevicePages
  <2>3. StartupTypeOK'
    BY <2>1 DEF FoundInv, StartupTypeOK, found, pool, arrays
  <2>4. QED BY <1>0, <2>1, <2>2, <2>3 DEF FoundInv, Looked, PoolIsKnown
<1>5. CASE main_devices
  <2>1. PICK m \in Machines : /\ machine' = m /\ dtb_addr' = va(m.at)
                              /\ uart_base' = UartAt(m.tree) /\ cpio_addr' = InitrdAt(m.tree)
    BY <1>5 DEF main_devices
  <2>2. stage = "main" /\ stage' = "devices" /\ UNCHANGED <<mapped, pool, reserved_regions, arrays>>
    BY <1>5 DEF main_devices
  <2>3. dtb_addr' \in Nat /\ uart_base' \in Nat /\ cpio_addr' \in Nat
    BY <2>1, MachineIsThere
  <2>4. StartupTypeOK'
    BY <2>2, <2>3 DEF FoundInv, StartupTypeOK, pool, arrays
  <2>5. Window \cup DevicePages \subseteq mapped'
    BY <2>2 DEF FoundInv
  <2>6. MachineIsKnown' /\ (uart_base = UartAt(machine.tree))'
    BY <2>1 DEF MachineIsKnown, UartAt, InitrdAt, va
  <2>7. QED BY <1>0, <2>2, <2>4, <2>5, <2>6 DEF FoundInv, PoolIsKnown
<1>6. CASE drop_identity_map \/ video_init \/ buddy_init \/ alloc_frame_array \/ alloc_ref_count
  <2>1. Looked /\ Looked' /\ stage \notin {"off", "entry"} /\ UNCHANGED found
    BY <1>6 DEF drop_identity_map, video_init, buddy_init, alloc_frame_array, alloc_ref_count, Looked
  <2>2. MachineIsKnown' /\ (uart_base = UartAt(machine.tree))'
    BY <2>1 DEF FoundInv, MachineIsKnown, UartAt, InitrdAt, va, found
  <2>3. Window \cup DevicePages \subseteq mapped
    BY <2>1 DEF FoundInv
  <2>4. CASE drop_identity_map
    <3>1. mapped' = mapped \ Pages(0, 4 * PGD_SPAN) /\ stage' = "video"
          /\ UNCHANGED <<found, pool, reserved_regions, arrays>>
      BY <2>4 DEF drop_identity_map
    <3>2. Window \cup DevicePages \subseteq mapped'
      BY <2>3, <3>1, WindowIsMapped, DevicesAreMapped
    <3>3. StartupTypeOK'
      BY <3>1 DEF FoundInv, StartupTypeOK, found, pool, arrays
    <3>4. QED BY <1>0, <2>2, <3>1, <3>2, <3>3 DEF FoundInv, PoolIsKnown
  <2>5. CASE video_init \/ buddy_init \/ alloc_frame_array \/ alloc_ref_count
    <3>1. mapped' = mapped
      BY <2>5 DEF video_init, buddy_init, alloc_frame_array, alloc_ref_count
    <3>2. StartupTypeOK'
      BY <1>0, <2>5, PoolTypes DEF FoundInv
    <3>3. PoolIsKnown' => (<<buddy_base_addr, buddy_total_pages>> = PoolOf(machine.tree))'
      <4>1. CASE video_init
        BY <4>1 DEF video_init, PoolIsKnown
      <4>2. CASE buddy_init
        BY <2>1, <4>2 DEF buddy_init, PoolOf, found
      <4>3. CASE alloc_frame_array \/ alloc_ref_count
        <5>1. PoolIsKnown /\ UNCHANGED <<machine, pool>>
          BY <4>3 DEF alloc_frame_array, alloc_ref_count, PoolIsKnown, found
        <5>2. <<buddy_base_addr, buddy_total_pages>> = PoolOf(machine.tree)
          BY <5>1 DEF FoundInv
        <5>3. QED BY <5>1, <5>2 DEF PoolOf, pool
      <4>4. QED BY <2>5, <4>1, <4>2, <4>3
    <3>4. QED BY <1>0, <2>2, <2>3, <3>1, <3>2, <3>3 DEF FoundInv
  <2>6. QED BY <1>6, <2>4, <2>5
<1>7. QED
  BY <1>1, <1>2, <1>3, <1>4, <1>5, <1>6 DEF Next, Processor, User, StartupStep, vars

\* The console, the ramdisk and the memory are where the device tree has them
\* under their paths, and the first two are mapped, as is the tree itself,
\* whenever the kernel uses them, before and after drop_identity_map: whatever
\* else is in the tree, and in whatever order, as long as a name and a depth tell
\* where a node is.
THEOREM DevicesAreKnown ==
    ASSUME Supported, Described
    PROVE  Spec => []DevicesAreFound
<1>1. Init => FoundInv
  <2>1. MAX_RESERVED_REGIONS \in Nat /\ Len(<<>>) = 0
    BY StartupAssumption
  <2>2. QED BY <2>1 DEF Init, StartupInit, FoundInv, StartupTypeOK, Looked, PoolIsKnown, NULL
<1>2. StartInv /\ FoundInv /\ [Next]_vars => FoundInv'
  BY FoundKept
<1>3. ASSUME FoundInv, Looked
      PROVE  LET serial == Where(<<"soc", "serial">>, "reg")
                 initrd == Where(<<"chosen">>, "linux,initrd-start")
             IN  /\ uart_base = va(Address(IF serial # <<>> THEN serial
                                           ELSE Where(<<"soc", "uart">>, "reg")))
                 /\ cpio_addr = IF initrd = <<>> THEN NULL ELSE va(Address(initrd))
                 /\ Page(uart_base) \in mapped
                 /\ Pages(dtb_addr, machine.size) \subseteq mapped
                 /\ cpio_addr # NULL =>
                      Pages(cpio_addr, ArchiveSize(machine.archive)) \subseteq mapped
  <2>1. /\ machine \in Machines /\ dtb_addr = va(machine.at) /\ cpio_addr = InitrdAt(machine.tree)
        /\ uart_base = UartAt(machine.tree) /\ Window \cup DevicePages \subseteq mapped
    BY <1>3 DEF FoundInv, MachineIsKnown, Looked
  <2>2. /\ uart_base = va(Console(machine.tree)) /\ Page(uart_base) \in DevicePages
        /\ Pages(dtb_addr, machine.size) \subseteq Window
        /\ cpio_addr = IF Initrd(machine.tree) = <<>> THEN NULL ELSE va(Address(Initrd(machine.tree)))
        /\ cpio_addr # NULL => Pages(cpio_addr, ArchiveSize(machine.archive)) \subseteq Window
    BY <2>1, MachineIsThere
  <2>3. QED BY <2>1, <2>2 DEF Console, Initrd, Where
<1>4. ASSUME FoundInv, PoolIsKnown
      PROVE  LET memory == Region(Where(<<"memory">>, "reg"))
             IN  <<buddy_base_addr, buddy_total_pages>> =
                   IF memory.size = 0 THEN <<va(RAM_BASE), RAM_LIMIT \div PAGE_SIZE>>
                   ELSE <<va(memory.start), Min({memory.size, RAM_LIMIT}) \div PAGE_SIZE>>
  <2>1. machine \in Machines /\ <<buddy_base_addr, buddy_total_pages>> = PoolOf(machine.tree)
    BY <1>4 DEF FoundInv, MachineIsKnown, Looked, PoolIsKnown
  <2>2. Tells(machine.tree) /\ dtb_get_memory_region(machine.tree).size \in Nat
    BY <2>1 DEF Described, Supported, Suits, Chunk
  <2>3. PoolOf(machine.tree) = Memory(machine.tree)
    BY <2>2, MemoryIsRead
  <2>4. QED BY <2>1, <2>3 DEF Memory, Where
<1>5. FoundInv => DevicesAreFound
  BY <1>3, <1>4 DEF FoundInv, DevicesAreFound
<1>6. QED
  BY <1>1, <1>2, <1>5, StartInvariance, PTL DEF Spec
=============================================================================
