------------------------------- MODULE PintFd -------------------------------
(***************************************************************************)
(* Files of a simulated design: pint_vpi_fd[], pint_vpifd_to_fd and the    *)
(* file messages of pint_msg_process and pint_simu_log (cpu_adapt.c).      *)
(*                                                                         *)
(* The design owns channels (the words $fopen returned); the host maps a   *)
(* channel to an index of pint_vpi_fd and from there to a descriptor of    *)
(* the operating system, whose table and files are external.  One process  *)
(* of the design reads a file with                                         *)
(*     while (!$feof(fd)) code = $fgets(str, fd);                          *)
(* and may look at the next byte with $fgetc and $ungetc; meanwhile other  *)
(* processes open, write, position and close other channels, closed ones   *)
(* too: nothing tells a closed channel from an open one, and its entry of  *)
(* the table may lead to a descriptor another channel has by now.          *)
(***************************************************************************)
EXTENDS Integers, Sequences, FiniteSets, FiniteSetsExt

CONSTANTS
  W,          \* bits of a word, 32 in the code
  InFile,     \* files the design only reads
  OutFile,    \* files the design writes
  Denied,     \* files open() refuses
  Contents,   \* what an input file may hold
  RegBytes,   \* bytes of the register $fgets fills, in whole words
  BufBytes,   \* bytes of the host's buffer for it, twice that and 8 in the code
  TotalOpens, \* bound: calls of $fopen in a run
  MaxLen      \* bound: bytes of a written file

ASSUME FdAssumption ==
  /\ W \in Nat \ {0, 1} /\ TotalOpens \in 0 .. 2 * W - 1 /\ MaxLen \in Nat
  /\ RegBytes \in Nat /\ BufBytes \in Nat /\ BufBytes >= 2 * RegBytes
  /\ Denied \subseteq InFile /\ InFile \cap OutFile = {}

VARIABLES
  pint_vpi_fd,  \* the table; its length is pint_vpi_open_file_num
  os,           \* open descriptors of the operating system
  disk,         \* the bytes of each file
  input,        \* what the input files held at the start
  chan,         \* the channels of the design: word, descriptor, file, mode
  rd,           \* the reading process
  strayed       \* history: files met through a channel that did not open them

vars == <<pint_vpi_fd, os, disk, input, chan, rd, strayed>>

File == InFile \cup OutFile
Nul == "nul"
Newline == "nl"
Return == "cr"
Byte == {"a", Newline, Return, Nul}
NoFd == -1
Terminal == "terminal"
Closed == [file |-> "none", pos |-> 0, by |-> 0]
Descriptor == 0 .. TotalOpens + 2
pint_vpi_open_file_num == Len(pint_vpi_fd)

\* The files and the reading process at the start.
InitFiles ==
  /\ os = [d \in Descriptor |->
             IF d <= 2 THEN [file |-> Terminal, pos |-> 0, by |-> 0] ELSE Closed]
  /\ \E c \in [InFile \ Denied -> Contents] :
       disk = [f \in File |-> IF f \in DOMAIN c THEN c[f] ELSE <<>>]
  /\ input = disk
  /\ rd = [chan |-> 0, at |-> "idle", got |-> <<>>, peeked |-> Nul, emptied |-> FALSE,
             altered |-> FALSE]
  /\ strayed = {}

Init == InitFiles /\ pint_vpi_fd = <<>> /\ chan = <<>>

-----------------------------------------------------------------------------
(* Channel words. *)

\* 1 << k in a word of W bits; a shift by the width or more is undefined:
\* the processor masks the count, or nothing is left of the bit.
ShiftOne(k) == IF k < W THEN {2^k} ELSE {0, 2^(k - W)}

\* 2 4 8 ... and then 2^(W-1) + 4, + 8, ...
\* Mutant of Words: the second row starts one bit lower.
WordsLower(n) ==
  IF n <= W THEN ShiftOne(n) ELSE {(2^(W - 1) + s) % 2^W : s \in ShiftOne(n - W)}
Words(n) ==
  IF n <= W THEN ShiftOne(n)
  ELSE {(2^(W - 1) + s) % 2^W : s \in ShiftOne(n - (W - 1))}

\* while (vpi_fd > 1) { vpi_fd >>= 1; idx++; }
Shifts[v \in Nat] == IF v <= 1 THEN 0 ELSE 1 + Shifts[v \div 2]

pint_vpifd_to_fd(vpi_fd) ==
  LET idx == IF vpi_fd > 2^(W - 1) THEN W - 1 + Shifts[vpi_fd - 2^(W - 1)]
                                   ELSE Shifts[vpi_fd]
  IN IF vpi_fd < 2 THEN vpi_fd
     ELSE IF idx > pint_vpi_open_file_num THEN NoFd ELSE pint_vpi_fd[idx]

fd(i) == pint_vpifd_to_fd(chan[i].vpi)

-----------------------------------------------------------------------------
(* The file messages. *)

\* fopen: open, truncate unless the type is r or rb, a new table entry and
\* its channel word, whatever open answered.
FreeDescriptor(f) ==
  IF f \in Denied THEN NoFd
  ELSE Min({d \in Descriptor : os[d] = Closed})

Fopen(f, mode) ==
  /\ pint_vpi_open_file_num < TotalOpens
  /\ \E word \in Words(pint_vpi_open_file_num + 1) :
       chan' = Append(chan, [vpi |-> word, fd |-> FreeDescriptor(f), file |-> f, mode |-> mode])
  /\ pint_vpi_fd' = Append(pint_vpi_fd, FreeDescriptor(f))
  /\ os' = [d \in Descriptor |->
              IF d = FreeDescriptor(f)
              THEN [file |-> f, pos |-> 0, by |-> pint_vpi_open_file_num + 1] ELSE os[d]]
  /\ disk' = IF mode = "w" THEN [disk EXCEPT ![f] = <<>>] ELSE disk
  /\ UNCHANGED <<input, rd, strayed>>

OnDisk(d) == d \in Descriptor /\ os[d].file \in File

\* Channel i is used, and its descriptor may be another channel's by now.
StrayedAfter(i) ==
  IF OnDisk(fd(i)) /\ os[fd(i)].by # i THEN strayed \cup {os[fd(i)].file} ELSE strayed

\* fclose: close(fd); the table entry and the count stay.
Fclose(i) ==
  /\ rd.chan # i
  /\ os' = [d \in Descriptor |-> IF d = fd(i) THEN Closed ELSE os[d]]
  /\ strayed' = StrayedAfter(i)
  /\ UNCHANGED <<pint_vpi_fd, disk, input, chan, rd>>

Length(d) == Len(disk[os[d].file])
Seek(d, p) == os' = [os EXCEPT ![d].pos = p]

\* write(fd, &b, 1) at position p: the file grows, zero bytes in the gap.
BytesWith(s, p, b) ==
  [k \in 1 .. Max({Len(s), p + 1}) |->
     IF k = p + 1 THEN b ELSE IF k <= Len(s) THEN s[k] ELSE Nul]

\* PINT_FWRITE, PINT_FDISPLAY; no file changes when the channel never opened or
\* its descriptor is closed or the terminal.
Fwrite(i) ==
  /\ chan[i].mode = "w" /\ OnDisk(fd(i))
  /\ os[fd(i)].pos < MaxLen
  /\ disk' = [disk EXCEPT ![os[fd(i)].file] = BytesWith(@, os[fd(i)].pos, "a")]
  /\ Seek(fd(i), os[fd(i)].pos + 1)
  /\ strayed' = StrayedAfter(i)
  /\ UNCHANGED <<pint_vpi_fd, input, chan, rd>>

\* fseek with whence 0, 1, 2, and rewind; lseek refuses a negative position.
FseekTo(i, offset, whence) ==
  offset + CASE whence = 0 -> 0
             [] whence = 1 -> os[fd(i)].pos
             [] whence = 2 -> Length(fd(i))

Fseek(i, offset, whence) ==
  /\ rd.chan # i /\ OnDisk(fd(i))
  /\ FseekTo(i, offset, whence) \in 0 .. MaxLen
  /\ Seek(fd(i), FseekTo(i, offset, whence))
  /\ strayed' = StrayedAfter(i)
  /\ UNCHANGED <<pint_vpi_fd, disk, input, chan, rd>>

-----------------------------------------------------------------------------
(* The reading process. *)

\* With an open channel or one that never opened; the terminal is not read.
StartReading(i) ==
  /\ rd.at = "idle" /\ chan[i].mode = "r"
  /\ fd(i) \in Descriptor => os[fd(i)].by = i /\ os[fd(i)].pos = 0
  /\ rd' = [rd EXCEPT !.chan = i, !.at = "feof"]
  /\ UNCHANGED <<pint_vpi_fd, os, disk, input, chan, strayed>>

\* A read of the loop found the end of the file, the loop put back another byte than
\* it read, or the file strayed: what it delivers from then on is not recorded.
Excused == rd.emptied \/ rd.altered \/ (rd.chan # 0 /\ chan[rd.chan].file \in strayed)

\* feof: -1, true as a condition, for an invalid descriptor; 1 beyond the end,
\* and the position is then left at the end.  On a closed descriptor lseek
\* answers -1 twice.
PastEnd(d) == OnDisk(d) /\ Length(d) < os[d].pos

Feof ==
  /\ rd.at = "feof"
  /\ LET d == fd(rd.chan)
     IN /\ rd' = [rd EXCEPT !.at = IF d = NoFd \/ PastEnd(d) THEN "done" ELSE "body"]
        /\ IF PastEnd(d) THEN Seek(d, Length(d)) ELSE UNCHANGED os
  /\ strayed' = StrayedAfter(rd.chan)
  /\ UNCHANGED <<pint_vpi_fd, disk, input, chan>>

\* fgets: a line reaches to the first zero, newline, return or the end of the
\* file, which counts as a zero.
LineEnds == {Newline, Return, Nul}
LineEnd(s, p) == Min({k \in p .. Len(s) : k = Len(s) \/ s[k + 1] \in LineEnds})
\* Mutants of Skipped: the line end is read again; a byte is skipped.
SkippedNoEnd(p, i) == p + i
SkippedTwo(p, i) == p + i + 2
Skipped(p, i) == p + i + 1

\* What the register has of each byte of a line of n bytes, its end included: the
\* last RegBytes are its value, the ones before them make bits unknown.
Unknown == "x"
Lost == "lost"
Sent(line, n) ==
  [k \in 1 .. Len(line) |->
     IF n - k >= RegBytes THEN Lost ELSE IF k > RegBytes THEN Unknown ELSE line[k]]

\* The position skips the whole line.  A line longer than the host's buffer is
\* stored past its end, and on a closed descriptor a buffer of no bytes is read:
\* undefined, and not followed further.
Fgets ==
  /\ rd.at = "body" \/ rd.at = "pushed"
  /\ LET d == fd(rd.chan)
         s == disk[os[d].file]
         p == os[d].pos
         i == LineEnd(s, p) - p
     IN \/ /\ ~OnDisk(d)
           /\ rd' = [rd EXCEPT !.at = "undefined"]
           /\ UNCHANGED os
        \/ /\ PastEnd(d)
           /\ rd' = [rd EXCEPT !.at = "feof"]
           /\ Seek(d, Length(d))
        \/ /\ OnDisk(d) /\ ~PastEnd(d)
           /\ rd' = [rd EXCEPT
                !.at = IF i + 1 > BufBytes THEN "undefined" ELSE "feof",
                !.got = IF Excused THEN @
                        ELSE @ \o Sent(SubSeq(s, p + 1, Min({p + i + 1, Len(s)})), i + 1)]
           /\ Seek(d, Skipped(p, i))
  /\ strayed' = StrayedAfter(rd.chan)
  /\ UNCHANGED <<pint_vpi_fd, disk, input, chan>>

\* fgetc: at the end of the file, and on a closed descriptor, read() returns
\* nothing: the byte is 0 and the position stays.
Fgetc ==
  /\ rd.at = "body"
  /\ LET d == fd(rd.chan)
         any == OnDisk(d) /\ os[d].pos < Length(d)
     IN /\ rd' = [rd EXCEPT !.at = "peeked", !.emptied = @ \/ ~any,
                    !.peeked = IF any THEN disk[os[d].file][os[d].pos + 1] ELSE Nul]
        /\ IF any THEN Seek(d, os[d].pos + 1) ELSE UNCHANGED os
  /\ strayed' = StrayedAfter(rd.chan)
  /\ UNCHANGED <<pint_vpi_fd, disk, input, chan>>

\* ungetc: lseek(-1), which fails at the start of the file, write the byte ch,
\* whatever was read there, lseek(-1).  A design that puts back another byte than it
\* read is not followed further.
\* Mutant of PutBackAt: the first lseek is missing.
PutBackHere(p) == p
PutBackAt(p) == IF p = 0 THEN 0 ELSE p - 1

Ungetc(ch) ==
  /\ rd.at = "peeked"
  /\ LET d == fd(rd.chan)
         p == PutBackAt(os[d].pos)
     IN IF OnDisk(d)
        THEN /\ disk' = [disk EXCEPT ![os[d].file] = BytesWith(@, p, ch)]
             /\ Seek(d, p)
        ELSE UNCHANGED <<os, disk>>
  /\ rd' = [rd EXCEPT !.at = IF ch = rd.peeked THEN "pushed" ELSE "done",
                      !.altered = ch # rd.peeked]
  /\ strayed' = StrayedAfter(rd.chan)
  /\ UNCHANGED <<pint_vpi_fd, input, chan>>

Reader == Feof \/ Fgets \/ Fgetc \/ \E ch \in Byte : Ungetc(ch)

Next ==
  \/ \E f \in InFile : Fopen(f, "r")
  \/ \E f \in OutFile : Fopen(f, "w")
  \/ \E i \in DOMAIN chan :
       \/ Fclose(i)
       \/ Fwrite(i)
       \/ \E offset \in {-1, 0, 1}, whence \in 0 .. 2 : Fseek(i, offset, whence)
       \/ StartReading(i)
  \/ Reader

\* The reading process is runnable until it is done: every message is answered
\* and pint_msg_process does not block.
Spec == Init /\ [][Next]_vars /\ WF_vars(Reader)

-----------------------------------------------------------------------------
(* Properties. *)

\* Table, descriptors, files and the reader's state keep their types.
TypeOK ==
  /\ pint_vpi_fd \in Seq(Descriptor \cup {NoFd})
  /\ \A d \in Descriptor :
       /\ os[d] = Closed \/ os[d].file \in (File \ Denied) \cup {Terminal}
       /\ os[d].pos \in Nat /\ os[d].by \in 0 .. Len(chan)
  /\ \A f \in File : disk[f] \in Seq(Byte)
  /\ rd.chan \in 0 .. Len(chan) /\ strayed \subseteq File
  /\ rd.at \in {"idle", "feof", "body", "peeked", "pushed", "done", "undefined"}

\* pint_vpifd_to_fd maps the word of a channel to the descriptor that open()
\* returned for it, however many files were opened or closed since.  Three words
\* are excepted: 1 << 32 is not defined, 0x80000000 + (1 << 31) is 0, and
\* 0x80000000 + (1 << 32) is the word of another file.  The types hold too.
RoundTrip ==
  TypeOK /\ \A i \in DOMAIN chan : fd(i) = chan[i].fd \/ i = W \/ i >= 2 * W - 2

\* Looking at the next byte with fgetc and ungetc rewrites it in the file.  Still no
\* input file changes, unless a channel that is not its own met it or the design put
\* back another byte than it read; only a byte put back after a read at the end of
\* the file replaces the last byte by a zero.
Blanked(s) == BytesWith(s, IF s = <<>> THEN 0 ELSE Len(s) - 1, Nul)
InputKept ==
  \A f \in InFile \ strayed :
    \/ disk[f] = input[f]
    \/ rd.emptied /\ f = chan[rd.chan].file /\ disk[f] = Blanked(input[f])
    \/ rd.altered /\ f = chan[rd.chan].file

\* The line of byte k does not fit the register, with its end.
LongLine(s, k) ==
  \E a \in 1 .. k, b \in k .. Len(s) + 1 :
    b - a + 1 > RegBytes /\ \A x \in a .. b - 1 : s[x] \notin LineEnds

\* The feof/fgets loop ends with all bytes of its file delivered in order, those of
\* every line the register can hold unaltered.
ReadsWhole ==
  rd.at = "done" /\ chan[rd.chan].fd # NoFd /\ ~Excused =>
    LET s == input[chan[rd.chan].file]
    IN /\ Len(rd.got) = Len(s)
       /\ \A k \in 1 .. Len(s) : rd.got[k] = s[k] \/ LongLine(s, k)

\* The loop ends, on an empty file and on a channel that never opened too, unless
\* it looked at the next byte where there is none (a loop that does so each time
\* never ends), a line overran the host's buffer, or its file strayed.
ReaderEnds == rd.at = "feof" ~> (rd.at \in {"done", "undefined"} \/ Excused)
=============================================================================
