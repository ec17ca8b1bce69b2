-------------------------------- MODULE EspFs --------------------------------
(***************************************************************************)
(* The read-only file system: mkespfsimage/main.c writes an image from the *)
(* files that find lists, and user/espfs.c_ opens and reads them from      *)
(* flash.  The firmware of this repository does not build espfs.c_.        *)
(*                                                                         *)
(* The image is a sequence of cells, one for each byte: the first byte of  *)
(* a header or of a name stands for all of it, and a byte of data knows    *)
(* its file and its place there.  heatshrink is external; what matters of  *)
(* it is how much it makes of the bytes it has been fed.                   *)
(***************************************************************************)
EXTENDS Integers, Sequences, SequencesExt, FiniteSets, FiniteSetsExt

CONSTANTS
    Files,          \* what find can list: [path, rel, size, csize], where path is
                    \* rel behind "./", "/" or nothing, size is -1 if it is no
                    \* file, and csize what compressHeatshrink makes of size
    Chars,          \* [words of paths -> their length]
    MAX_FILES,      \* bound: lines that are listed
    Asked,          \* bound: the names that are opened
    Lengths         \* bound: the lengths that are read

ASSUME FilesAssumption ==
    \A l \in Files :
        /\ l.rel \in Seq(DOMAIN Chars) /\ l.rel # <<>> /\ l.rel[1] \notin {".", "/"}
        /\ l.path \in {l.rel, <<"/">> \o l.rel, <<".", "/">> \o l.rel}
        /\ l.size \in Int /\ l.csize \in Int
        /\ l.size > 0 => l.csize > 1

ASSUME CharsAssumption == \A w \in DOMAIN Chars : Chars[w] \in Nat

ASSUME LengthsAssumption == Lengths \subseteq Nat

VARIABLES
    compType,       \* "none" or "heatshrink", the tool's option -c
    EFS_HEATSHRINK, \* whether the reader is built with the decompressor
    listed,         \* the lines read so far
    image,          \* the cells written so far; address p is image[p + 1]
    finished,       \* whether the archive is
    asked,          \* the name given to the last espFsOpen
    result,         \* "none", "open", or why espFsOpen returned NULL
    fh,             \* the EspFsFile, while result is "open"
    out,            \* the bytes read from it so far
    short           \* whether the last read returned less than it was asked for

tool == <<listed, image, finished>>
handle == <<asked, result, fh, out, short>>
options == <<compType, EFS_HEATSHRINK>>
vars == <<options, tool, handle>>

sizeofHeader == 16

sizeofNamebuf == 256

\* Rounded to the next 32 bit boundary.
Round4(n) == ((n + 3) \div 4) * 4

-----------------------------------------------------------------------------
(* mkespfsimage. *)

Filler(n) == [i \in 1..n |-> [is |-> "filler"]]

\* strip off './' or '/' madness
RealName(path) ==
    LET r == IF path[1] = "." THEN Tail(path) ELSE path
    IN  IF r # <<>> /\ r[1] = "/" THEN Tail(r) ELSE r

strlen(name) ==
    LET upto[i \in 0..Len(name)] == IF i = 0 THEN 0 ELSE upto[i - 1] + Chars[name[i]]
    IN  upto[Len(name)]

NameLen(l) == Round4(strlen(RealName(l.path)) + 1)

Header(flags, compression, nameLen, csize, size) ==
    <<[is |-> "header", flags |-> flags, compression |-> compression, nameLen |-> nameLen,
       fileLenComp |-> csize, fileLenDecomp |-> size]>> \o Filler(sizeofHeader - 1)

\* The stored form of a file that heatshrink would make bigger is the file.
Compression(l) ==
    IF compType = "none" \/ l.csize > l.size THEN "none" ELSE "heatshrink"

Data(l, compression) ==
    [i \in 1..(IF compression = "none" THEN l.size ELSE l.csize) |->
        [is |-> "data", of |-> l.path, at |-> i, packed |-> compression # "none"]]

\* Mutant: the data is not padded.
NoPadding(csize) == <<>>

Padding(csize) == Filler(Round4(csize) - csize)

\* What handleFile writes of a file.
Stored(l) ==
    LET data == Data(l, Compression(l))
    IN  Header("file", Compression(l), NameLen(l), Len(data), l.size)
        \o <<[is |-> "name", text |-> RealName(l.path)]>> \o Filler(NameLen(l) - 1)
        \o data \o Padding(Len(data))

\* One turn of main's loop, with handleFile.  The mmap of an empty file fails.
handleFile(l) ==
    /\ ~finished
    /\ Len(listed) < MAX_FILES
    /\ l \notin Range(listed)
    /\ listed' = Append(listed, l)
    /\ image' = IF l.size <= 0 THEN image ELSE image \o Stored(l)
    /\ UNCHANGED <<options, finished, handle>>

finishArchive ==
    /\ ~finished
    /\ finished' = TRUE
    /\ image' = image \o Header("last", "none", 0, 0, 0)
    /\ UNCHANGED <<options, listed, handle>>

-----------------------------------------------------------------------------
(* espfs. *)

StripSlashes(name) ==
    LET Kept == {i \in 1..Len(name) : name[i] # "/"}
    IN  IF Kept = {} THEN <<>> ELSE SubSeq(name, Min(Kept), Len(name))

Cell(p) == IF p < Len(image) THEN image[p + 1] ELSE [is |-> "blank"]

\* os_memcpy(namebuf, p, sizeof(namebuf)) and os_strcmp: of a name that does not fit
\* with its zero, namebuf has no end, and it differs from every name that does.
IsNamed(cell, name) ==
    cell.is = "name" /\ strlen(cell.text) < sizeofNamebuf /\ cell.text = name

\* What becomes of a name that does not fit when it is asked for is not modelled:
\* os_strcmp then looks behind namebuf.
ASSUME AskedAssumption ==
    \A fileName \in Asked : strlen(StripSlashes(fileName)) < sizeofNamebuf

\* Mutant: the next header is not looked for at a boundary.
NextUnaligned(p, h) == p + sizeofHeader + h.nameLen + h.fileLenComp

Following(p, h) == Round4(p + sizeofHeader + h.nameLen + h.fileLenComp)

\* The walk over the headers from address p on.
Find(name) ==
    LET from[p \in 0..Len(image)] ==
            LET h == Cell(p)
            IN  IF h.is # "header" THEN [result |-> "broken", header |-> p]
                ELSE IF h.flags = "last" THEN [result |-> "absent", header |-> p]
                ELSE IF IsNamed(Cell(p + sizeofHeader), name)
                     THEN [result |-> "found", header |-> p]
                     ELSE from[Following(p, h)]
    IN  from[0]

NoFile == [header |-> 0, decompressor |-> "none", posComp |-> 0, posStart |-> 0,
           posDecomp |-> 0, fed |-> <<>>]

\* The first byte of compressed data holds the decoder's parameters.
Opened(p) ==
    LET h       == Cell(p)
        content == p + sizeofHeader + h.nameLen
    IN  [header       |-> p,
         decompressor |-> h.compression,
         posComp      |-> IF h.compression = "none" THEN content ELSE content + 1,
         posStart     |-> content,
         posDecomp    |-> 0,
         fed          |-> <<>>]

\* os_malloc may fail.  A file that cannot be decompressed is not opened.
espFsOpen(fileName) ==
    LET f == Find(StripSlashes(fileName))
    IN  /\ finished
        /\ result # "open"
        /\ asked' = fileName
        /\ result' \in
               IF f.result # "found" THEN {f.result}
               ELSE {"no memory",
                     IF Cell(f.header).compression = "none" \/ EFS_HEATSHRINK
                     THEN "open" ELSE "invalid"}
        /\ fh' = IF result' = "open" THEN Opened(f.header) ELSE NoFile
        /\ out' = <<>>
        /\ short' = FALSE
        /\ UNCHANGED <<options, tool>>

\* memcpyAligned: len bytes from address p.
Bytes(p, len) == [i \in 1..len |-> Cell(p + i - 1)]

Unread(f) == Cell(f.header).fileLenComp - (f.posComp - f.posStart)

\* External: the decoder makes an even share of the file of each byte it is fed,
\* if they are the file's and in order, and has room for 16 that it has not used.
Plain(f, n) ==
    LET h  == Cell(f.header)
        ok == \A i \in 1..n : f.fed[i].is = "data" /\ f.fed[i].packed /\ f.fed[i].at = i + 1
    IN  IF ~ok THEN <<>>
        ELSE [i \in 1..((n * h.fileLenDecomp) \div (h.fileLenComp - 1)) |->
                 [is |-> "data", of |-> f.fed[1].of, at |-> i, packed |-> FALSE]]

Room(f) ==
    16 - (Len(f.fed) - Min({n \in 0..Len(f.fed) : Len(Plain(f, n)) >= f.posDecomp}))

\* The first half of a turn of the loop; the other polls for len bytes at most.
Sink(f) ==
    LET rlen == Min({Unread(f), 16, Room(f)})
    IN  [f EXCEPT !.fed = @ \o Bytes(f.posComp, rlen), !.posComp = @ + rlen]

\* A turn of the loop, as long as it goes on.
InflateTurn(s, len) ==
    IF Len(s.bytes) >= len \/ Unread(s.file) = 0 THEN s
    ELSE LET g    == Sink(s.file)
             all  == Plain(g, Len(g.fed))
             rlen == Min({len - Len(s.bytes), Len(all) - g.posDecomp})
         IN  [file  |-> [g EXCEPT !.posDecomp = @ + rlen],
              bytes |-> s.bytes \o SubSeq(all, g.posDecomp + 1, g.posDecomp + rlen)]

\* Each turn feeds the decoder a byte or takes one from it.
Inflate(f, len) ==
    LET after[n \in 0..(Unread(f) + len)] ==
            IF n = 0 THEN [file |-> f, bytes |-> <<>>] ELSE InflateTurn(after[n - 1], len)
    IN  after[Unread(f) + len]

\* Mutant: the length is not cut to what is left.
CopiedUncut(f, len) ==
    [file  |-> [f EXCEPT !.posDecomp = @ + len, !.posComp = @ + len],
     bytes |-> Bytes(f.posComp, len)]

Copied(f, len) ==
    LET n == Min({len, Unread(f)})
    IN  [file  |-> [f EXCEPT !.posDecomp = @ + n, !.posComp = @ + n],
         bytes |-> Bytes(f.posComp, n)]

espFsRead(len) ==
    LET r == IF fh.decompressor = "none" THEN Copied(fh, len) ELSE Inflate(fh, len)
    IN  /\ result = "open"
        /\ fh' = r.file
        /\ out' = out \o r.bytes
        /\ short' = (Len(r.bytes) < len)
        /\ UNCHANGED <<options, tool, asked, result>>

espFsClose ==
    /\ result = "open"
    /\ result' = "none"
    /\ fh' = NoFile
    /\ out' = <<>>
    /\ short' = FALSE
    /\ UNCHANGED <<options, tool, asked>>

-----------------------------------------------------------------------------
Init ==
    /\ compType \in {"none", "heatshrink"}
    /\ EFS_HEATSHRINK \in BOOLEAN
    /\ listed = <<>>
    /\ image = <<>>
    /\ finished = FALSE
    /\ asked = <<>>
    /\ result = "none"
    /\ fh = NoFile
    /\ out = <<>>
    /\ short = FALSE

Next ==
    \/ \E l \in Files : handleFile(l)
    \/ finishArchive
    \/ \E fileName \in Asked : espFsOpen(fileName)
    \/ \E len \in Lengths : espFsRead(len)
    \/ espFsClose

Spec == Init /\ [][Next]_vars

-----------------------------------------------------------------------------
\* "Header, filename and file data is 32-bit aligned" (espfsformat.h:13), which is
\* what os_memcpy needs of flash: in the image that the tool writes and at the
\* addresses that the reader comes to.
IsAligned ==
    /\ \A p \in 0..(Len(image) - 1) :
           image[p + 1].is \in {"header", "name"}
           \/ (image[p + 1].is = "data" /\ image[p + 1].at = 1) => p % 4 = 0
    /\ fh.header % 4 = 0 /\ fh.posStart % 4 = 0

\* The places in the list of the files of a name that are in the archive.
Named(rel) == {i \in 1..Len(listed) : listed[i].size > 0 /\ listed[i].rel = rel}

AskedFor == listed[Min(Named(StripSlashes(asked)))]

\* A name that namebuf holds is found, with any slashes before it, exactly if a file of
\* that name that is not empty was listed, however find spelled its path; the
\* handle is then one of the first such file, unless it is stored compressed and
\* the reader has no decompressor or there is no memory.  No image is broken.
OpenFindsFirst ==
    asked # <<>> =>
        IF Named(StripSlashes(asked)) = {} THEN result \in {"absent", "none"}
        ELSE /\ result \in {"open", "no memory", "none", "invalid"}
             /\ result = "invalid" => ~EFS_HEATSHRINK /\ Compression(AskedFor) # "none"
             /\ result = "open" => /\ Cell(fh.header).fileLenDecomp = AskedFor.size
                                   /\ Cell(fh.posStart).of = AskedFor.path
                                   /\ \/ Compression(AskedFor) = "none"
                                      \/ EFS_HEATSHRINK

\* "Read len bytes from the given file into buff" (espfs.c_:167): reads of any
\* lengths, one after the other, give the bytes of the file from its first one on, in
\* order and none twice.  A read gives less than it was asked for only if nothing of
\* the stored file is left: then a file that is not compressed is at its end, but of
\* a compressed one what the decoder still holds is lost (espfs.c_:195).
ReadsAreContent ==
    result = "open" =>
        /\ Len(out) = fh.posDecomp
        /\ \A i \in 1..Len(out) :
               out[i] = [is |-> "data", of |-> AskedFor.path, at |-> i, packed |-> FALSE]
        /\ Len(out) <= AskedFor.size
        /\ short => Unread(fh) = 0
        /\ short /\ fh.decompressor = "none" => Len(out) = AskedFor.size

=============================================================================
