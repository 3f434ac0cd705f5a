------------------------------ MODULE MemFiles ------------------------------
(***************************************************************************)
(* A memory file (MemFileContent, fs/fd.rs): its bytes inline while it is  *)
(* short, in sparse chunks once it is long; and the operations of the      *)
(* descriptors on it: read, write, append, positioned and vectored calls,  *)
(* seek, truncate and allocate.  A chunk that is None, or shorter than its *)
(* place, reads as zeros.                                                  *)
(***************************************************************************)
EXTENDS Integers, Sequences, FiniteSetsExt, SequencesExt

CONSTANTS
    Inline_Limit,    \* MEM_FILE_INLINE_LIMIT
    ChunkSize,       \* MEM_FILE_CHUNK_SIZE
    MaxOffset,       \* MAX_FILE_OFFSET
    MemDescs,        \* descriptors of the file
    Appends,         \* those opened with O_APPEND
    Bufs,            \* the buffers written
    StackBuf,        \* VECTORED_STACK_BUF
    IoChunk,         \* VECTORED_IO_CHUNK
    NoChunk

VARIABLES
    content,         \* MemFileContent
    array,           \* ghost: the bytes a file promises (ByteFile)
    moff,            \* the offset of each descriptor
    wv               \* the writev() under way, of one thread

memVars == <<content, array, moff, wv>>

Bytes == INSTANCE ByteFile WITH data <- array

NoWritev == [pc |-> "idle"]

Zeros(n) == [i \in 1 .. n |-> 0]
CeilDiv(a, b) == (a + b - 1) \div b

-----------------------------------------------------------------------------
(* MemFileContent *)

MemLen(c) == IF c.kind = "inline" THEN Len(c.bytes) ELSE c.len

(* the byte of a chunk, or of a hole                                       *)
ChunkByte(c, pos) ==
    LET k == (pos \div ChunkSize) + 1
        o == (pos % ChunkSize) + 1
    IN  IF k \in DOMAIN c.chunks /\ c.chunks[k] # NoChunk /\ o <= Len(c.chunks[k])
        THEN c.chunks[k][o] ELSE 0

(* read_at() *)
ReadAt(c, offset, n) ==
    LET k == IF offset >= MemLen(c) THEN 0 ELSE Min({n, MemLen(c) - offset})
    IN  [i \in 1 .. k |-> IF c.kind = "inline" THEN c.bytes[offset + i]
                          ELSE ChunkByte(c, offset + i - 1)]

(* to_vec() *)
ToVec(c) == ReadAt(c, 0, MemLen(c))

(* from_slice(): chunks of zeros are not stored                            *)
Split(bytes) ==
    [k \in 1 .. CeilDiv(Len(bytes), ChunkSize) |->
        LET part == SubSeq(bytes, (k - 1) * ChunkSize + 1, Min({k * ChunkSize, Len(bytes)}))
        IN  IF part = Zeros(Len(part)) THEN NoChunk ELSE part]

Cut(chunk, n) == IF chunk = NoChunk THEN NoChunk ELSE SubSeq(chunk, 1, Min({n, Len(chunk)}))

(* resize() of a chunked file: the chunks are cut or padded with holes,    *)
(* the last one is cut to what is left of the file, and a file that is     *)
(* short again goes inline                                                 *)
ResizeChunked(c, n) ==
    LET needed == CeilDiv(n, ChunkSize)
        at(k) == IF k > Len(c.chunks) THEN NoChunk ELSE c.chunks[k]
        r == [kind |-> "chunked", len |-> n, bytes |-> <<>>,
              chunks |-> [k \in 1 .. needed |->
                            IF k = needed THEN Cut(at(k), n - (needed - 1) * ChunkSize)
                            ELSE at(k)]]
    IN  IF n <= Inline_Limit
        THEN [kind |-> "inline", bytes |-> ToVec(r), len |-> 0, chunks |-> <<>>] ELSE r

Resize(c, n) ==
    IF c.kind = "inline" /\ n <= Inline_Limit
    THEN [c EXCEPT !.bytes = [i \in 1 .. n |-> IF i <= Len(c.bytes) THEN c.bytes[i] ELSE 0]]
    ELSE IF c.kind = "inline"
    THEN ResizeChunked([kind |-> "chunked", len |-> Len(c.bytes), bytes |-> <<>>,
                        chunks |-> Split(c.bytes)], n)
    ELSE ResizeChunked(c, n)

WriteChunks_CutsRest(c, offset, buf) ==
    [c EXCEPT !.chunks = [k \in 1 .. Len(c.chunks) |->
        LET base == (k - 1) * ChunkSize
            lo   == Max({offset, base})
            hi   == Min({offset + Len(buf), base + ChunkSize})
            old  == IF c.chunks[k] = NoChunk THEN <<>> ELSE c.chunks[k]
        IN  IF lo >= hi THEN c.chunks[k]
            ELSE [i \in 1 .. hi - base |->
                    IF base + i > lo /\ base + i <= hi THEN buf[base + i - offset]
                    ELSE IF i <= Len(old) THEN old[i] ELSE 0]]]

(* write_at() into chunks: a chunk grows just far enough to hold what is   *)
(* written to it                                                           *)
WriteChunks(c, offset, buf) ==
    [c EXCEPT !.chunks = [k \in 1 .. Len(c.chunks) |->
        LET base == (k - 1) * ChunkSize
            lo   == Max({offset, base})
            hi   == Min({offset + Len(buf), base + ChunkSize})
            old  == IF c.chunks[k] = NoChunk THEN <<>> ELSE c.chunks[k]
        IN  IF lo >= hi THEN c.chunks[k]
            ELSE [i \in 1 .. Max({Len(old), hi - base}) |->
                    IF base + i > lo /\ base + i <= hi THEN buf[base + i - offset]
                    ELSE IF i <= Len(old) THEN old[i] ELSE 0]]]

WriteAt(c, offset, buf) ==
    LET end == offset + Len(buf)
        d   == IF end > MemLen(c) THEN Resize(c, end) ELSE c
    IN  IF d.kind = "chunked" THEN WriteChunks(d, offset, buf)
        ELSE [d EXCEPT !.bytes = [i \in DOMAIN d.bytes |->
                 IF i > offset /\ i <= end THEN buf[i - offset] ELSE d.bytes[i]]]

-----------------------------------------------------------------------------
(* FileDescriptor, the arms for memory files *)

(* checked_file_end() and checked_seek_from()                              *)
FileEndOK(offset, n) == offset + n <= MaxOffset
SeekOK(pos) == pos >= 0 /\ pos <= MaxOffset

MemRead(d, n) ==
    /\ moff' = [moff EXCEPT ![d] = @ + Len(ReadAt(content, @, n))]
    /\ UNCHANGED <<content, array>>

(* write(): an append starts at the end, the length being read under the   *)
(* lock of the file                                                        *)
StartOf(d) == IF d \in Appends THEN MemLen(content) ELSE moff[d]

MemWrite(d, buf) ==
    /\ FileEndOK(StartOf(d), Len(buf))
    /\ content' = WriteAt(content, StartOf(d), buf)
    /\ Bytes!WriteBytes(StartOf(d), buf)
    /\ moff' = [moff EXCEPT ![d] = StartOf(d) + Len(buf)]

(* a write beyond the largest offset fails; an append has moved the offset *)
MemWriteFails(d, buf) ==
    /\ ~FileEndOK(StartOf(d), Len(buf))
    /\ moff' = [moff EXCEPT ![d] = StartOf(d)]
    /\ UNCHANGED <<content, array>>

(* write_at(): pwrite64(), which leaves the offset alone                   *)
MemWriteAt(offset, buf) ==
    /\ FileEndOK(offset, Len(buf))
    /\ content' = WriteAt(content, offset, buf)
    /\ Bytes!WriteBytes(offset, buf)
    /\ UNCHANGED moff

(* seek_signed() *)
MemSeek(d, delta, whence) ==
    LET base == CASE whence = 0 -> 0 [] whence = 1 -> moff[d] [] whence = 2 -> MemLen(content)
    IN  /\ SeekOK(base + delta)
        /\ moff' = [moff EXCEPT ![d] = base + delta]
        /\ UNCHANGED <<content, array>>

(* truncate_with_readonly_errno() and, for the length it computes, allocate() *)
MemTruncate(n) ==
    /\ n <= MaxOffset
    /\ content' = Resize(content, n)
    /\ Bytes!SetLength(n)
    /\ UNCHANGED moff

MemAllocate(offset, n, keep) ==
    /\ n > 0 /\ FileEndOK(offset, n)
    /\ MemTruncate(IF keep THEN MemLen(content) ELSE Max({offset + n, MemLen(content)}))

-----------------------------------------------------------------------------
(* readv() and writev(): an iovec is a sequence of buffers; the one at     *)
(* `bad' cannot be reached.  A cursor is a buffer and a place in it.       *)

RECURSIVE Settle_KeepsOffset(_, _)
Settle_KeepsOffset(iovs, c) ==
    IF c.index <= Len(iovs) /\ c.offset >= Len(iovs[c.index])
    THEN Settle_KeepsOffset(iovs, [index |-> c.index + 1, offset |-> c.offset]) ELSE c

(* remaining_span(): past the buffers that are used up                     *)
RECURSIVE Settle(_, _)
Settle(iovs, c) ==
    IF c.index <= Len(iovs) /\ c.offset >= Len(iovs[c.index])
    THEN Settle(iovs, [index |-> c.index + 1, offset |-> 0]) ELSE c

(* fill_vectored_write_buf(): what is gathered before the buffer of size n *)
(* is full, the iovec ends or the bad buffer is met                        *)
RECURSIVE Fill(_, _, _, _)
Fill(iovs, c, n, bad) ==
    LET s == Settle(iovs, c)
        k == IF s.index > Len(iovs) THEN 0 ELSE Min({n, Len(iovs[s.index]) - s.offset})
    IN  IF n = 0 \/ s.index > Len(iovs) THEN [buf |-> <<>>, cur |-> s, err |-> FALSE]
        ELSE IF s.index = bad THEN [buf |-> <<>>, cur |-> s, err |-> TRUE]
        ELSE LET rest == Fill(iovs, [s EXCEPT !.offset = @ + k], n - k, bad)
             IN  [rest EXCEPT !.buf = SubSeq(iovs[s.index], s.offset + 1, s.offset + k) \o @]

(* remaining_bytes_capped() *)
RECURSIVE Remaining(_, _, _)
Remaining(iovs, c, cap) ==
    LET s == Settle(iovs, c)
        k == Min({cap, Len(iovs[s.index]) - s.offset})
    IN  IF cap = 0 \/ s.index > Len(iovs) THEN 0
        ELSE k + Remaining(iovs, [s EXCEPT !.offset = @ + k], cap - k)

WritevCall(d, iovs, bad) ==
    /\ wv.pc = "idle"
    /\ wv' = [pc |-> "chunk", d |-> d, iovs |-> iovs, bad |-> bad, sent |-> <<>>,
              cur |-> [index |-> 1, offset |-> 0]]
    /\ UNCHANGED <<content, array, moff>>

(* vectored_write_from_user(), one chunk: gathered into the small buffer   *)
(* if the rest fits it, and written under the lock of the table.  Others   *)
(* may write between two chunks.                                           *)
WritevChunk ==
    LET left == Remaining(wv.iovs, wv.cur, StackBuf + 1)
        f    == Fill(wv.iovs, wv.cur, IF left <= StackBuf THEN left ELSE IoChunk, wv.bad)
        fits == FileEndOK(StartOf(wv.d), Len(f.buf))
    IN  /\ wv.pc = "chunk"
        /\ IF left = 0 \/ f.buf = <<>>
           THEN wv' = [wv EXCEPT !.pc = "done"] /\ UNCHANGED <<content, array, moff>>
           ELSE IF fits
           THEN /\ MemWrite(wv.d, f.buf)
                /\ wv' = [wv EXCEPT !.sent = @ \o f.buf, !.cur = f.cur,
                                    !.pc = IF f.err THEN "done" ELSE "chunk"]
           ELSE MemWriteFails(wv.d, f.buf) /\ wv' = [wv EXCEPT !.pc = "big"]

WritevReturn ==
    /\ wv.pc \in {"done", "big"}
    /\ wv' = NoWritev
    /\ UNCHANGED <<content, array, moff>>

-----------------------------------------------------------------------------

MemInit ==
    /\ content = [kind |-> "inline", bytes |-> <<>>, len |-> 0, chunks |-> <<>>]
    /\ Bytes!FileInit
    /\ moff = [d \in MemDescs |-> 0]
    /\ wv = NoWritev

MemOp ==
    \/ \E d \in MemDescs :
         \/ \E n \in 1 .. MaxOffset : MemRead(d, n)
         \/ \E b \in Bufs : MemWrite(d, b) \/ MemWriteFails(d, b)
         \/ \E delta \in -1 .. 1, whence \in 0 .. 2 : MemSeek(d, delta, whence)
    \/ \E o \in 0 .. MaxOffset, b \in Bufs : MemWriteAt(o, b)
    \/ \E n \in 0 .. MaxOffset : MemTruncate(n)
    \/ \E o \in 0 .. MaxOffset, n \in 1 .. MaxOffset, keep \in BOOLEAN : MemAllocate(o, n, keep)

MemNext ==
    \/ MemOp /\ UNCHANGED wv
    \/ \E d \in MemDescs, a, b \in Bufs, bad \in 0 .. 2 : WritevCall(d, <<a, b>>, bad)
    \/ WritevChunk \/ WritevReturn

-----------------------------------------------------------------------------

(* A file is inline exactly while it is no longer than the limit, a chunk  *)
(* never extends past its place or past the end of the file, and no offset *)
(* passes the largest one                                                  *)
MemTypeOK ==
    /\ content.kind = "inline" => Len(content.bytes) <= Inline_Limit
    /\ content.kind = "chunked" =>
         /\ content.len > Inline_Limit
         /\ Len(content.chunks) = CeilDiv(content.len, ChunkSize)
         /\ \A k \in DOMAIN content.chunks :
              content.chunks[k] # NoChunk =>
                Len(content.chunks[k]) <= Min({ChunkSize, content.len - (k - 1) * ChunkSize})
    /\ moff \in [MemDescs -> 0 .. MaxOffset]

(* Whatever it was made by - writes over holes, truncation in the middle   *)
(* of a chunk, growth, changes of representation - the file reads as the   *)
(* array of bytes of ByteFile: read_at(), write_at() and resize() never    *)
(* bring back bytes cut off before                                         *)
ReadsAsBytes == ToVec(content) = array

(* A gathered write delivers the bytes of the buffers in order up to the   *)
(* first one it cannot read, wherever the boundaries of buffers and of the *)
(* kernel's chunks fall (vectored_write_from_user(), IovCursor)            *)
GatherInOrder ==
    LET good == IF wv.bad = 0 \/ wv.iovs[wv.bad] = <<>> THEN wv.iovs
                ELSE SubSeq(wv.iovs, 1, wv.bad - 1)
    IN  wv.pc # "idle" => /\ IsPrefix(wv.sent, FlattenSeq(good))
                          /\ wv.pc = "done" => wv.sent = FlattenSeq(good)

(* Together: a memory file is the array of bytes its calls wrote.          *)
MemSafe == MemTypeOK /\ ReadsAsBytes /\ GatherInOrder

=============================================================================
