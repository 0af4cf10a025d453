---------------------------- MODULE PartitionIO ----------------------------
(***************************************************************************)
(* The three loops that move the bytes of one partition:                   *)
(* BasicPartition_t::dump, BasicPartition_t::write and the zero fill of    *)
(* ErasePlugin::runAsync.  Every system call may transfer less than asked  *)
(* or fail; `off` is the unsigned counter of the code, modulo Word.  A     *)
(* byte is a number: k > 0 is the k-th byte of the source, 0 a zero byte,  *)
(* Old what the partition held before.                                     *)
(***************************************************************************)
EXTENDS Integers, Sequences

CONSTANTS
  Size,         \* bytes of the partition
  ImageSizes,   \* sizes an image to flash may have
  BufSize,      \* the buffer after the plugin's clamping
  Word,         \* 2^64 of the model
  ReadFaults    \* what reads of a partition may do: fail with "EPERM" or "EIO", or
                \* find the device shorter than it said ("eof")

ASSUME PartitionIOAssumption ==
  /\ Size \in Nat \ {0}
  /\ ImageSizes \subseteq Nat \ {0}
  /\ BufSize \in Nat \ {0}
  /\ Word \in Nat /\ Word > Size + 1
  /\ ReadFaults \subseteq {"EPERM", "EIO", "eof"}

VARIABLES
  op,        \* "dump", "write", "erase"; constant in a behaviour
  imageSize, \* of the image to flash; constant in a behaviour
  fault,     \* how reads of this partition go wrong, if they do; constant too
  bad,       \* ... and the byte they go wrong at; constant
  pc,        \* "open", "loop", "fill", "sync", "done"
  off,       \* bytesReadSoFar, bytesWrittenSoFar or bytesWritten
  dev,       \* the partition
  img,       \* the image a dump writes, its first Size + 1 bytes
  errno,     \* the thread's errno, which no successful call clears
  done,      \* Progress_t::done, set by the callback
  synced,    \* the partition's data is on the medium
  ret        \* "none", "true", "false": returned; "threw"

vars == <<op, imageSize, fault, bad, pc, off, dev, img, errno, done, synced, ret>>

Old == -1
\* Progress_t::total, which draw() divides by: the plugins pass the partition's
\* size.
Total == Size
Least(a, b) == IF a < b THEN a ELSE b

TypeOK ==
  /\ op \in {"dump", "write", "erase"}
  /\ imageSize \in ImageSizes
  /\ fault \in ReadFaults \cup {"none"}
  /\ bad \in 0..(Size - 1)
  /\ pc \in {"open", "loop", "fill", "sync", "done"}
  /\ off \in 0..(Word - 1)
  /\ dev \in [1..Size -> Int]
  /\ img \in Seq(Int)
  /\ errno \in {"none", "EPERM", "EIO", "EINVAL"}
  /\ done \in 0..(Word - 1)
  /\ synced \in BOOLEAN
  /\ ret \in {"none", "true", "false", "threw"}

Init ==
  /\ op \in {"dump", "write", "erase"}
  /\ imageSize \in ImageSizes
  /\ fault \in (IF op = "dump" THEN ReadFaults \cup {"none"} ELSE {"none"})
  /\ bad \in (IF fault = "none" THEN {0} ELSE 0..(Size - 1))
  /\ pc = "open"
  /\ off = 0
  /\ dev = [i \in 1..Size |-> IF op = "dump" THEN i ELSE Old]
  /\ img = <<>>
  /\ errno \in {"none", "EPERM"}
  /\ done = 0
  /\ synced = FALSE
  /\ ret = "none"
-----------------------------------------------------------------------------
Throw ==
  /\ pc' = "done"
  /\ ret' = "threw"

Return(r) ==
  /\ pc' = "done"
  /\ ret' = IF r THEN "true" ELSE "false"

Goto(p) ==
  /\ pc' = p
  /\ UNCHANGED ret

\* open(2) of the image or of the partition; write() first compares the sizes.
Open ==
  /\ pc = "open"
  /\ \/ Throw
     \/ /\ op = "write" => imageSize <= Size
        /\ Goto("loop")
  /\ UNCHANGED <<op, imageSize, fault, bad, off, dev, img, errno, done, synced>>

Image == [i \in 1..Size |-> i]
Zeros == [i \in 1..Size |-> 0]

\* n bytes of `data` from `off` on land in the partition at `off`.
Put(n, data) == dev' = [i \in 1..Size |-> IF i \in (off + 1)..(off + n) THEN data[i] ELSE dev[i]]
-----------------------------------------------------------------------------
(* dump *)

\* What write(2) put into the image: the n bytes read at `off`.  An image that
\* has outgrown the partition is no copy of it, whatever else is appended.
Append_(n) == img' = [i \in 1..Least(Len(img) + n, Size + 1) |->
                        IF i <= Len(img) THEN img[i] ELSE dev[off + i - Len(img)]]

\* How far a read at `off` may get: up to the byte it goes wrong at.  A read
\* that failed with EIO may succeed at the next try.
Reach == IF fault = "none" \/ off > bad \/ (fault = "EIO" /\ off = bad) THEN Size ELSE bad

\* Mutant: the counter moves by what was asked for.
DumpChunkAsked ==
  /\ op = "dump" /\ pc = "loop" /\ off < Size
  /\ \E n \in 1..Least(BufSize, Reach - off) : Append_(n)
  /\ off' = off + Least(BufSize, Size - off)
  /\ done' = off'
  /\ UNCHANGED <<op, imageSize, fault, bad, pc, dev, errno, synced, ret>>

\* Mutant: the callback is called before the counter moves.
DumpChunkReportsFirst ==
  /\ op = "dump" /\ pc = "loop" /\ off < Size
  /\ \E n \in 1..Least(BufSize, Reach - off) : Append_(n) /\ off' = off + n
  /\ done' = off
  /\ UNCHANGED <<op, imageSize, fault, bad, pc, dev, errno, synced, ret>>

DumpChunk ==
  /\ op = "dump" /\ pc = "loop" /\ off < Size
  /\ \E n \in 1..Least(BufSize, Reach - off) :
       \/ /\ Append_(n)
          /\ off' = off + n
          /\ done' = off'
          /\ UNCHANGED <<pc, ret>>
       \/ \E w \in 0..(n - 1) : Append_(w) /\ Throw /\ UNCHANGED <<off, done>>
  /\ UNCHANGED <<op, imageSize, fault, bad, dev, errno, synced>>

\* A failed read is an error only if errno is EPERM.  Otherwise the -1 goes on
\* to write(2) as a count, which fails with -1 as well, so that the comparison
\* holds, and to the counter, which steps back by one.  There is no limit to
\* how often this happens: a sector that stays bad is read again and again.
DumpReadFails ==
  /\ op = "dump" /\ pc = "loop" /\ off < Size
  /\ off = bad
  /\ \/ /\ fault = "EPERM"
        /\ errno' = fault
        /\ Throw
        /\ UNCHANGED <<off, done>>
     \/ /\ fault = "EIO"
        /\ errno' = "EINVAL"
        /\ off' = (off - 1) % Word
        /\ done' = off'
        /\ UNCHANGED <<pc, ret>>
  /\ UNCHANGED <<op, imageSize, fault, bad, dev, img, synced>>

\* A read of 0 bytes writes 0 bytes and stays in the loop, unless an EPERM is
\* left over in errno.
DumpReadsNothing ==
  /\ op = "dump" /\ pc = "loop" /\ off < Size
  /\ fault = "eof" /\ off = bad
  /\ IF errno = "EPERM" THEN Throw ELSE UNCHANGED <<pc, ret>>
  /\ done' = IF errno = "EPERM" THEN done ELSE off
  /\ UNCHANGED <<op, imageSize, fault, bad, off, dev, img, errno, synced>>

DumpDone ==
  /\ op = "dump" /\ pc = "loop" /\ off >= Size
  /\ Return(off = Size)
  /\ UNCHANGED <<op, imageSize, fault, bad, off, dev, img, errno, done, synced>>
-----------------------------------------------------------------------------
(* write *)

\* One buffer of the image.  The read of the image throws on 0 and on -1; a
\* write that is not complete throws and leaves what it wrote.
WriteChunk ==
  /\ op = "write" /\ pc = "loop" /\ off < imageSize
  /\ \/ /\ \E n \in 1..Least(BufSize, imageSize - off) :
             \/ Put(n, Image) /\ off' = off + n /\ done' = off' /\ UNCHANGED <<pc, ret>>
             \/ \E w \in 0..(n - 1) : Put(w, Image) /\ Throw /\ UNCHANGED <<off, done>>
     \/ Throw /\ UNCHANGED <<dev, off, done>>
  /\ UNCHANGED <<op, imageSize, fault, bad, img, errno, synced>>

\* Mutant: a rest smaller than the buffer is not filled.
WriteImageDoneWholeBuffers ==
  /\ op = "write" /\ pc = "loop" /\ off >= imageSize
  /\ Goto(IF off + BufSize <= Size THEN "fill" ELSE "sync")
  /\ UNCHANGED <<op, imageSize, fault, bad, off, dev, img, errno, done, synced>>

WriteImageDone ==
  /\ op = "write" /\ pc = "loop" /\ off >= imageSize
  /\ Goto(IF off < Size THEN "fill" ELSE "sync")
  /\ UNCHANGED <<op, imageSize, fault, bad, off, dev, img, errno, done, synced>>

\* Mutant: a short write counts in full.
FillChunkAsked ==
  /\ op = "write" /\ pc = "fill"
  /\ \E n \in 1..Least(BufSize, Size - off) : Put(n, Zeros)
  /\ off' = off + Least(BufSize, Size - off)
  /\ IF off' = Size THEN Goto("sync") ELSE UNCHANGED <<pc, ret>>
  /\ UNCHANGED <<op, imageSize, fault, bad, img, errno, done, synced>>

\* Zeros up to the end of the partition; here a short write goes on.
FillChunk ==
  /\ op = "write" /\ pc = "fill"
  /\ \/ \E n \in 1..Least(BufSize, Size - off) :
          /\ Put(n, Zeros)
          /\ off' = off + n
          /\ IF off' = Size THEN Goto("sync") ELSE UNCHANGED <<pc, ret>>
     \/ Throw /\ UNCHANGED <<dev, off>>
  /\ UNCHANGED <<op, imageSize, fault, bad, img, errno, done, synced>>

\* The result of openpart_sync is not looked at.
Sync ==
  /\ op = "write" /\ pc = "sync"
  /\ synced' \in BOOLEAN
  /\ Return(off = imageSize)
  /\ UNCHANGED <<op, imageSize, fault, bad, off, dev, img, errno, done>>
-----------------------------------------------------------------------------
(* erase: an error result stands for Throw, the success result for TRUE. *)

\* Mutant: a short write starts over.
EraseChunkRestarts ==
  /\ op = "erase" /\ pc = "loop" /\ off < Size
  /\ \E n \in 1..Least(BufSize, Size - off) :
       /\ Put(n, Zeros)
       /\ off' = IF n < Least(BufSize, Size - off) THEN 0 ELSE off + n
  /\ UNCHANGED <<op, imageSize, fault, bad, pc, img, errno, done, synced, ret>>

EraseChunk ==
  /\ op = "erase" /\ pc = "loop" /\ off < Size
  /\ \/ \E n \in 1..Least(BufSize, Size - off) :
          Put(n, Zeros) /\ off' = off + n /\ UNCHANGED <<pc, ret>>
     \/ Throw /\ UNCHANGED <<dev, off>>
  /\ UNCHANGED <<op, imageSize, fault, bad, img, errno, done, synced>>

\* Mutant: stops when no whole buffer is left.
EraseDoneWholeBuffers ==
  /\ op = "erase" /\ pc = "loop" /\ off + BufSize > Size
  /\ Return(TRUE)
  /\ synced' \in BOOLEAN
  /\ UNCHANGED <<op, imageSize, fault, bad, off, dev, img, errno, done>>

\* ~UniqueFD syncs and does not look at the result either.
EraseDone ==
  /\ op = "erase" /\ pc = "loop" /\ off >= Size
  /\ Return(TRUE)
  /\ synced' \in BOOLEAN
  /\ UNCHANGED <<op, imageSize, fault, bad, off, dev, img, errno, done>>
-----------------------------------------------------------------------------
Finished == pc = "done" /\ UNCHANGED vars

Next ==
  \/ Open
  \/ DumpChunk \/ DumpReadFails \/ DumpReadsNothing \/ DumpDone
  \/ WriteChunk \/ WriteImageDone \/ FillChunk \/ Sync
  \/ EraseChunk \/ EraseDone
  \/ Finished

Spec == Init /\ [][Next]_vars
FairSpec == Spec /\ WF_vars(Next)
-----------------------------------------------------------------------------
(* Properties. *)

\* dump() may only return true with the whole partition in the image, byte for
\* byte, however its reads are cut up, if they fail with EPERM or not at all.
DumpTrueMeansCopy ==
  op = "dump" /\ ret = "true" /\ fault # "EIO" => img = [i \in 1..Size |-> i]

\* A write() that returns, true or false, has put the image at the start of
\* the partition and zeros behind it, to the last byte.
WriteMeansImageAndZeros ==
  op = "write" /\ ret \in {"true", "false"} =>
    dev = [i \in 1..Size |-> IF i <= imageSize THEN i ELSE 0]

\* An erase that reports success has left no old byte.
EraseMeansZeros == op = "erase" /\ ret = "true" => \A i \in 1..Size : dev[i] = 0

\* While a loop runs, what is before the counter is done and what is behind it
\* is untouched: a short transfer makes it neither skip nor repeat a byte.  The
\* callback has reported exactly the bytes of the source that arrived, and none
\* of the zeros behind an image.
NothingSkipped ==
  pc # "done" /\ fault # "EIO" =>
    /\ op = "dump" => img = [i \in 1..off |-> i] /\ done = off
    /\ op = "write" => done = Least(off, imageSize)
    /\ op # "dump" =>
         \A i \in 1..Size :
           dev[i] = IF i > off THEN Old
                    ELSE IF op = "write" /\ i <= imageSize THEN i ELSE 0

\* The bar is drawn from done / total, of a total that is the size of the
\* partition for backup and flash alike.  It never gets past its end; it is
\* full behind a backup that succeeded; and behind a flash it is full exactly if
\* the image filled the partition: it stops short of its end at any smaller
\* image, though the operation is complete.  A read that failed with EIO is
\* exempt: the count may have wrapped, and then the bar has no end.
BarIsShare ==
  fault # "EIO" =>
    /\ done <= Total
    /\ op = "dump" /\ ret = "true" => done = Total
    /\ op = "write" /\ ret \in {"true", "false"} => (done = Total <=> imageSize = Size)

\* Each operation ends, but for one kind: a dump that comes back for ever to a
\* byte its device does not give, with an error other than EPERM or because the
\* device ends there.  A partition that cannot be read for want of permission,
\* a flash and an erase are never caught in their loops.
Stuck == op = "dump" /\ pc = "loop" /\ fault \in {"EIO", "eof"} /\ off = bad /\ errno # "EPERM"
Ends == <>(pc = "done") \/ []<>Stuck

\* BackupPlugin.cpp:173, "true if all backup operations succeeded": the plugin
\* counts a dump that returns, with either value, as a success.
DumpReturnMeansCopy ==
  op = "dump" /\ ret \in {"true", "false"} => img = [i \in 1..Size |-> i]
=============================================================================
