------------------------- MODULE PartitionIO_proofs -------------------------
(***************************************************************************)
(* Proofs about the byte loops, for any size of partition, image and       *)
(* buffer: however the system cuts the transfers up, no byte is skipped or *)
(* repeated, and a loop that returns has moved them all.                   *)
(***************************************************************************)
EXTENDS PartitionIO, TLAPS

\* Where the counter may be at each place of the loops. Without reads that fail with EIO it
\* never passes the end of the partition.
Control ==
  /\ op # "dump" => fault = "none"
  /\ op = "dump" => dev = [i \in 1..Size |-> i]
  /\ fault # "EIO" => off <= Size /\ done <= Size
  /\ pc \in {"fill", "sync"} => op = "write"
  /\ pc = "open" => off = 0
  /\ op = "write" /\ pc \in {"loop", "fill", "sync"} => imageSize <= Size
  /\ op = "write" /\ pc = "loop" => off <= imageSize
  /\ pc = "fill" => imageSize <= off /\ off < Size
  /\ pc = "sync" => off = Size
  /\ pc # "done" => ret = "none"

Meaning == DumpTrueMeansCopy /\ WriteMeansImageAndZeros /\ EraseMeansZeros /\ BarIsShare

IInv == TypeOK /\ Control /\ NothingSkipped /\ Meaning

\* What never changes, and the loop that is running.
Running == /\ Size \in Nat \ {0} /\ BufSize \in Nat \ {0} /\ Word \in Nat /\ Word > Size + 1
           /\ imageSize \in Nat \ {0} /\ off \in Nat /\ off < Word /\ done \in Nat

LEMMA Numbers == TypeOK => Running
BY PartitionIOAssumption DEF TypeOK, Running

\* An exception leaves the loop, and nothing is claimed of what it leaves behind.
LEMMA ThrowKeeps ==
  ASSUME IInv, Throw, UNCHANGED <<op, imageSize, fault, off, done>>, TypeOK',
         op = "dump" => dev' = dev
  PROVE  IInv'
<1>1. Control'
  BY DEF IInv, Control, Throw
<1>2. NothingSkipped' /\ Meaning'
  BY <1>1 DEF Throw, Control, NothingSkipped, Meaning, DumpTrueMeansCopy, WriteMeansImageAndZeros,
              EraseMeansZeros, BarIsShare, Total
<1>. QED BY <1>1, <1>2 DEF IInv

\* While no call has returned, nothing is claimed of what it means.
LEMMA MeaningLater == ASSUME ret' = "none", Control' PROVE Meaning'
BY DEF Control, Meaning, DumpTrueMeansCopy, WriteMeansImageAndZeros, EraseMeansZeros, BarIsShare, Total

LEMMA InitIInv == Init => IInv
<1>. SUFFICES ASSUME Init PROVE IInv
  OBVIOUS
<1>1. TypeOK
  <2>1. dev \in [1..Size -> Int] /\ img \in Seq(Int) /\ off = 0 /\ done = 0 /\ 0 \in 0..(Word - 1) /\ bad \in 0..(Size - 1)
    BY PartitionIOAssumption DEF Init, Old
  <2>. QED BY <2>1 DEF Init, TypeOK
<1>2. Running
  BY <1>1, Numbers
<1>3. Control
  BY <1>2 DEF Init, Control, Running
<1>4. NothingSkipped
  BY <1>2 DEF Init, NothingSkipped, Least, Running
<1>5. Meaning
  BY <1>2 DEF Init, Meaning, DumpTrueMeansCopy, WriteMeansImageAndZeros, EraseMeansZeros, BarIsShare, Total, Running
<1>. QED BY <1>1, <1>3, <1>4, <1>5 DEF IInv

LEMMA OpenKeeps == ASSUME IInv, Open PROVE IInv'
<1>1. TypeOK' /\ UNCHANGED <<op, imageSize, fault, off, dev, done>>
  BY DEF Open, IInv, TypeOK, Throw, Goto
<1>2. CASE Throw
  BY <1>1, <1>2, ThrowKeeps
<1>3. CASE (op = "write" => imageSize <= Size) /\ Goto("loop")
  <2>1. Control'
    BY <1>1, <1>3, Numbers DEF Open, IInv, Control, Goto, Running
  <2>2. NothingSkipped'
    BY <1>3 DEF Open, IInv, NothingSkipped
  <2>3. ret' = "none"
    BY <1>3 DEF Open, Goto, IInv, Control
  <2>. QED BY <1>1, <2>1, <2>2, <2>3, MeaningLater DEF IInv
<1>. QED BY <1>2, <1>3 DEF Open

-----------------------------------------------------------------------------
(* dump *)

\* Where a copy has been appended to, byte by byte.
LEMMA Appended ==
  ASSUME TypeOK, NEW n \in Nat, off + n <= Size, Append_(n)
  PROVE  img' \in Seq(Int)
<1>1. Len(img) \in Nat /\ img \in [1..Len(img) -> Int] /\ dev \in [1..Size -> Int] /\ off \in Nat /\ Size \in Nat
  BY Numbers DEF TypeOK, Running
<1>2. ASSUME NEW i \in 1..Least(Len(img) + n, Size + 1)
      PROVE  (IF i <= Len(img) THEN img[i] ELSE dev[off + i - Len(img)]) \in Int
  BY <1>1, <1>2 DEF Least
<1>3. Least(Len(img) + n, Size + 1) \in Nat
  BY <1>1 DEF Least
<1>. QED BY <1>2, <1>3 DEF Append_

\* A chunk moves the counter, the copy and the progress by the same number; a write(2) that is
\* not complete throws.
LEMMA DumpChunkKeeps == ASSUME IInv, DumpChunk PROVE IInv'
<1> USE Numbers DEF IInv, Running
<1>1. PICK n \in 1..Least(BufSize, Reach - off) :
        \/ Append_(n) /\ off' = off + n /\ done' = off' /\ UNCHANGED <<pc, ret>>
        \/ \E w \in 0..(n - 1) : Append_(w) /\ Throw /\ UNCHANGED <<off, done>>
  BY DEF DumpChunk
<1>2. n \in Nat /\ n >= 1 /\ off + n <= Size /\ op = "dump" /\ pc = "loop" /\ off < Size
  BY DEF DumpChunk, Least, Reach, TypeOK
<1>3. UNCHANGED <<op, imageSize, fault, bad, dev, errno, synced>>
  BY DEF DumpChunk
<1>4. CASE Append_(n) /\ off' = off + n /\ done' = off' /\ UNCHANGED <<pc, ret>>
  <2>1. TypeOK'
    BY <1>2, <1>3, <1>4, Appended DEF TypeOK
  <2>2. Control'
    BY <1>2, <1>3, <1>4 DEF Control
  <2>3. NothingSkipped'
    <3>1. ASSUME fault # "EIO" PROVE img' = [i \in 1..(off + n) |-> i]
      <4>1. img = [i \in 1..off |-> i] /\ dev = [i \in 1..Size |-> i]
        BY <1>2, <3>1 DEF NothingSkipped, Control
      <4>2. Len(img) = off /\ Least(off + n, Size + 1) = off + n
        BY <1>2, <4>1 DEF Least
      <4>3. ASSUME NEW i \in 1..(off + n) PROVE (IF i <= off THEN img[i] ELSE dev[off + i - off]) = i
        BY <1>2, <4>1
      <4>. QED BY <1>4, <4>2, <4>3 DEF Append_
    <3>. QED BY <1>2, <1>3, <1>4, <3>1 DEF NothingSkipped
  <2>4. ret' = "none"
    BY <1>2, <1>4 DEF Control
  <2>. QED BY <2>1, <2>2, <2>3, <2>4, MeaningLater
<1>5. ASSUME NEW w \in 0..(n - 1), Append_(w), Throw, UNCHANGED <<off, done>> PROVE IInv'
  <2>1. TypeOK'
    BY <1>2, <1>3, <1>5, Appended DEF TypeOK, Throw
  <2>. QED BY <1>3, <1>5, <2>1, ThrowKeeps
<1>. QED BY <1>1, <1>4, <1>5

\* Only EIO makes the counter step back, and nothing is said of it.
LEMMA DumpReadFailsKeeps == ASSUME IInv, DumpReadFails PROVE IInv'
<1>1. op = "dump" /\ pc = "loop" /\ UNCHANGED <<op, imageSize, fault, bad, dev, img, synced>>
  BY PartitionIOAssumption DEF DumpReadFails, IInv, TypeOK
<1>2. CASE fault = "EPERM" /\ errno' = fault /\ Throw /\ UNCHANGED <<off, done>>
  <2>1. TypeOK'
    BY <1>1, <1>2 DEF IInv, TypeOK, Throw
  <2>. QED BY <1>1, <1>2, <2>1, ThrowKeeps
<1>3. CASE fault = "EIO" /\ errno' = "EINVAL" /\ off' = (off - 1) % Word /\ done' = off' /\ UNCHANGED <<pc, ret>>
  <2>1. off' \in 0..(Word - 1)
    BY <1>3, Numbers DEF IInv, Running
  <2>2. TypeOK'
    BY <1>1, <1>3, <2>1 DEF IInv, TypeOK
  <2>3. Control' /\ NothingSkipped'
    BY <1>1, <1>3 DEF IInv, Control, NothingSkipped
  <2>4. ret' = "none"
    BY <1>1, <1>3 DEF IInv, Control
  <2>. QED BY <2>2, <2>3, <2>4, MeaningLater DEF IInv
<1>. QED BY <1>2, <1>3 DEF DumpReadFails

LEMMA DumpReadsNothingKeeps == ASSUME IInv, DumpReadsNothing PROVE IInv'
<1>1. /\ op = "dump" /\ pc = "loop" /\ fault = "eof"
      /\ UNCHANGED <<op, imageSize, fault, bad, off, dev, img, errno, synced>>
      /\ done' \in {done, off}
  BY DEF DumpReadsNothing
<1>2. CASE Throw /\ UNCHANGED done
  <2>1. TypeOK'
    BY <1>1, <1>2 DEF IInv, TypeOK, Throw
  <2>. QED BY <1>1, <1>2, <2>1, ThrowKeeps
<1>3. CASE UNCHANGED <<pc, ret>>
  <2>1. TypeOK'
    BY <1>1, <1>3 DEF IInv, TypeOK
  <2>2. Control' /\ ret' = "none"
    BY <1>1, <1>3 DEF IInv, Control
  <2>3. NothingSkipped'
    BY <1>1, <1>3 DEF IInv, NothingSkipped
  <2>. QED BY <2>1, <2>2, <2>3, MeaningLater DEF IInv
<1>. QED BY <1>2, <1>3 DEF DumpReadsNothing

\* The copy is whole where the counter is at the end.
LEMMA DumpDoneKeeps == ASSUME IInv, DumpDone PROVE IInv'
<1>1. /\ op = "dump" /\ pc = "loop" /\ off >= Size /\ Return(off = Size)
      /\ UNCHANGED <<op, imageSize, fault, bad, off, dev, img, errno, done, synced>>
  BY DEF DumpDone
<1>2. TypeOK'
  BY <1>1 DEF IInv, TypeOK, Return
<1>3. Control' /\ NothingSkipped'
  BY <1>1 DEF IInv, Control, NothingSkipped, Return
<1>4. fault # "EIO" => img = [i \in 1..Size |-> i]
  BY <1>1, Numbers DEF IInv, Control, NothingSkipped, Running
<1>5. Meaning'
  BY <1>1, <1>3, <1>4, Numbers DEF IInv, Control, NothingSkipped, Running, Least, Return, Meaning, DumpTrueMeansCopy, WriteMeansImageAndZeros, EraseMeansZeros, BarIsShare, Total
<1>. QED BY <1>2, <1>3, <1>5 DEF IInv

-----------------------------------------------------------------------------
(* write and erase *)

\* n bytes put at the counter: the partition stays one, and only these bytes change.
LEMMA PutBytes ==
  ASSUME TypeOK, NEW data \in [1..Size -> Int], NEW n \in Nat, off + n <= Size, Put(n, data)
  PROVE  /\ dev' \in [1..Size -> Int]
         /\ \A i \in 1..Size : dev'[i] = IF off < i /\ i <= off + n THEN data[i] ELSE dev[i]
BY Numbers DEF TypeOK, Put, Running

LEMMA Data == Image \in [1..Size -> Int] /\ Zeros \in [1..Size -> Int]
BY PartitionIOAssumption DEF Image, Zeros

LEMMA WriteChunkKeeps == ASSUME IInv, WriteChunk PROVE IInv'
<1>1. op = "write" /\ pc = "loop" /\ off < imageSize /\ UNCHANGED <<op, imageSize, fault, bad, img, errno, synced>>
  BY DEF WriteChunk
<1>2. Running /\ imageSize <= Size /\ TypeOK /\ fault # "EIO" /\ ret = "none"
  BY <1>1, Numbers DEF IInv, Control
<1>3. CASE Throw /\ UNCHANGED <<dev, off, done>>
  <2>1. TypeOK'
    BY <1>1, <1>3 DEF IInv, TypeOK, Throw
  <2>. QED BY <1>1, <1>3, <2>1, ThrowKeeps
<1>4. ASSUME NEW n \in 1..Least(BufSize, imageSize - off),
             Put(n, Image), off' = off + n, done' = off', UNCHANGED <<pc, ret>>
      PROVE  IInv'
  <2>1. n \in Nat /\ off + n <= imageSize /\ off + n <= Size
    BY <1>1, <1>2, <1>4 DEF Least, Running
  <2>2. /\ dev' \in [1..Size -> Int]
        /\ \A i \in 1..Size : dev'[i] = IF off < i /\ i <= off + n THEN Image[i] ELSE dev[i]
    BY <1>2, <1>4, <2>1, PutBytes, Data
  <2>3. TypeOK'
    BY <1>1, <1>2, <1>4, <2>1, <2>2 DEF TypeOK, Running
  <2>4. Control'
    BY <1>1, <1>2, <1>4, <2>1 DEF IInv, Control, Running
  <2>5. NothingSkipped'
    <3>1. done' = Least(off', imageSize')
      BY <1>1, <1>2, <1>4, <2>1 DEF Least, Running
    <3>2. ASSUME NEW i \in 1..Size
          PROVE  dev'[i] = IF i > off' THEN Old ELSE IF i <= imageSize THEN i ELSE 0
      <4>1. dev[i] = IF i > off THEN Old ELSE IF i <= imageSize THEN i ELSE 0
        BY <1>1, <1>2 DEF IInv, NothingSkipped
      <4>2. dev'[i] = IF off < i /\ i <= off + n THEN i ELSE dev[i]
        BY <2>2 DEF Image
      <4>. QED BY <1>1, <1>2, <1>4, <2>1, <4>1, <4>2 DEF Running
    <3>. QED BY <1>1, <3>1, <3>2 DEF NothingSkipped
  <2>. QED BY <1>2, <1>4, <2>3, <2>4, <2>5, MeaningLater DEF IInv
<1>5. ASSUME NEW n \in 1..Least(BufSize, imageSize - off), NEW w \in 0..(n - 1),
             Put(w, Image), Throw, UNCHANGED <<off, done>>
      PROVE  IInv'
  <2>1. w \in Nat /\ off + w <= Size
    BY <1>1, <1>2, <1>5 DEF Least, Running
  <2>2. TypeOK'
    BY <1>1, <1>2, <1>5, <2>1, PutBytes, Data DEF TypeOK, Throw
  <2>. QED BY <1>1, <1>5, <2>2, ThrowKeeps
<1>. QED BY <1>3, <1>4, <1>5 DEF WriteChunk

LEMMA WriteImageDoneKeeps == ASSUME IInv, WriteImageDone PROVE IInv'
<1>1. /\ op = "write" /\ pc = "loop" /\ off >= imageSize /\ Goto(IF off < Size THEN "fill" ELSE "sync")
      /\ UNCHANGED <<op, imageSize, fault, bad, off, dev, img, errno, done, synced>>
  BY DEF WriteImageDone
<1>2. TypeOK'
  BY <1>1 DEF IInv, TypeOK, Goto
<1>3. Control' /\ ret' = "none"
  BY <1>1, Numbers DEF IInv, Control, Goto, Running
<1>4. NothingSkipped'
  BY <1>1 DEF IInv, NothingSkipped
<1>. QED BY <1>2, <1>3, <1>4, MeaningLater DEF IInv

\* Zeros are put behind what is there.
LEMMA FillChunkKeeps == ASSUME IInv, FillChunk PROVE IInv'
<1>1. op = "write" /\ pc = "fill" /\ UNCHANGED <<op, imageSize, fault, bad, img, errno, done, synced>>
  BY DEF FillChunk
<1>2. Running /\ imageSize <= off /\ off < Size /\ TypeOK /\ fault # "EIO" /\ ret = "none" /\ imageSize <= Size
  BY <1>1, Numbers DEF IInv, Control
<1>3. CASE Throw /\ UNCHANGED <<dev, off>>
  <2>1. TypeOK'
    BY <1>1, <1>3 DEF IInv, TypeOK, Throw
  <2>. QED BY <1>1, <1>3, <2>1, ThrowKeeps
<1>4. ASSUME NEW n \in 1..Least(BufSize, Size - off), Put(n, Zeros), off' = off + n,
             IF off' = Size THEN Goto("sync") ELSE UNCHANGED <<pc, ret>>
      PROVE  IInv'
  <2>1. n \in Nat /\ off + n <= Size
    BY <1>2, <1>4 DEF Least, Running
  <2>2. /\ dev' \in [1..Size -> Int]
        /\ \A i \in 1..Size : dev'[i] = IF off < i /\ i <= off + n THEN Zeros[i] ELSE dev[i]
    BY <1>2, <1>4, <2>1, PutBytes, Data
  <2>3. ret' = ret /\ pc' = IF off + n = Size THEN "sync" ELSE "fill"
    BY <1>1, <1>4 DEF Goto
  <2>4. TypeOK'
    BY <1>1, <1>2, <1>4, <2>1, <2>2, <2>3 DEF TypeOK, Running
  <2>5. Control'
    BY <1>1, <1>2, <1>4, <2>1, <2>3 DEF IInv, Control, Running
  <2>6. NothingSkipped'
    <3>1. done' = Least(off', imageSize')
      BY <1>1, <1>2, <1>4, <2>1 DEF IInv, NothingSkipped, Least, Running
    <3>2. ASSUME NEW i \in 1..Size
          PROVE  dev'[i] = IF i > off' THEN Old ELSE IF i <= imageSize THEN i ELSE 0
      <4>1. dev[i] = IF i > off THEN Old ELSE IF i <= imageSize THEN i ELSE 0
        BY <1>1, <1>2 DEF IInv, NothingSkipped
      <4>2. dev'[i] = IF off < i /\ i <= off + n THEN 0 ELSE dev[i]
        BY <2>2 DEF Zeros
      <4>. QED BY <1>1, <1>2, <1>4, <2>1, <4>1, <4>2 DEF Running
    <3>. QED BY <1>1, <3>1, <3>2 DEF NothingSkipped
  <2>. QED BY <1>2, <2>3, <2>4, <2>5, <2>6, MeaningLater DEF IInv
<1>. QED BY <1>3, <1>4 DEF FillChunk

\* At the sync every byte is the image's or zero.
LEMMA SyncKeeps == ASSUME IInv, Sync PROVE IInv'
<1>1. /\ op = "write" /\ pc = "sync" /\ synced' \in BOOLEAN /\ Return(off = imageSize)
      /\ UNCHANGED <<op, imageSize, fault, bad, off, dev, img, errno, done>>
  BY DEF Sync
<1>2. TypeOK'
  BY <1>1 DEF IInv, TypeOK, Return
<1>3. Control' /\ NothingSkipped'
  BY <1>1 DEF IInv, Control, NothingSkipped, Return
<1>4. dev = [i \in 1..Size |-> IF i <= imageSize THEN i ELSE 0]
  <2>1. off = Size /\ fault # "EIO" /\ dev \in [1..Size -> Int] /\ Running
    BY <1>1, Numbers DEF IInv, Control, TypeOK
  <2>2. \A i \in 1..Size : dev[i] = IF i <= imageSize THEN i ELSE 0
    BY <1>1, <2>1 DEF IInv, NothingSkipped, Running
  <2>. QED BY <2>1, <2>2
<1>5. Meaning'
  BY <1>1, <1>3, <1>4, Numbers DEF IInv, Control, NothingSkipped, Running, Least, Return, Meaning, DumpTrueMeansCopy, WriteMeansImageAndZeros, EraseMeansZeros, BarIsShare, Total
<1>. QED BY <1>2, <1>3, <1>5 DEF IInv

LEMMA EraseChunkKeeps == ASSUME IInv, EraseChunk PROVE IInv'
<1>1. op = "erase" /\ pc = "loop" /\ off < Size /\ UNCHANGED <<op, imageSize, fault, bad, img, errno, done, synced>>
  BY DEF EraseChunk
<1>2. Running /\ TypeOK /\ fault # "EIO" /\ ret = "none"
  BY <1>1, Numbers DEF IInv, Control
<1>3. CASE Throw /\ UNCHANGED <<dev, off>>
  <2>1. TypeOK'
    BY <1>1, <1>3 DEF IInv, TypeOK, Throw
  <2>. QED BY <1>1, <1>3, <2>1, ThrowKeeps
<1>4. ASSUME NEW n \in 1..Least(BufSize, Size - off), Put(n, Zeros), off' = off + n, UNCHANGED <<pc, ret>>
      PROVE  IInv'
  <2>1. n \in Nat /\ off + n <= Size
    BY <1>1, <1>2, <1>4 DEF Least, Running
  <2>2. /\ dev' \in [1..Size -> Int]
        /\ \A i \in 1..Size : dev'[i] = IF off < i /\ i <= off + n THEN Zeros[i] ELSE dev[i]
    BY <1>2, <1>4, <2>1, PutBytes, Data
  <2>3. TypeOK'
    BY <1>1, <1>2, <1>4, <2>1, <2>2 DEF TypeOK, Running
  <2>4. Control'
    BY <1>1, <1>2, <1>4, <2>1 DEF IInv, Control, Running
  <2>5. NothingSkipped'
    <3>1. ASSUME NEW i \in 1..Size PROVE dev'[i] = IF i > off' THEN Old ELSE 0
      <4>1. dev[i] = IF i > off THEN Old ELSE 0
        BY <1>1, <1>2 DEF IInv, NothingSkipped
      <4>2. dev'[i] = IF off < i /\ i <= off + n THEN 0 ELSE dev[i]
        BY <2>2 DEF Zeros
      <4>. QED BY <1>1, <1>2, <1>4, <2>1, <4>1, <4>2 DEF Running
    <3>. QED BY <1>1, <3>1 DEF NothingSkipped
  <2>. QED BY <1>2, <1>4, <2>3, <2>4, <2>5, MeaningLater DEF IInv
<1>. QED BY <1>3, <1>4 DEF EraseChunk

LEMMA EraseDoneKeeps == ASSUME IInv, EraseDone PROVE IInv'
<1>1. /\ op = "erase" /\ pc = "loop" /\ off >= Size /\ Return(TRUE) /\ synced' \in BOOLEAN
      /\ UNCHANGED <<op, imageSize, fault, bad, off, dev, img, errno, done>>
  BY DEF EraseDone
<1>2. TypeOK'
  BY <1>1 DEF IInv, TypeOK, Return
<1>3. Control' /\ NothingSkipped'
  BY <1>1 DEF IInv, Control, NothingSkipped, Return
<1>4. \A i \in 1..Size : dev[i] = 0
  BY <1>1, Numbers DEF IInv, Control, NothingSkipped, Running
<1>5. Meaning'
  BY <1>1, <1>3, <1>4, Numbers DEF IInv, Control, NothingSkipped, Running, Least, Return, Meaning, DumpTrueMeansCopy, WriteMeansImageAndZeros, EraseMeansZeros, BarIsShare, Total
<1>. QED BY <1>2, <1>3, <1>5 DEF IInv

-----------------------------------------------------------------------------
LEMMA NextIInv == ASSUME IInv, [Next]_vars PROVE IInv'
<1>1. CASE UNCHANGED vars
  BY <1>1 DEF vars, IInv, TypeOK, Control, NothingSkipped, Meaning, DumpTrueMeansCopy,
              WriteMeansImageAndZeros, EraseMeansZeros, BarIsShare, Total
<1>. QED BY <1>1, OpenKeeps, DumpChunkKeeps, DumpReadFailsKeeps, DumpReadsNothingKeeps, DumpDoneKeeps,
            WriteChunkKeeps, WriteImageDoneKeeps, FillChunkKeeps, SyncKeeps, EraseChunkKeeps,
            EraseDoneKeeps DEF Next, Finished

LEMMA Invariant == Spec => []IInv
<1>. QED BY InitIInv, NextIInv, PTL DEF Spec

\* For any partition, image and buffer: as long as a loop runs, no byte before its counter has been
\* skipped or repeated and none behind it touched, and the callback has reported the bytes of the
\* source that arrived.
THEOREM SkipTheorem == Spec => []NothingSkipped
<1>1. IInv => NothingSkipped
  BY DEF IInv
<1>. QED BY <1>1, Invariant, PTL

\* A dump that returns true, unless reads fail with EIO, has copied the whole partition.
THEOREM DumpTheorem == Spec => []DumpTrueMeansCopy
<1>1. IInv => DumpTrueMeansCopy
  BY DEF IInv, Meaning
<1>. QED BY <1>1, Invariant, PTL

\* A write that returns has put the image at the start and zeros behind it.
THEOREM WriteTheorem == Spec => []WriteMeansImageAndZeros
<1>1. IInv => WriteMeansImageAndZeros
  BY DEF IInv, Meaning
<1>. QED BY <1>1, Invariant, PTL

\* An erase that succeeds has left zeros only.
THEOREM EraseTheorem == Spec => []EraseMeansZeros
<1>1. IInv => EraseMeansZeros
  BY DEF IInv, Meaning
<1>. QED BY <1>1, Invariant, PTL

\* The progress never passes the size of the partition, is complete behind a backup that succeeded,
\* and behind a flash exactly if the image filled the partition.
THEOREM BarTheorem == Spec => []BarIsShare
<1>1. IInv => BarIsShare
  BY DEF IInv, Meaning
<1>. QED BY <1>1, Invariant, PTL
=============================================================================
