--------------------------- MODULE OpenPart_proofs ---------------------------
(***************************************************************************)
(* Proofs about open handles, for any devices, sizes and number of         *)
(* handles: the information a handle has loaded is whole, and a loop that  *)
(* reports success has covered its range.                                  *)
(***************************************************************************)
EXTENDS OpenPart, TLAPS

Structure ==
  [dev : Device, access : {"rdonly", "rdwr"}, size : 0..Size, loaded : BOOLEAN,
   fstype : Types \cup {""}, info : (Device \X (Content \cup {"junk"})) \cup {None},
   err : BOOLEAN, doubt : BOOLEAN]

Contents == [Device -> [Blocks -> Content]]
Lengths  == [Device -> 0..Size]
Mounts   == [Device -> [at : Target, as : {"own", "other"}] \cup {None}]
LoopName == {"wipe", "checksum", "hexdump"}

Whole(op) ==
  \/ <<op.fstype, op.info>> = <<"unknown", None>>
  \/ \E format \in Format : <<op.fstype, op.info>> = <<format, <<op.dev, format>>>>

\* What is loaded is in doubt or whole; before, no details are known.
Sound(op) ==
  /\ op \in Structure
  /\ ~op.loaded => op.info = None
  /\ op.loaded => op.doubt \/ Whole(op)

HandlesSound == \A h \in Handle : handle[h] # None => Sound(handle[h])

\* Between the two reads the type is that of the superblock, unless in doubt or others wrote.
LoadSound ==
  call.fn = "load" =>
    /\ Sound(handle[call.h])
    /\ reply = NoReply
    /\ ~call.details => handle[call.h].loaded
    /\ call.details =>
         LET op == handle[call.h] IN
         \/ op.doubt \/ op.dev \in touched
         \/ ~Short(op.dev) /\ op.fstype \in Format /\ content[op.dev][Super] = op.fstype

\* The two counters of a loop move together, and what a wipe has passed is zero unless others wrote.
LoopSound ==
  call.fn \in LoopName =>
    /\ Sound(handle[call.h])
    /\ reply = NoReply
    /\ call.from <= call.at /\ call.at + call.left = call.to
    /\ call.fn = "wipe" =>
         /\ call.from = 0 /\ call.to = handle[call.h].size
         /\ \/ handle[call.h].dev \in touched
            \/ \A b \in Blocks : b < call.at => content[handle[call.h].dev][b] = "zero"

IInv == TypeOK /\ HandlesSound /\ LoadSound /\ LoopSound /\ DoneMeansAll /\ AnswerIsWhole

LEMMA Typed ==
  ASSUME IInv
  PROVE  content \in Contents /\ length \in Lengths /\ mounted \in Mounts /\ touched \subseteq Device
BY DEF IInv, TypeOK, Contents, Lengths, Mounts

LEMMA CallTyped ==
  ASSUME IInv
  PROVE  /\ call.fn = "load" => call \in Loads /\ call # Idle
         /\ call.fn \in LoopName => call \in Loops /\ call # Idle
<1>1. call \in Loads \/ call \in Loops \/ call = Idle
  BY DEF IInv, TypeOK
<1>2. CASE call \in Loads
  BY <1>2 DEF Loads, Idle, LoopName
<1>3. CASE call \in Loops
  BY <1>3 DEF Loops, Idle, LoopName
<1>4. CASE call = Idle
  BY <1>4 DEF Idle, LoopName
<1>. QED BY <1>1, <1>2, <1>3, <1>4

LEMMA ErrorSound ==
  ASSUME NEW op, Sound(op)
  PROVE  Sound([op EXCEPT !.err = TRUE])
<1>1. op \in Structure /\ [op EXCEPT !.err = TRUE] \in Structure
  BY DEF Sound, Structure
<1>2. Whole(op) => Whole([op EXCEPT !.err = TRUE])
  BY <1>1 DEF Whole, Structure
<1>. QED BY <1>1, <1>2 DEF Sound, Structure

\* A reply that DoneMeansAll and AnswerIsWhole say nothing of.
PlainReply ==
  \/ reply'.fn \in {"none", "read", "write", "name", "mount", "umount", "ismounted", "mntpath"}
  \/ reply'.fn \in LoopName /\ reply'.value = -1
  \/ reply'.fn = "get" /\ reply'.value = None

LEMMA PlainReplyKeeps == ASSUME PlainReply PROVE DoneMeansAll' /\ AnswerIsWhole'
BY DEF PlainReply, DoneMeansAll, AnswerIsWhole, LoopName

\* A call that has ended leaves one handle sound, or closed, and every other as it was.
LEMMA CallKeeps ==
  ASSUME IInv, call' = Idle, NEW h \in Handle, NEW op, op = None \/ Sound(op),
         handle' = [handle EXCEPT ![h] = op],
         content' \in Contents, length' \in Lengths, mounted' \in Mounts, touched' \subseteq Device,
         DoneMeansAll', AnswerIsWhole'
  PROVE  IInv'
<1>1. TypeOK'
  BY DEF IInv, TypeOK, Sound, Structure, Contents, Lengths, Mounts
<1>2. HandlesSound'
  BY DEF IInv, TypeOK, HandlesSound, Sound
<1>3. LoopSound' /\ LoadSound'
  BY DEF LoopSound, LoadSound, Idle, LoopName
<1>. QED BY <1>1, <1>2, <1>3 DEF IInv

LEMMA NothingChanges ==
  ASSUME TypeOK, NEW h \in Handle
  PROVE  handle = [handle EXCEPT ![h] = handle[h]]
BY DEF TypeOK

LEMMA HandleSound ==
  ASSUME IInv, NEW h \in Handle, handle[h] # None
  PROVE  Sound(handle[h])
BY DEF IInv, HandlesSound

\* The call of a handle ends, with the handle as it was or with an error.
LEMMA EndKeeps ==
  ASSUME IInv, NEW h \in Handle, Sound(handle[h]), call' = Idle, handle' = handle \/ handle' = Error(h),
         content' \in Contents, length' \in Lengths, mounted' \in Mounts, touched' \subseteq Device,
         PlainReply
  PROVE  IInv'
<1>1. DoneMeansAll' /\ AnswerIsWhole'
  BY PlainReplyKeeps
<1>2. CASE handle' = handle
  BY <1>1, <1>2, NothingChanges, CallKeeps DEF IInv
<1>3. CASE handle' = Error(h)
  <2>1. handle' = [handle EXCEPT ![h] = [handle[h] EXCEPT !.err = TRUE]]
    BY <1>3 DEF Error, IInv, TypeOK
  <2>. QED BY <1>1, <2>1, ErrorSound, CallKeeps
<1>. QED BY <1>2, <1>3

LEMMA OpenKeeps ==
  ASSUME IInv, NEW h \in Handle, NEW d \in Device, NEW access \in {"rdonly", "rdwr"}, Open(h, d, access)
  PROVE  IInv'
<1> DEFINE op == [dev |-> d, access |-> access, size |-> length[d], loaded |-> FALSE,
                  fstype |-> "", info |-> None, err |-> FALSE, doubt |-> FALSE]
<1>1. Sound(op)
  BY Typed DEF Sound, Structure, Lengths
<1>2. handle' = [handle EXCEPT ![h] = op] /\ PlainReply
  BY DEF Open, PlainReply, NoReply
<1> HIDE DEF op
<1>. QED BY <1>1, <1>2, PlainReplyKeeps, CallKeeps, Typed DEF Open

LEMMA CloseKeeps == ASSUME IInv, NEW h \in Handle, Close(h) PROVE IInv'
<1>1. PlainReply
  BY DEF Close, PlainReply, NoReply
<1>. QED BY <1>1, PlainReplyKeeps, CallKeeps, Typed DEF Close, Ready

-----------------------------------------------------------------------------
(* Information. *)

LEMMA LoadFailsKeeps ==
  ASSUME IInv, NEW h \in Handle, NEW why \in Asking, Sound(handle[h]), LoadFails(h, why),
         UNCHANGED <<content, length, mounted>>
  PROVE  IInv'
<1>1. PlainReply
  BY DEF LoadFails, PlainReply, Asking
<1>. QED BY <1>1, EndKeeps, Typed DEF LoadFails

LEMMA KnownSound ==
  ASSUME IInv, NEW h \in Handle, handle[h] # None, ~handle[h].loaded,
         NEW type \in (IF Short(handle[h].dev) THEN Types ELSE Detected(handle[h].dev)),
         NEW op, op = Known(handle[h], type)
  PROVE  /\ Sound(op) /\ op.dev = handle[h].dev /\ type \in Types
         /\ op.fstype = type /\ op.loaded = (type \notin HasDetails)
         /\ type \in HasDetails => op.doubt \/ (~Short(op.dev) /\ type \in Format /\ content[op.dev][Super] = type)
<1> DEFINE old == handle[h]
<1>1. Sound(old) /\ old \in Structure /\ old.info = None
  BY HandleSound DEF Sound
<1>2. type \in Types
  BY DEF Detected, Types
<1>3. Short(old.dev) \in BOOLEAN
  BY DEF Short
<1>4a. op = Known(old, type)
  OBVIOUS
<1> HIDE DEF old
<1>4. /\ op \in Structure /\ op.dev = old.dev /\ op.fstype = type /\ op.info = None
      /\ op.loaded = (type \notin HasDetails) /\ op.doubt = Short(old.dev)
  BY <1>1, <1>2, <1>3, <1>4a DEF Known, Structure
<1>5. op.loaded /\ ~op.doubt => Whole(op)
  <2>1. SUFFICES ASSUME op.loaded, ~op.doubt PROVE Whole(op)
    OBVIOUS
  <2>2. type \notin HasDetails /\ ~Short(old.dev)
    BY <1>4, <2>1
  <2>3. type \in Detected(old.dev)
    BY <2>2 DEF old
  <2>4. type = "unknown"
    BY <2>2, <2>3 DEF Detected, HasDetails
  <2>. QED BY <1>4, <2>4 DEF Whole
<1>6. Sound(op)
  BY <1>4, <1>5 DEF Sound
<1>7. ASSUME type \in HasDetails, ~op.doubt
      PROVE  ~Short(op.dev) /\ type \in Format /\ content[op.dev][Super] = type
  <2>1. ~Short(op.dev) /\ ~Short(old.dev)
    BY <1>4, <1>7
  <2>2. type \in Detected(op.dev)
    BY <1>4, <2>1 DEF old
  <2>. QED BY <1>7, <2>1, <2>2, OpenPartAssumption DEF Detected, HasDetails
<1>8. type \in HasDetails => op.doubt \/ (~Short(op.dev) /\ type \in Format /\ content[op.dev][Super] = type)
  BY <1>7
<1>9. op.dev = handle[h].dev
  BY <1>4 DEF old
<1>10. op.fstype = type /\ op.loaded = (type \notin HasDetails)
  BY <1>4
<1>. QED BY <1>2, <1>6, <1>8, <1>9, <1>10, Zenon

LEMMA DetectKeeps ==
  ASSUME IInv, NEW h \in Handle, NEW why \in Asking, Detect(h, why)
  PROVE  IInv'
<1>1. call = Idle /\ handle[h] # None /\ ~handle[h].loaded /\ UNCHANGED <<content, length, mounted>>
  BY DEF Detect, Ready
<1>2. CASE LoadFails(h, why)
  BY <1>1, <1>2, HandleSound, LoadFailsKeeps
<1>3. ASSUME NEW type \in (IF Short(handle[h].dev) THEN Types ELSE Detected(handle[h].dev)),
             handle' = [handle EXCEPT ![h] = Known(handle[h], type)],
             call' = [fn |-> "load", h |-> h, why |-> why, details |-> type \in HasDetails],
             reply' = NoReply, UNCHANGED touched
      PROVE  IInv'
  <2>1. PICK op : op = Known(handle[h], type)
    OBVIOUS
  <2>2. /\ Sound(op) /\ op.dev = handle[h].dev /\ type \in Types
        /\ op.fstype = type /\ op.loaded = (type \notin HasDetails)
        /\ type \in HasDetails => op.doubt \/ (~Short(op.dev) /\ type \in Format /\ content[op.dev][Super] = type)
    BY <1>1, <2>1, KnownSound
  <2>3. handle' = [handle EXCEPT ![h] = op]
    BY <1>3, <2>1
  <2>4. handle'[h] = op /\ op \in Structure
    BY <2>2, <2>3 DEF IInv, TypeOK, Sound
  <2>5. call' \in Loads
    BY <1>3 DEF Loads
  <2>6. TypeOK'
    BY <1>1, <1>3, <2>3, <2>4, <2>5 DEF IInv, TypeOK, Structure
  <2>7. HandlesSound'
    BY <2>2, <2>3 DEF IInv, TypeOK, HandlesSound
  <2>8. LoadSound'
    <3>1. type \in HasDetails => op.doubt \/ (~(length'[op.dev] <= Super) /\ type \in Format /\ content'[op.dev][Super] = type)
      BY <1>1, <2>2 DEF Short
    <3>2. Sound(handle'[h])
      BY <2>2, <2>4
    <3>3. call'.h = h /\ call'.details = (type \in HasDetails)
      BY <1>3
    <3>4. ~call'.details => handle'[h].loaded
      BY <2>2, <2>4, <3>3
    <3>5. call'.details =>
            \/ op.doubt
            \/ ~Short(op.dev)' /\ op.fstype \in Format /\ content'[op.dev][Super] = op.fstype
      BY <1>3, <2>2, <3>1, <3>3 DEF Short
    <3>. QED BY <1>3, <2>4, <3>2, <3>3, <3>4, <3>5 DEF LoadSound
  <2>9. LoopSound'
    BY <1>3 DEF LoopSound, LoopName
  <2>10. DoneMeansAll' /\ AnswerIsWhole'
    BY <1>3, PlainReplyKeeps DEF PlainReply, NoReply
  <2>. QED BY <2>6, <2>7, <2>8, <2>9, <2>10 DEF IInv
<1>. QED BY <1>2, <1>3 DEF Detect

LEMMA DetailsKeeps == ASSUME IInv, Details PROVE IInv'
<1>1. call \in Loads /\ call.fn = "load" /\ call.details /\ UNCHANGED <<content, length, mounted>>
  BY CallTyped DEF Details
<1>2. call.h \in Handle /\ call.why \in Asking /\ Sound(handle[call.h]) /\ reply = NoReply
  BY <1>1 DEF Loads, IInv, LoadSound
<1>3. CASE LoadFails(call.h, call.why)
  BY <1>1, <1>2, <1>3, LoadFailsKeeps
<1>4. PICK h : h = call.h
  OBVIOUS
<1>5. PICK old : old = handle[h]
  OBVIOUS
<1>6. PICK d : d = old.dev
  OBVIOUS
<1>7. ASSUME handle' = [handle EXCEPT ![h].loaded = TRUE,
                                      ![h].info = <<d, IF Short(d) THEN "junk" ELSE content[d][Super]>>,
                                      ![h].doubt = @ \/ Short(d) \/ d \in touched],
             call' = [call EXCEPT !.details = FALSE],
             UNCHANGED <<touched, reply>>
      PROVE  IInv'
  <2>1. PICK op : op = [old EXCEPT !.loaded = TRUE,
                                   !.info = <<d, IF Short(d) THEN "junk" ELSE content[d][Super]>>,
                                   !.doubt = @ \/ Short(d) \/ d \in touched]
    OBVIOUS
  <2>2. handle' = [handle EXCEPT ![h] = op]
    BY <1>2, <1>4, <1>5, <1>7, <2>1 DEF IInv, TypeOK
  <2>3. old \in Structure /\ d \in Device /\ h \in Handle
    BY <1>2, <1>4, <1>5, <1>6 DEF Sound, Structure
  <2>4. <<d, IF Short(d) THEN "junk" ELSE content[d][Super]>> \in Device \X (Content \cup {"junk"})
    BY <2>3, Typed, OpenPartAssumption DEF Contents, Blocks
  <2>5. (old.doubt \/ Short(d) \/ d \in touched) \in BOOLEAN
    OBVIOUS
  <2>6. /\ op \in Structure /\ op.dev = d /\ op.fstype = old.fstype /\ op.loaded
        /\ op.info = <<d, IF Short(d) THEN "junk" ELSE content[d][Super]>>
        /\ op.doubt = (old.doubt \/ Short(d) \/ d \in touched)
    BY <1>6, <2>1, <2>3, <2>4, <2>5 DEF Structure
  <2>7. ASSUME ~op.doubt PROVE Whole(op)
    <3>1. ~old.doubt /\ ~Short(d) /\ d \notin touched
      BY <2>6, <2>7
    <3>2. old.fstype \in Format /\ content[d][Super] = old.fstype
      BY <1>1, <1>4, <1>5, <1>6, <3>1 DEF IInv, LoadSound
    <3>. QED BY <2>6, <3>1, <3>2 DEF Whole
  <2>8. Sound(op)
    BY <2>6, <2>7 DEF Sound
  <2>9. call' \in Loads /\ call'.h = h /\ call'.fn = "load" /\ ~call'.details
    BY <1>1, <1>4, <1>7 DEF Loads
  <2>10. handle'[h] = op
    BY <2>2, <2>3 DEF IInv, TypeOK
  <2>11. TypeOK'
    <3>1. handle' \in [Handle -> Structure \cup {None}]
      BY <2>2, <2>6 DEF IInv, TypeOK, Structure
    <3>. QED BY <1>1, <1>7, <2>9, <3>1 DEF IInv, TypeOK, Structure
  <2>12. HandlesSound'
    BY <2>2, <2>8 DEF IInv, TypeOK, HandlesSound
  <2>13. LoadSound'
    <3>1. Sound(handle'[call'.h]) /\ handle'[call'.h].loaded
      BY <2>6, <2>8, <2>9, <2>10
    <3>. QED BY <1>2, <1>7, <2>9, <3>1 DEF LoadSound
  <2>14. LoopSound'
    BY <2>9 DEF LoopSound, LoopName
  <2>15. DoneMeansAll' /\ AnswerIsWhole'
    BY <1>2, <1>7, PlainReplyKeeps DEF PlainReply, NoReply
  <2>. QED BY <2>11, <2>12, <2>13, <2>14, <2>15 DEF IInv
<1>. QED BY <1>3, <1>4, <1>5, <1>6, <1>7 DEF Details

\* The information is there: the handle is sound and loaded.
LEMMA InformedSound ==
  ASSUME IInv, NEW h \in Handle, NEW why, Informed(h, why)
  PROVE  Sound(handle[h]) /\ handle[h].loaded
<1>1. CASE Ready(h) /\ handle[h].loaded
  BY <1>1, HandleSound DEF Ready
<1>2. CASE call = [fn |-> "load", h |-> h, why |-> why, details |-> FALSE]
  <2>1. call.fn = "load" /\ call.h = h /\ ~call.details
    BY <1>2
  <2>. QED BY <2>1 DEF IInv, LoadSound
<1>. QED BY <1>1, <1>2 DEF Informed

LEMMA GetKeeps == ASSUME IInv, NEW h \in Handle, Get(h) PROVE IInv'
<1>1. /\ call' = Idle /\ touched' = {} /\ UNCHANGED <<handle, content, length, mounted>>
      /\ reply' = [fn |-> "get", h |-> h, value |-> <<handle[h].fstype, handle[h].info>>]
  BY DEF Get
<1>2. Sound(handle[h]) /\ handle[h].loaded
  BY InformedSound DEF Get
<1>3. DoneMeansAll'
  BY <1>1 DEF DoneMeansAll
<1>4. AnswerIsWhole'
  BY <1>1, <1>2 DEF AnswerIsWhole, Sound, Whole
<1>. QED BY <1>1, <1>2, <1>3, <1>4, NothingChanges, CallKeeps, Typed DEF IInv

LEMMA GetNameKeeps == ASSUME IInv, NEW h \in Handle, GetName(h) PROVE IInv'
<1>1. PlainReply
  BY DEF GetName, PlainReply
<1>2. Sound(handle[h])
  BY InformedSound DEF GetName
<1>. QED BY <1>1, <1>2, EndKeeps, Typed DEF GetName

\* Mounting loads the information first, as Get does.
LEMMA MountKeeps == ASSUME IInv, NEW h \in Handle, NEW t \in Target, Mount(h, t) PROVE IInv'
<1>1. PlainReply
  BY DEF Mount, PlainReply
<1>2. Sound(handle[h])
  BY InformedSound DEF Mount
<1>3. handle[h].dev \in Device
  BY <1>2 DEF Sound, Structure
<1>4. mounted' = [mounted EXCEPT ![handle[h].dev] = [at |-> t, as |-> "own"]] \/ mounted' = mounted
  BY DEF Mount
<1>5. [at |-> t, as |-> "own"] \in [at : Target, as : {"own", "other"}]
  OBVIOUS
<1>6. mounted' \in Mounts
  BY <1>3, <1>4, <1>5, Typed DEF Mounts
<1>. QED BY <1>1, <1>2, <1>6, EndKeeps, Typed DEF Mount

-----------------------------------------------------------------------------
(* Transfers. *)

\* A call that ends at once, and at most a block or the mount table changed.
LEMMA PlainCallKeeps ==
  ASSUME IInv, NEW h \in Handle, Ready(h), UNCHANGED <<call, touched>>, handle' = handle \/ handle' = Error(h),
         content' \in Contents, length' \in Lengths, mounted' \in Mounts, PlainReply
  PROVE  IInv'
BY HandleSound, EndKeeps, Typed DEF Ready

LEMMA WrittenTyped ==
  ASSUME IInv, NEW d \in Device, NEW b \in Blocks, NEW value \in Content, Written(d, b, value)
  PROVE  content' \in Contents /\ length' \in Lengths
<1>1. content' \in Contents
  BY Typed DEF Written, Contents
<1>2. length' = [length EXCEPT ![d] = IF length[d] <= b THEN b + 1 ELSE length[d]]
  BY Typed DEF Written, Lengths
<1>3. b + 1 \in 0..Size
  BY OpenPartAssumption DEF Blocks
<1>. QED BY <1>1, <1>2, <1>3, Typed DEF Lengths

LEMMA SectorsKeep ==
  ASSUME IInv, NEW h \in Handle, NEW b \in Blocks, ReadSector(h) \/ WriteSector(h, b)
  PROVE  IInv'
<1>1. CASE ReadSector(h)
  <2>1. PlainReply
    BY <1>1 DEF ReadSector, PlainReply
  <2>. QED BY <1>1, <2>1, PlainCallKeeps, Typed DEF ReadSector
<1>2. CASE WriteSector(h, b)
  <2>1. PlainReply
    BY <1>2 DEF WriteSector, PlainReply
  <2>2. handle[h].dev \in Device /\ "data" \in Content
    BY <1>2, HandleSound DEF WriteSector, Ready, Sound, Structure, Content
  <2>3. content' \in Contents /\ length' \in Lengths
    BY <1>2, <2>2, WrittenTyped, Typed DEF WriteSector
  <2>4. handle' = handle \/ handle' = Error(h)
    BY <1>2, Zenon DEF WriteSector
  <2>. QED BY <1>2, <2>1, <2>3, <2>4, PlainCallKeeps, Typed DEF WriteSector
<1>. QED BY <1>1, <1>2

\* A loop starts with nothing done.
LEMMA StartKeeps ==
  ASSUME IInv, NEW h \in Handle, Ready(h), NEW fn \in LoopName,
         NEW from \in 0..Size, NEW len \in 0..Size,
         fn = "wipe" => from = 0 /\ len = handle[h].size,
         Start(fn, h, from, len)
  PROVE  IInv'
<1>0. Size \in Nat /\ from \in Nat /\ len \in Nat /\ from <= Size /\ len <= Size
  BY OpenPartAssumption
<1>1. call' = [fn |-> fn, h |-> h, from |-> from, to |-> from + len, at |-> from, left |-> len] /\ call' \in Loops
  BY <1>0 DEF Start, Loops, LoopName
<1>2. TypeOK'
  BY <1>1 DEF IInv, TypeOK, Start
<1>3. HandlesSound'
  BY DEF IInv, HandlesSound, Start
<1>4. LoadSound'
  BY <1>1 DEF LoadSound, LoopName
<1>5. LoopSound'
  <2>1. Sound(handle'[h]) /\ handle' = handle /\ reply' = NoReply
    BY HandleSound DEF Ready, Start
  <2>. QED BY <1>0, <1>1, <2>1 DEF LoopSound, Blocks
<1>6. DoneMeansAll' /\ AnswerIsWhole'
  BY PlainReplyKeeps DEF Start, PlainReply, NoReply
<1>. QED BY <1>2, <1>3, <1>4, <1>5, <1>6 DEF IInv

LEMMA RefuseKeeps ==
  ASSUME IInv, NEW h \in Handle, Ready(h), NEW fn \in LoopName, Refuse(fn, h)
  PROVE  IInv'
<1>1. PlainReply
  BY DEF Refuse, PlainReply
<1>. QED BY <1>1, PlainCallKeeps, Typed DEF Refuse

LEMMA CallsKeep ==
  ASSUME IInv, NEW h \in Handle,
         \/ Wipe(h)
         \/ \E valid \in BOOLEAN : Checksum(h, valid)
         \/ \E range \in Dumps : Hexdump(h, range[1], range[2])
  PROVE  IInv'
<1>1. 0 \in 0..Size
  BY OpenPartAssumption
<1>2. Ready(h) => handle[h].size \in 0..Size
  BY HandleSound DEF Ready, Sound, Structure
<1>3. CASE Wipe(h)
  <2>1. Ready(h) /\ (Start("wipe", h, 0, handle[h].size) \/ Refuse("wipe", h))
    BY <1>3 DEF Wipe
  <2>. QED BY <1>1, <1>2, <2>1, StartKeeps, RefuseKeeps DEF LoopName
<1>4. ASSUME NEW valid \in BOOLEAN, Checksum(h, valid) PROVE IInv'
  <2>1. Ready(h) /\ (Start("checksum", h, 0, handle[h].size) \/ Refuse("checksum", h))
    BY <1>4 DEF Checksum
  <2>. QED BY <1>1, <1>2, <2>1, StartKeeps, RefuseKeeps DEF LoopName
<1>5. ASSUME NEW range \in Dumps, Hexdump(h, range[1], range[2]) PROVE IInv'
  <2>1. range[1] \in 0..Size /\ range[2] \in 0..Size
    BY OpenPartAssumption
  <2>. QED BY <1>5, <2>1, StartKeeps DEF Hexdump, LoopName
<1>. QED BY <1>3, <1>4, <1>5

\* The loop that runs, and the handle it runs on.
LEMMA Loop ==
  ASSUME IInv, call.fn \in LoopName
  PROVE  /\ call \in Loops /\ call.h \in Handle /\ Sound(handle[call.h]) /\ reply = NoReply
         /\ Size \in Nat /\ Chunk \in Nat
<1>1. call \in Loops
  BY CallTyped
<1>. QED BY <1>1, OpenPartAssumption DEF Loops, IInv, LoopSound

\* One transfer moves both counters by what it did.
LEMMA TransferKeeps == ASSUME IInv, Transfer PROVE IInv'
<1>1. call.fn \in LoopName /\ call.left > 0 /\ UNCHANGED <<handle, mounted, touched, reply>>
  BY DEF Transfer, Looping, LoopName
<1>2. PICK d : d = handle[call.h].dev
  OBVIOUS
<1>3. PICK n \in 1..Chunk :
        /\ n <= call.left
        /\ call' = Moved(n)
        /\ \/ /\ call.fn = "wipe"
              /\ content' = [content EXCEPT ![d] =
                               [b \in Blocks |-> IF b \in call.at .. call.at + n - 1 THEN "zero" ELSE @[b]]]
              /\ length' = [length EXCEPT ![d] = IF @ < call.at + n THEN call.at + n ELSE @]
           \/ call.fn # "wipe" /\ call.at + n <= length[d] /\ UNCHANGED <<content, length>>
  BY <1>2 DEF Transfer
<1>4. /\ call \in Loops /\ call.h \in Handle /\ Sound(handle[call.h]) /\ reply = NoReply
      /\ Size \in Nat /\ n \in Nat
  BY <1>1, <1>3, Loop
<1>5. d \in Device /\ handle[call.h].size \in 0..Size
  BY <1>2, <1>4 DEF Sound, Structure
<1>6. /\ call.from <= call.at /\ call.at + call.left = call.to
      /\ call.fn = "wipe" => call.from = 0 /\ call.to = handle[call.h].size
  BY <1>1 DEF IInv, LoopSound
<1>7. call' = [call EXCEPT !.at = call.at + n, !.left = call.left - n]
  BY <1>3 DEF Moved
<1>8. /\ call.at \in Nat /\ call.left \in Nat /\ call.to \in 0..2 * Size /\ call.from \in Nat
      /\ call.at + n \in 0..2 * Size /\ call.left - n \in 0..2 * Size
  BY <1>3, <1>4, <1>6 DEF Loops
<1>9. call' \in Loops
  BY <1>4, <1>7, <1>8 DEF Loops
<1>10. content' \in Contents
  <2>1. "zero" \in Content
    BY DEF Content
  <2>. QED BY <1>3, <1>5, <2>1, Typed DEF Contents
<1>11. length' \in Lengths
  <2>1. CASE call.fn = "wipe"
    <3>1. call.at + n \in 0..Size
      BY <1>3, <1>4, <1>5, <1>6, <1>8, <2>1
    <3>2. length' = [length EXCEPT ![d] = IF length[d] < call.at + n THEN call.at + n ELSE length[d]]
      BY <1>3, <1>5, <2>1, Typed DEF Lengths
    <3>. QED BY <1>5, <3>1, <3>2, Typed DEF Lengths
  <2>2. CASE call.fn # "wipe"
    BY <1>3, <2>2, Typed
  <2>. QED BY <2>1, <2>2
<1>12. TypeOK' /\ HandlesSound'
  BY <1>1, <1>9, <1>10, <1>11 DEF IInv, TypeOK, HandlesSound, Contents, Lengths
<1>13. LoadSound'
  BY <1>1, <1>4, <1>7 DEF LoadSound, LoopName, Loops
<1>14. LoopSound'
  <2>1. /\ call'.h = call.h /\ call'.fn = call.fn /\ call'.from = call.from /\ call'.to = call.to
        /\ call'.at = call.at + n /\ call'.left = call.left - n
    BY <1>4, <1>7 DEF Loops
  <2>2. call'.from <= call'.at /\ call'.at + call'.left = call'.to
    BY <1>4, <1>6, <1>8, <2>1
  <2>3. ASSUME call.fn = "wipe", d \notin touched, NEW b \in Blocks, b < call.at + n PROVE content'[d][b] = "zero"
    <3>1. content'[d][b] = IF b \in call.at .. call.at + n - 1 THEN "zero" ELSE content[d][b]
      BY <1>3, <1>5, <2>3, Typed DEF Contents
    <3>2. b < call.at => content[d][b] = "zero"
      BY <1>1, <1>2, <2>3 DEF IInv, LoopSound
    <3>3. b < call.at \/ b \in call.at .. call.at + n - 1
      BY <1>4, <1>8, <2>3 DEF Blocks
    <3>. QED BY <3>1, <3>2, <3>3
  <2>4. call.fn = "wipe" => d \in touched \/ \A b \in Blocks : b < call.at + n => content'[d][b] = "zero"
    BY <2>3
  <2>. QED BY <1>1, <1>2, <1>4, <1>6, <2>1, <2>2, <2>4 DEF LoopSound
<1>15. DoneMeansAll' /\ AnswerIsWhole'
  BY <1>1, <1>4, PlainReplyKeeps DEF PlainReply, NoReply
<1>. QED BY <1>12, <1>13, <1>14, <1>15 DEF IInv

\* A loop that ends with an error reports -1.
LEMMA FailsKeeps == ASSUME IInv, TransferFails PROVE IInv'
<1>1. call.fn \in LoopName
  BY DEF TransferFails, Looping, LoopName
<1>2. PlainReply
  BY <1>1 DEF TransferFails, PlainReply
<1>. QED BY <1>1, <1>2, Loop, EndKeeps, Typed DEF TransferFails

\* The loop ends where its counters meet.
LEMMA ReturnKeeps == ASSUME IInv, Return PROVE IInv'
<1>1. /\ call.fn \in LoopName /\ call.left = 0 /\ call' = Idle /\ touched' = {}
      /\ UNCHANGED <<content, length, mounted>>
  BY DEF Return, LoopName
<1>2. call \in Loops /\ call.h \in Handle /\ Sound(handle[call.h]) /\ Size \in Nat
  BY <1>1, Loop
<1>3. CASE handle' = Error(call.h) /\ reply' = [fn |-> "wipe", h |-> call.h, value |-> -1]
  <2>1. PlainReply
    BY <1>3 DEF PlainReply, LoopName
  <2>. QED BY <1>1, <1>2, <1>3, <2>1, EndKeeps, Typed
<1>4. CASE /\ reply' = [fn |-> call.fn, h |-> call.h, value |-> 0, asked |-> <<call.from, call.to>>,
                        did |-> <<call.from, call.at>>, alone |-> handle[call.h].dev \notin touched]
           /\ UNCHANGED handle
  <2>1. call.at = call.to
    BY <1>1, <1>2 DEF IInv, LoopSound, Loops
  <2>2. AnswerIsWhole'
    BY <1>1, <1>4 DEF AnswerIsWhole, LoopName
  <2>3. ASSUME call.fn = "wipe", handle[call.h].dev \notin touched, NEW b \in Blocks, b < handle[call.h].size
        PROVE  content[handle[call.h].dev][b] = "zero"
    BY <1>1, <2>1, <2>3 DEF IInv, LoopSound
  <2>4. DoneMeansAll'
    BY <1>1, <1>4, <2>1, <2>3 DEF DoneMeansAll
  <2>. QED BY <1>1, <1>2, <1>4, <2>2, <2>4, NothingChanges, CallKeeps, Typed DEF IInv
<1>. QED BY <1>1, <1>3, <1>4 DEF Return

-----------------------------------------------------------------------------
\* The other calls about mounts change the mount table or report what it says.
LEMMA MountTableKeeps ==
  ASSUME IInv, NEW h \in Handle, Umount(h) \/ IsMounted(h) \/ Mntpath(h)
  PROVE  IInv'
<1>1. /\ Ready(h) /\ UNCHANGED <<content, length, call, touched>> /\ PlainReply
      /\ handle' = handle \/ handle' = Error(h)
  BY DEF Umount, IsMounted, Mntpath, PlainReply
<1>2. handle[h].dev \in Device
  BY <1>1, HandleSound DEF Ready, Sound, Structure
<1>3. mounted' \in Mounts
  BY <1>2, Typed DEF Umount, IsMounted, Mntpath, Mounts
<1>. QED BY <1>1, <1>3, PlainCallKeeps, Typed

\* What others do to the mount table concerns no handle and no call.
LEMMA OthersMountKeep == ASSUME IInv, NEW d \in Device, OthersMount(d) PROVE IInv'
<1>1. mounted' \in Mounts
  BY Typed DEF OthersMount, Mounts
<1>2. DoneMeansAll' /\ AnswerIsWhole'
  BY PlainReplyKeeps DEF OthersMount, PlainReply, NoReply
<1>3. LoadSound'
  BY DEF OthersMount, IInv, LoadSound, Short, NoReply
<1>. QED BY <1>1, <1>2, <1>3 DEF OthersMount, IInv, TypeOK, HandlesSound, LoopSound, Mounts

\* What others write is noted while a call runs on that device.
LEMMA OthersWriteKeep == ASSUME IInv, NEW d \in Device, OthersWrite(d) PROVE IInv'
<1>1. content' \in Contents /\ length' \in Lengths
  <2>1. ASSUME NEW b \in Blocks, NEW value \in Content, Written(d, b, value)
        PROVE  content' \in Contents /\ length' \in Lengths
    BY <2>1, WrittenTyped
  <2>2. ASSUME NEW n \in Ends, length' = [length EXCEPT ![d] = n],
               content' = [content EXCEPT ![d] = [b \in Blocks |-> IF b < n THEN @[b] ELSE "zero"]]
        PROVE  content' \in Contents /\ length' \in Lengths
    BY <2>2, Typed, OpenPartAssumption DEF Contents, Content, Lengths
  <2>. QED BY <2>1, <2>2 DEF OthersWrite
<1>2. UNCHANGED <<handle, mounted, call>> /\ reply' = NoReply /\ touched' \subseteq Device
  BY Typed DEF OthersWrite
<1>3. \A e \in Device \ {d} : content'[e] = content[e] /\ length'[e] = length[e]
  BY Typed DEF OthersWrite, Written, Contents, Lengths
<1>4. call # Idle => touched' = touched \cup {d}
  BY DEF OthersWrite
<1>5. TypeOK' /\ HandlesSound'
  BY <1>1, <1>2 DEF IInv, TypeOK, HandlesSound, Contents, Lengths
<1>6. DoneMeansAll' /\ AnswerIsWhole'
  BY <1>2, PlainReplyKeeps DEF PlainReply, NoReply
<1>7. LoadSound'
  <2>1. SUFFICES ASSUME call.fn = "load" PROVE LoadSound'
    BY <1>2 DEF LoadSound
  <2>2. PICK op : op = handle[call.h]
    OBVIOUS
  <2>3. Sound(op) /\ op.dev \in Device /\ call # Idle
    BY <2>1, <2>2, CallTyped DEF IInv, LoadSound, Sound, Structure
  <2>4. call.details => \/ op.doubt \/ op.dev \in touched'
                        \/ ~(length'[op.dev] <= Super) /\ op.fstype \in Format /\ content'[op.dev][Super] = op.fstype
    BY <1>3, <1>4, <2>1, <2>2, <2>3 DEF IInv, LoadSound, Short
  <2>. QED BY <1>2, <2>1, <2>2, <2>3, <2>4 DEF IInv, LoadSound, Short
<1>8. LoopSound'
  <2>1. SUFFICES ASSUME call.fn \in LoopName PROVE LoopSound'
    BY <1>2 DEF LoopSound
  <2>2. PICK op : op = handle[call.h]
    OBVIOUS
  <2>3. Sound(op) /\ op.dev \in Device /\ call # Idle
    BY <2>1, <2>2, CallTyped DEF IInv, LoopSound, Sound, Structure
  <2>4. call.fn = "wipe" => op.dev \in touched' \/ \A b \in Blocks : b < call.at => content'[op.dev][b] = "zero"
    BY <1>3, <1>4, <2>1, <2>2, <2>3 DEF IInv, LoopSound
  <2>. QED BY <1>2, <2>1, <2>2, <2>3, <2>4 DEF IInv, LoopSound
<1>. QED BY <1>5, <1>6, <1>7, <1>8 DEF IInv

-----------------------------------------------------------------------------
LEMMA InitIInv == Init => IInv
<1>1. ASSUME Init PROVE TypeOK
  <2>1. \A d \in Device, b \in Blocks : content[d][b] \in Content
    BY <1>1 DEF Init, Content
  <2>2. content \in [Device -> [Blocks -> Content]]
    BY <1>1, <2>1 DEF Init
  <2>. QED BY <1>1, <2>2, OpenPartAssumption DEF Init, TypeOK
<1>. QED BY <1>1 DEF Init, IInv, HandlesSound, LoadSound, LoopSound, DoneMeansAll, AnswerIsWhole, NoReply, Idle, LoopName

LEMMA NextIInv == ASSUME IInv, [Next]_vars PROVE IInv'
<1>1. CASE UNCHANGED vars
  <2>1. LoadSound'
    BY <1>1 DEF vars, IInv, LoadSound, Short
  <2>. QED BY <1>1, <2>1 DEF vars, IInv, TypeOK, HandlesSound, LoopSound, DoneMeansAll, AnswerIsWhole
<1>2. ASSUME NEW h \in Handle, Ask(h) PROVE IInv'
  BY <1>2, GetKeeps, GetNameKeeps, MountKeeps DEF Ask
<1>3. CASE Step \/ TransferFails
  BY <1>2, <1>3, DetailsKeeps, TransferKeeps, ReturnKeeps, FailsKeeps DEF Step
<1>4. ASSUME NEW h \in Handle,
             \/ \E d \in Device, access \in {"rdonly", "rdwr"} : Open(h, d, access)
             \/ Close(h) \/ \E why \in Asking : Detect(h, why)
      PROVE  IInv'
  BY <1>4, OpenKeeps, CloseKeeps, DetectKeeps
<1>5. ASSUME NEW h \in Handle, ReadSector(h) \/ \E b \in Blocks : WriteSector(h, b) PROVE IInv'
  <2>1. 0 \in Blocks
    BY OpenPartAssumption DEF Blocks
  <2>. QED BY <1>5, <2>1, SectorsKeep
<1>6. ASSUME NEW h \in Handle,
             \/ Wipe(h)
             \/ \E valid \in BOOLEAN : Checksum(h, valid)
             \/ \E range \in Dumps : Hexdump(h, range[1], range[2])
      PROVE  IInv'
  BY <1>6, CallsKeep, Zenon
<1>7. ASSUME NEW h \in Handle, Umount(h) \/ IsMounted(h) \/ Mntpath(h) PROVE IInv'
  BY <1>7, MountTableKeeps
<1>8. ASSUME NEW d \in Device, OthersMount(d) \/ OthersWrite(d) PROVE IInv'
  BY <1>8, OthersMountKeep, OthersWriteKeep
<1>. QED BY <1>1, <1>2, <1>3, <1>4, <1>5, <1>6, <1>7, <1>8, Zenon DEF Next

LEMMA Invariant == Spec => []IInv
<1>. QED BY InitIInv, NextIInv, PTL DEF Spec

\* For any devices, handles and transfer size: a wipe, checksum or dump that reports success has
\* covered its range, and a device that nobody else wrote to meanwhile holds zeros only after a wipe.
THEOREM DoneTheorem == Spec => []DoneMeansAll
<1>1. IInv => DoneMeansAll
  BY DEF IInv
<1>. QED BY <1>1, Invariant, PTL

\* UUID and label are those of the file system they are given with and of the handle's device,
\* unless the device ended before its superblock or others wrote between the reads.
THEOREM AnswerTheorem == Spec => []AnswerIsWhole
<1>1. IInv => AnswerIsWhole
  BY DEF IInv
<1>. QED BY <1>1, Invariant, PTL
=============================================================================
