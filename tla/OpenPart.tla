------------------------------- MODULE OpenPart -------------------------------
(***************************************************************************)
(* What libopenpart does with an open handle: the information it loads on  *)
(* the first question, sector transfers, wipe, checksum and hexdump, and   *)
(* mounting.  Opening and closing, and who owns a handle, are the module   *)
(* PartitionHandles; plain reads and writes are in PartitionIO.  One       *)
(* caller makes one call at a time; others mount, unmount, write to and,   *)
(* where it is a file opened with OP_IGNTYPE, cut short the same device,   *)
(* also while the call runs.  A device has room for Size blocks, of which  *)
(* block Super says what it was formatted with, and is transferred Chunk   *)
(* at most at a time.  UUID and label are named by where they come from.   *)
(***************************************************************************)
EXTENDS Integers, Sequences

CONSTANTS Handle, Device, Target,
          Format,     \* the file systems that are recognised and met here
          Size, Super, Chunk,
          Ends,       \* where others may cut a file
          Dumps,      \* the ranges a hexdump is asked for, from and length
          None

ASSUME OpenPartAssumption ==
  /\ Size \in Nat \ {0} /\ Chunk \in 1..Size /\ Super \in 0..Size - 1
  /\ Ends \subseteq 0..Size /\ Dumps \subseteq (0..Size) \X (0..Size)
  /\ Format \subseteq {"f2fs", "erofs", "vfat"}

VARIABLES handle,     \* openpart_t structures, or None
          content,    \* the blocks of each device; ext is data, its magic is looked for elsewhere
          length,     \* where each device ends
          mounted,    \* the mount table: where, and under the device's own name or another
          call,       \* the call that runs
          touched,    \* history: the devices others wrote to or cut while this call runs
          reply       \* what the last call returned, and of what

vars == <<handle, content, length, mounted, call, touched, reply>>

Blocks  == 0..Size - 1
Content == {"data", "zero"} \cup Format
Types   == Format \cup {"ext2", "ext4", "unknown"}    \* what detect_fstype may write
Asking  == [fn : {"get", "name"}] \cup [fn : {"mount"}, target : Target]
Idle    == [fn |-> "idle"]
Loads   == [fn : {"load"}, h : Handle, why : Asking, details : BOOLEAN]
Loops   == [fn : {"wipe", "checksum", "hexdump"}, h : Handle,
            from : 0..Size, to : 0..2 * Size, at : 0..2 * Size, left : 0..2 * Size]
NoReply == [fn |-> "none"]

TypeOK ==
  /\ handle \in [Handle -> [dev : Device, access : {"rdonly", "rdwr"}, size : 0..Size, loaded : BOOLEAN,
                            fstype : Types \cup {""}, info : (Device \X (Content \cup {"junk"})) \cup {None},
                            err : BOOLEAN, doubt : BOOLEAN] \cup {None}]
  /\ content \in [Device -> [Blocks -> Content]]
  /\ length \in [Device -> 0..Size]
  /\ mounted \in [Device -> [at : Target, as : {"own", "other"}] \cup {None}]
  /\ call \in Loads \cup Loops \cup {Idle}
  /\ touched \subseteq Device

Init ==
  /\ handle = [h \in Handle |-> None]
  /\ \E kind \in [Device -> Format \cup {"data"}] :
       content = [d \in Device |-> [b \in Blocks |-> IF b = Super THEN kind[d] ELSE "data"]]
  /\ length = [d \in Device |-> Size]
  /\ mounted = [d \in Device |-> None]
  /\ call = Idle /\ touched = {} /\ reply = NoReply

-----------------------------------------------------------------------------
(* Information. *)

\* A pread that meets the end of the device is no error: the buffer keeps what was on the stack.
Short(d) == length[d] <= Super

\* detect_fstype(): the 16-bit magic of ext is looked for as a word at the start of the superblock.
Detected(d) == IF content[d][Super] \in Format THEN {content[d][Super]} ELSE {"unknown"}

\* The types whose UUID and label are read; ext2 stands for ext3 too.
HasDetails == Format \cup {"ext4"}

\* op->err, whatever its number; no call clears it.
Error(h) == [handle EXCEPT ![h].err = TRUE]

Ready(h) == call = Idle /\ handle[h] # None

Open(h, d, access) ==
  /\ call = Idle /\ handle[h] = None
  /\ handle' = [handle EXCEPT ![h] = [dev |-> d, access |-> access, size |-> length[d], loaded |-> FALSE,
                                      fstype |-> "", info |-> None, err |-> FALSE, doubt |-> FALSE]]
  /\ reply' = NoReply
  /\ UNCHANGED <<content, length, mounted, call, touched>>

Close(h) ==
  /\ Ready(h)
  /\ handle' = [handle EXCEPT ![h] = None]
  /\ reply' = NoReply
  /\ UNCHANGED <<content, length, mounted, call, touched>>

\* Mutant: the information counts as loaded before it is read.
KnownEarly(op, type) == [op EXCEPT !.fstype = type, !.doubt = Short(op.dev), !.loaded = TRUE]

\* What the handle knows of its type; without details to read, that is all of load_info().
Known(op, type) == [op EXCEPT !.fstype = type, !.doubt = Short(op.dev), !.loaded = type \notin HasDetails]

\* A read of the device failed: the call that asked ends, and the next one asks again.
LoadFails(h, why) ==
  /\ handle' = Error(h) /\ call' = Idle
  /\ reply' = [fn |-> why.fn, h |-> h, value |-> IF why.fn = "mount" THEN -1 ELSE None]
  /\ touched' = {}

\* load_info() on the first question of the information: the type is detected.
Detect(h, why) ==
  /\ Ready(h) /\ ~handle[h].loaded
  /\ \/ LoadFails(h, why)
     \/ \E type \in (IF Short(handle[h].dev) THEN Types ELSE Detected(handle[h].dev)) :
          /\ handle' = [handle EXCEPT ![h] = Known(handle[h], type)]
          /\ call' = [fn |-> "load", h |-> h, why |-> why, details |-> type \in HasDetails]
          /\ reply' = NoReply
          /\ UNCHANGED touched
  /\ UNCHANGED <<content, length, mounted>>

\* read_..._info: a second read, of what the device holds by then.
Details ==
  /\ call.fn = "load" /\ call.details
  /\ LET h == call.h  d == handle[h].dev IN
     \/ LoadFails(h, call.why)
     \/ /\ handle' = [handle EXCEPT ![h].loaded = TRUE,
                                    ![h].info = <<d, IF Short(d) THEN "junk" ELSE content[d][Super]>>,
                                    ![h].doubt = @ \/ Short(d) \/ d \in touched]
        /\ call' = [call EXCEPT !.details = FALSE]
        /\ UNCHANGED <<touched, reply>>
  /\ UNCHANGED <<content, length, mounted>>

\* The information is there, from an earlier call or now.
Informed(h, why) ==
  \/ Ready(h) /\ handle[h].loaded
  \/ call = [fn |-> "load", h |-> h, why |-> why, details |-> FALSE]

\* openpart_get_uuid, _label, _fstype, _size, _sector_size, _fd, _is_blkdev, _part_path, openpart_get.
Get(h) ==
  /\ Informed(h, [fn |-> "get"])
  /\ call' = Idle /\ touched' = {}
  /\ reply' = [fn |-> "get", h |-> h, value |-> <<handle[h].fstype, handle[h].info>>]
  /\ UNCHANGED <<handle, content, length, mounted>>

\* openpart_get with OP_INFO_PART_NAME: the parent's GPT is searched, and may lack the partition.
GetName(h) ==
  /\ Informed(h, [fn |-> "name"])
  /\ call' = Idle /\ touched' = {}
  /\ \/ handle' = handle /\ reply' = [fn |-> "name", h |-> h, value |-> handle[h].dev]
     \/ handle' = Error(h) /\ reply' = [fn |-> "name", h |-> h, value |-> None]
  /\ UNCHANGED <<content, length, mounted>>

-----------------------------------------------------------------------------
(* Transfers. *)

ReadSector(h) ==
  /\ Ready(h)
  /\ \/ handle' = handle \/ handle' = Error(h)
  /\ reply' = [fn |-> "read", h |-> h, value |-> None]
  /\ UNCHANGED <<content, length, mounted, call, touched>>

\* A block is written; a file that ended before grows, with zeros up to it.
Written(d, b, value) ==
  /\ content' = [content EXCEPT ![d][b] = value]
  /\ length' = [length EXCEPT ![d] = IF @ <= b THEN b + 1 ELSE @]

\* openpart_write_sector: a handle that is not open for both directions is refused.
WriteSector(h, b) ==
  /\ Ready(h)
  /\ \/ handle' = Error(h) /\ UNCHANGED <<content, length>>
     \/ handle[h].access = "rdwr" /\ handle' = handle /\ Written(handle[h].dev, b, "data")
  /\ reply' = [fn |-> "write", h |-> h, value |-> None]
  /\ UNCHANGED <<mounted, call, touched>>

Start(fn, h, from, len) ==
  /\ call' = [fn |-> fn, h |-> h, from |-> from, to |-> from + len, at |-> from, left |-> len]
  /\ reply' = NoReply
  /\ UNCHANGED <<handle, content, length, mounted, touched>>

Refuse(fn, h) ==
  /\ handle' = Error(h)
  /\ reply' = [fn |-> fn, h |-> h, value |-> -1]
  /\ UNCHANGED <<content, length, mounted, call, touched>>

\* The size is the one of the opening.
Wipe(h) ==
  /\ Ready(h)
  /\ IF handle[h].access = "rdwr" THEN Start("wipe", h, 0, handle[h].size) ELSE Refuse("wipe", h)

\* An unknown algorithm or a short result buffer is EINVAL; the three algorithms loop alike.
Checksum(h, valid) ==
  /\ Ready(h)
  /\ IF valid THEN Start("checksum", h, 0, handle[h].size) ELSE Refuse("checksum", h)

\* The range is not compared with the size.
Hexdump(h, from, len) ==
  /\ Ready(h)
  /\ Start("hexdump", h, from, len)

\* Mutant: the count is not reduced by what a short transfer left.
MovedByChunk(n) == [call EXCEPT !.at = @ + n, !.left = @ - (IF @ < Chunk THEN @ ELSE Chunk)]

\* Mutant: a short transfer, the last one too, starts over.
MovedOver(n) ==
  IF n < Chunk THEN [call EXCEPT !.at = call.from, !.left = call.to - call.from]
               ELSE [call EXCEPT !.at = @ + n, !.left = @ - n]

Moved(n) == [call EXCEPT !.at = @ + n, !.left = @ - n]

Looping == call.fn \in {"wipe", "checksum", "hexdump"} /\ call.left > 0

\* At the end of the device pread returns 0 and the loop goes round for ever.
Stuck == Looping /\ call.fn # "wipe" /\ call.at >= length[handle[call.h].dev]

\* One pread or pwrite that moves something, which may be less than it was asked to.
Transfer ==
  /\ Looping
  /\ LET d == handle[call.h].dev IN
     \E n \in 1..Chunk :
       /\ n <= call.left
       /\ call' = Moved(n)
       /\ IF call.fn = "wipe"
            THEN /\ content' = [content EXCEPT ![d] =
                                  [b \in Blocks |-> IF b \in call.at .. call.at + n - 1 THEN "zero" ELSE @[b]]]
                 /\ length' = [length EXCEPT ![d] = IF @ < call.at + n THEN call.at + n ELSE @]
            ELSE /\ call.at + n <= length[d]
                 /\ UNCHANGED <<content, length>>
  /\ UNCHANGED <<handle, mounted, touched, reply>>

\* On an error the loop returns -1.
TransferFails ==
  /\ Looping
  /\ handle' = Error(call.h) /\ call' = Idle /\ touched' = {}
  /\ reply' = [fn |-> call.fn, h |-> call.h, value |-> -1]
  /\ UNCHANGED <<content, length, mounted>>

\* The end of the loop; wipe returns what openpart_sync returns, 0 for success.
Return ==
  /\ call.fn \in {"wipe", "checksum", "hexdump"} /\ call.left = 0
  /\ \/ /\ reply' = [fn |-> call.fn, h |-> call.h, value |-> 0, asked |-> <<call.from, call.to>>,
                  did |-> <<call.from, call.at>>, alone |-> handle[call.h].dev \notin touched]
        /\ UNCHANGED handle
     \/ /\ call.fn = "wipe"
        /\ handle' = Error(call.h)
        /\ reply' = [fn |-> "wipe", h |-> call.h, value |-> -1]
  /\ call' = Idle /\ touched' = {}
  /\ UNCHANGED <<content, length, mounted>>

-----------------------------------------------------------------------------
(* Mounting. *)

\* The kernel refuses a type that is not on the device.
Mountable(h) ==
  LET d == handle[h].dev IN
  ~Short(d) /\ \/ handle[h].fstype = content[d][Super]
               \/ handle[h].fstype \in {"ext2", "ext4"} /\ content[d][Super] = "data"

\* openpart_mount()
Mount(h, target) ==
  /\ Informed(h, [fn |-> "mount", target |-> target])
  /\ call' = Idle /\ touched' = {}
  /\ \/ /\ Mountable(h) /\ mounted[handle[h].dev] = None
        /\ mounted' = [mounted EXCEPT ![handle[h].dev] = [at |-> target, as |-> "own"]]
        /\ reply' = [fn |-> "mount", h |-> h, value |-> 0]
        /\ UNCHANGED handle
     \/ /\ handle' = Error(h)
        /\ reply' = [fn |-> "mount", h |-> h, value |-> -1]
        /\ UNCHANGED mounted
  /\ UNCHANGED <<content, length>>

Umount(h) ==
  /\ Ready(h)
  /\ \/ /\ mounted[handle[h].dev] # None
        /\ mounted' = [mounted EXCEPT ![handle[h].dev] = None]
        /\ reply' = [fn |-> "umount", h |-> h, value |-> 0]
        /\ UNCHANGED handle
     \/ /\ handle' = Error(h)
        /\ reply' = [fn |-> "umount", h |-> h, value |-> -1]
        /\ UNCHANGED mounted
  /\ UNCHANGED <<content, length, call, touched>>

\* Only an entry under the device's own name is found in /proc/mounts.
Entry(h) == mounted[handle[h].dev] # None /\ mounted[handle[h].dev].as = "own"

IsMounted(h) ==
  /\ Ready(h)
  /\ \/ handle' = handle /\ reply' = [fn |-> "ismounted", h |-> h, value |-> IF Entry(h) THEN 1 ELSE 0]
     \/ handle' = Error(h) /\ reply' = [fn |-> "ismounted", h |-> h, value |-> -1]
  /\ UNCHANGED <<content, length, mounted, call, touched>>

Mntpath(h) ==
  /\ Ready(h)
  /\ \/ handle' = handle /\ reply' = [fn |-> "mntpath", h |-> h, value |-> IF Entry(h) THEN mounted[handle[h].dev].at ELSE None]
     \/ handle' = Error(h) /\ reply' = [fn |-> "mntpath", h |-> h, value |-> None]
  /\ UNCHANGED <<content, length, mounted, call, touched>>

\* Somebody else mounts a device by another of its names, or unmounts it.
OthersMount(d) ==
  /\ \/ mounted[d] = None /\ \E t \in Target : mounted' = [mounted EXCEPT ![d] = [at |-> t, as |-> "other"]]
     \/ mounted[d] # None /\ mounted' = [mounted EXCEPT ![d] = None]
  /\ reply' = NoReply
  /\ UNCHANGED <<handle, content, length, call, touched>>

\* Somebody else writes to a device, also a new file system, or cuts a file short.
OthersWrite(d) ==
  /\ \/ \E b \in Blocks, value \in Content : (value \in Format => b = Super) /\ Written(d, b, value)
     \/ \E n \in Ends :
          /\ n < length[d]
          /\ length' = [length EXCEPT ![d] = n]
          /\ content' = [content EXCEPT ![d] = [b \in Blocks |-> IF b < n THEN @[b] ELSE "zero"]]
  /\ touched' = IF call = Idle THEN touched ELSE touched \cup {d}
  /\ reply' = NoReply
  /\ UNCHANGED <<handle, mounted, call>>

-----------------------------------------------------------------------------
\* The calls that ask for the information, and the loops.
Ask(h) == Get(h) \/ GetName(h) \/ \E t \in Target : Mount(h, t)
Step   == Details \/ Transfer \/ Return \/ (call # Idle /\ \E h \in Handle : Ask(h))

Next ==
  \/ Step \/ TransferFails
  \/ \E h \in Handle :
       \/ \E d \in Device, access \in {"rdonly", "rdwr"} : Open(h, d, access)
       \/ Close(h) \/ ReadSector(h) \/ Wipe(h)
       \/ \E why \in Asking : Detect(h, why)
       \/ Ask(h)
       \/ \E b \in Blocks : WriteSector(h, b)
       \/ \E valid \in BOOLEAN : Checksum(h, valid)
       \/ \E range \in Dumps : Hexdump(h, range[1], range[2])
       \/ Umount(h) \/ IsMounted(h) \/ Mntpath(h)
  \/ \E d \in Device : OthersMount(d) \/ OthersWrite(d)

\* The caller waits for its call; the kernel ends every transfer, but nothing makes one move bytes
\* where there are none, or fail.
Spec == Init /\ [][Next]_vars /\ WF_vars(Step)
-----------------------------------------------------------------------------
(* Properties. *)

\* A loop that reports success, 0, has covered what was asked for: a checksum or dump took every
\* byte of its range, however short the transfers were, and the wiped device holds zeros only, as
\* far as it reached when it was opened and unless others wrote to it meanwhile.
DoneMeansAll ==
  reply # NoReply /\ reply.fn \in {"wipe", "checksum", "hexdump"} /\ reply.value = 0 =>
    /\ reply.did = reply.asked
    /\ reply.fn = "wipe" =>
         LET op == handle[reply.h] IN
         reply.alone => \A b \in Blocks : b < op.size => content[op.dev][b] = "zero"

\* An answer is whole: whatever failed and was asked again before, and whatever was written since,
\* UUID and label are those of the file system named with them, from the handle's device.  The two
\* reads of load_info are not one, and neither looks at how much it read: the exceptions are a
\* device that ends before its superblock and one that others wrote to between the two.
AnswerIsWhole ==
  reply # NoReply /\ reply.fn = "get" /\ reply.value # None =>
    LET op == handle[reply.h] IN
    \/ op.doubt
    \/ reply.value = <<"unknown", None>>
    \/ \E format \in Format : reply.value = <<format, <<op.dev, format>>>>

\* Every call returns, but for the reading loop that came to the end of its device with something
\* left to read: a hexdump that goes beyond it, or any read of a file that was cut short.
LoopsEnd == call # Idle ~> (call = Idle \/ Stuck)
=============================================================================
