-------------------------- MODULE Descriptors_proofs --------------------------
(***************************************************************************)
(* Proofs about the objects that own descriptors, for any number of them,  *)
(* of files and of nested silencers: no number has two owners, none is     *)
(* lost but by UniqueFP's open, and stdout and stderr come back.           *)
(***************************************************************************)
EXTENDS Descriptors, FiniteSetTheorems, WellFoundedInduction, TLAPS

(* The inductive invariant, in parts. *)

\* What may hold a number, and which number it holds.
Members == {"stream", "null", "out", "err"}
Slot ==
  ({"fd"} \X FDs) \cup ({"fp"} \X FPs) \cup ({"guard"} \X Guards)
  \cup ({"member"} \X (Silencers \X Members)) \cup ({"loose"} \X Numbers)
Hold(h) ==
  CASE h[1] = "fd"     -> IF fd[h[2]] = Gone THEN None ELSE fd[h[2]].num
    [] h[1] = "fp"     -> IF fp[h[2]] = Gone THEN None ELSE fp[h[2]].num
    [] h[1] = "guard"  -> IF guard[h[2]] # Gone /\ guard[h[2]].active THEN guard[h[2]].num ELSE None
    [] h[1] = "member" -> silencer[h[2][1]][h[2][2]]
    [] h[1] = "loose"  -> IF h[2] \in loose THEN h[2] ELSE None

\* No two hold the same number, and a number that is held is open and not a standard one.
Sole ==
  \A h, i \in Slot : Hold(h) # None /\ Hold(h) = Hold(i) => h = i
Open ==
  /\ \A h \in Slot : Hold(h) # None => Hold(h) > 2 /\ table[Hold(h)] # Free
  /\ table[1] # Free /\ table[2] # Free

\* What an object holds is the file it remembers; guards and callers hold files.
Names(h, file) ==
  /\ h[1] = "fd" => fd[h[2]].path = file
  /\ h[1] = "fp" => fp[h[2]].path = file
Remembered ==
  \A h \in Slot : h[1] # "member" /\ Hold(h) # None => table[Hold(h)] \in Files /\ Names(h, table[Hold(h)])

SilencerType ==
  silencer \in [Silencers -> [saved : 0..Depth \cup {None}, stream : Numbers \cup {None},
                  null : Numbers \cup {None}, out : Numbers \cup {None}, err : Numbers \cup {None}]]

\* Silencers nest: the innermost is the one std::cout writes to, and each knows the next.
Active(s) == silencer[s].saved # None
NextActive(k, s) ==
  /\ k < s /\ (k # 0 => Active(k))
  /\ \A i \in Silencers : k < i /\ i < s => ~Active(i)
Stack ==
  /\ NextActive(cout, Depth + 1)
  /\ \A s \in Silencers : Active(s) => NextActive(silencer[s].saved, s)
  /\ \A s \in Silencers : ~Active(s) => silencer[s] = Idle

\* What the standard numbers and the copies of them stand for.
Covers(s) == silencer[s].null # None
Covered(s) == \E i \in Silencers : i < s /\ Covers(i)
IsBack(x, s) == IF Covered(s) THEN x = Null ELSE cut \/ x = Terminal
Copies ==
  /\ \A s \in Silencers, m \in {"out", "err"} :
       /\ silencer[s][m] # None => Covers(s) /\ IsBack(table[silencer[s][m]], s)
       /\ Covers(s) /\ silencer[s][m] = None => cut
  /\ IsBack(table[1], Depth + 1) /\ IsBack(table[2], Depth + 1)

IInv == TypeOK /\ SilencerType /\ Sole /\ Open /\ Remembered /\ Stack /\ Copies
-----------------------------------------------------------------------------
(* The kernel's numbers. *)

\* A set of natural numbers has a least element: the numbers are well-founded.
LEMMA Least ==
  ASSUME NEW T \in SUBSET Nat, T # {}
  PROVE  Min(T) \in T
<1> DEFINE R == OpToRel(<, Nat)
<1>1. PICK x \in T : \A y \in T : <<y, x>> \notin R
  <2>1. IsWellFoundedOn(R, Nat)
    BY NatLessThanWellFounded
  <2> HIDE DEF R
  <2>. QED BY <2>1, WFMin, Zenon
<1>2. ASSUME NEW y \in T PROVE x <= y
  <2>1. x \in Nat /\ y \in Nat
    OBVIOUS
  <2>2. ~(y < x)
    BY <1>1, <2>1 DEF OpToRel
  <2>. QED BY <2>1, <2>2
<1> HIDE DEF R
<1>. QED BY <1>2 DEF Min

\* What the numbers are.
LEMMA Constants ==
  /\ Limit \in Nat /\ 1 \in Numbers /\ 2 \in Numbers /\ Numbers \subseteq Nat /\ None \notin Numbers
  /\ \A n \in Numbers : n # 1 /\ n # 2 <=> n > 2
BY DescriptorsAssumption DEF Numbers, None

\* The number the kernel gives is a free one.
LEMMA LowestIsFree ==
  ASSUME NEW t
  PROVE  /\ Lowest(t) \in Numbers \cup {None}
         /\ Lowest(t) # None => Lowest(t) \in Numbers /\ t[Lowest(t)] = Free
<1> DEFINE T == {n \in Numbers : t[n] = Free}
<1>1. CASE T = {}
  BY <1>1 DEF Lowest
<1>2. CASE T # {}
  <2>1. T \in SUBSET Nat
    BY Constants
  <2>2. Min(T) \in T
    BY <1>2, <2>1, Least
  <2>. QED BY <1>2, <2>2 DEF Lowest
<1>. QED BY <1>1, <1>2
-----------------------------------------------------------------------------
(* Slots. *)

\* The slots, by what they are, and the number each holds, now and after a step.
LEMMA HoldIs ==
  /\ \A o \in FDs : /\ <<"fd", o>> \in Slot
                    /\ Hold(<<"fd", o>>) = IF fd[o] = Gone THEN None ELSE fd[o].num
                    /\ Hold(<<"fd", o>>)' = IF fd'[o] = Gone THEN None ELSE fd'[o].num
  /\ \A o \in FPs : /\ <<"fp", o>> \in Slot
                    /\ Hold(<<"fp", o>>) = IF fp[o] = Gone THEN None ELSE fp[o].num
                    /\ Hold(<<"fp", o>>)' = IF fp'[o] = Gone THEN None ELSE fp'[o].num
  /\ \A g \in Guards :
       /\ <<"guard", g>> \in Slot
       /\ Hold(<<"guard", g>>) = IF guard[g] # Gone /\ guard[g].active THEN guard[g].num ELSE None
       /\ Hold(<<"guard", g>>)' = IF guard'[g] # Gone /\ guard'[g].active THEN guard'[g].num ELSE None
  /\ \A s \in Silencers, m \in Members :
       /\ <<"member", <<s, m>>>> \in Slot
       /\ Hold(<<"member", <<s, m>>>>) = silencer[s][m]
       /\ Hold(<<"member", <<s, m>>>>)' = silencer'[s][m]
  /\ \A n \in Numbers :
       /\ <<"loose", n>> \in Slot
       /\ Hold(<<"loose", n>>) = IF n \in loose THEN n ELSE None
       /\ Hold(<<"loose", n>>)' = IF n \in loose' THEN n ELSE None
BY Zenon DEF Slot, Hold

\* A slot is of one of five kinds.
LEMMA SlotIs ==
  ASSUME NEW h \in Slot
  PROVE  \/ \E o \in FDs : h = <<"fd", o>>
         \/ \E o \in FPs : h = <<"fp", o>>
         \/ \E g \in Guards : h = <<"guard", g>>
         \/ \E s \in Silencers, m \in Members : h = <<"member", <<s, m>>>>
         \/ \E n \in Numbers : h = <<"loose", n>>
BY DEF Slot

\* The numbers slots hold are numbers of the process.
Typed == \A h \in Slot : Hold(h) \in Numbers \cup {None}

\* Typed objects hold numbers of the process.
LEMMA HoldType == ASSUME TypeOK, SilencerType PROVE Typed
<1> SUFFICES ASSUME NEW h \in Slot PROVE Hold(h) \in Numbers \cup {None}
  BY DEF Typed
<1>1. ASSUME NEW o \in FDs, h = <<"fd", o>> PROVE Hold(h) \in Numbers \cup {None}
  <2>1. fd[o] \in Holder \cup {Gone}
    BY DEF TypeOK
  <2>. QED BY <1>1, <2>1, HoldIs DEF Holder
<1>2. ASSUME NEW o \in FPs, h = <<"fp", o>> PROVE Hold(h) \in Numbers \cup {None}
  <2>1. fp[o] \in Holder \cup {Gone}
    BY DEF TypeOK
  <2>. QED BY <1>2, <2>1, HoldIs DEF Holder
<1>3. ASSUME NEW g \in Guards, h = <<"guard", g>> PROVE Hold(h) \in Numbers \cup {None}
  <2>1. guard[g] \in Guarding \cup {Gone}
    BY DEF TypeOK
  <2>. QED BY <1>3, <2>1, HoldIs DEF Guarding
<1>4. ASSUME NEW s \in Silencers, NEW m \in Members, h = <<"member", <<s, m>>>>
      PROVE  Hold(h) \in Numbers \cup {None}
  <2>1. silencer[s][m] \in Numbers \cup {None}
    BY DEF SilencerType, Members
  <2>. QED BY <1>4, <2>1, HoldIs
<1>5. ASSUME NEW n \in Numbers, h = <<"loose", n>> PROVE Hold(h) \in Numbers \cup {None}
  BY <1>5, HoldIs
<1>. QED BY SlotIs, <1>1, <1>2, <1>3, <1>4, <1>5

\* A step in which only the slots of A change what they hold: a number one of them
\* gets is one that one of them had, or a free one; and what the table says of other numbers
\* does not change.
Changes(A) ==
  /\ A \subseteq Slot
  /\ \A h \in Slot \ A : Hold(h)' = Hold(h)
  /\ \A h, i \in A : Hold(h)' # None /\ Hold(h)' = Hold(i)' => h = i
  /\ \A h \in A : Hold(h)' # None =>
       /\ Hold(h)' \in Numbers /\ table'[Hold(h)'] # Free
       /\ table[Hold(h)'] = Free \/ \E i \in A : Hold(i) = Hold(h)'
  /\ \A n \in Numbers : n > 2 /\ table'[n] # table[n] => table[n] = Free \/ \E i \in A : Hold(i) = n
  /\ table'[1] # Free /\ table'[2] # Free

\* ... and no number of theirs that stays open is without a slot.
Keeps(A) ==
  \A n \in Numbers : n > 2 /\ table'[n] # Free /\ (table[n] = Free \/ \E i \in A : Hold(i) = n) =>
    \E h \in A : Hold(h)' = n

\* Such a step leaves each number with one slot, and what the other slots hold as it was.
LEMMA ChangesSound ==
  ASSUME Typed, Sole, Open, NEW A, Changes(A)
  PROVE  /\ Sole' /\ Open'
         /\ \A h \in Slot \ A : Hold(h) # None => table'[Hold(h)] = table[Hold(h)]
<1>1. ASSUME NEW h \in A, NEW i \in Slot \ A, Hold(h)' # None PROVE Hold(h)' # Hold(i)'
  <2>1. Hold(i)' = Hold(i) /\ (Hold(i) # None => table[Hold(i)] # Free)
    BY <1>1 DEF Changes, Open
  <2>2. CASE table[Hold(h)'] = Free
    BY <1>1, <2>1, <2>2
  <2>3. ASSUME NEW k \in A, Hold(k) = Hold(h)' PROVE Hold(h)' # Hold(i)'
    BY <1>1, <2>1, <2>3 DEF Sole, Changes
  <2>. QED BY <1>1, <2>2, <2>3 DEF Changes
<1>2. Sole'
  <2> SUFFICES ASSUME NEW h \in Slot', NEW i \in Slot', Hold(h)' # None, Hold(h)' = Hold(i)' PROVE h = i
    BY DEF Sole
  <2>1. h \in Slot /\ i \in Slot
    BY DEF Slot, Members, Silencers, Numbers
  <2>2. CASE h \in A /\ i \in A
    BY <2>2 DEF Changes
  <2>3. CASE h \in A /\ i \notin A
    BY <1>1, <2>1, <2>3
  <2>4. CASE h \notin A /\ i \in A
    BY <1>1, <2>1, <2>4
  <2>5. CASE h \notin A /\ i \notin A
    BY <2>1, <2>5 DEF Changes, Sole
  <2>. QED BY <2>2, <2>3, <2>4, <2>5
<1>3. ASSUME NEW h \in Slot \ A, Hold(h) # None PROVE table'[Hold(h)] = table[Hold(h)]
  <2>1. Hold(h) \in Numbers /\ Hold(h) > 2 /\ table[Hold(h)] # Free
    BY <1>3 DEF Typed, Open
  <2>2. ASSUME NEW i \in A, Hold(i) = Hold(h) PROVE FALSE
    BY <1>3, <2>2 DEF Sole, Changes
  <2>. QED BY <2>1, <2>2 DEF Changes
<1>4. Open'
  <2> SUFFICES ASSUME NEW h \in Slot, Hold(h)' # None PROVE Hold(h)' > 2 /\ table'[Hold(h)'] # Free
    BY DEF Open, Slot, Changes, Members, Silencers, Numbers
  <2>1. CASE h \notin A
    BY <1>3, <2>1 DEF Changes, Open
  <2>2. CASE h \in A
    <3>1. Hold(h)' \in Numbers /\ table'[Hold(h)'] # Free
      BY <2>2 DEF Changes
    <3>2. Hold(h)' # 1 /\ Hold(h)' # 2
      BY <2>2, Constants DEF Changes, Open
    <3>. QED BY <3>1, <3>2, Constants
  <2>. QED BY <2>1, <2>2
<1>. QED BY <1>2, <1>3, <1>4
-----------------------------------------------------------------------------
(* What the properties say of slots. *)

\* The owners that OneOwner counts are the slots that hold the number.
LEMMA HoldersAre ==
  ASSUME NEW n \in Numbers
  PROVE  Holders(n) = {h \in Slot : Hold(h) = n}
<1>1. n # None
  BY Constants
<1>2. ASSUME NEW h \in Holders(n) PROVE h \in Slot /\ Hold(h) = n
  <2>1. ASSUME NEW o \in FDs, fd[o] # Gone /\ fd[o].num = n, h = <<"fd", o>> PROVE h \in Slot /\ Hold(h) = n
    BY <2>1, HoldIs
  <2>2. ASSUME NEW o \in FPs, fp[o] # Gone /\ fp[o].num = n, h = <<"fp", o>> PROVE h \in Slot /\ Hold(h) = n
    BY <2>2, HoldIs
  <2>3. ASSUME NEW g \in Guards, guard[g] # Gone /\ guard[g].active /\ guard[g].num = n, h = <<"guard", g>>
        PROVE  h \in Slot /\ Hold(h) = n
    BY <2>3, HoldIs
  <2>4. ASSUME NEW s \in Silencers, NEW m \in Members, silencer[s][m] = n, h = <<"member", <<s, m>>>>
        PROVE  h \in Slot /\ Hold(h) = n
    BY <2>4, HoldIs
  <2>5. ASSUME n \in loose, h = <<"loose", n>> PROVE h \in Slot /\ Hold(h) = n
    BY <2>5, HoldIs
  <2>. QED BY <1>2, <2>1, <2>2, <2>3, <2>4, <2>5 DEF Holders, Members
<1>3. ASSUME NEW h \in Slot, Hold(h) = n PROVE h \in Holders(n)
  <2>1. ASSUME NEW o \in FDs, h = <<"fd", o>> PROVE h \in Holders(n)
    <3>1. fd[o] # Gone /\ fd[o].num = n
      BY <1>1, <1>3, <2>1, HoldIs, Zenon
    <3>. QED BY <2>1, <3>1 DEF Holders
  <2>2. ASSUME NEW o \in FPs, h = <<"fp", o>> PROVE h \in Holders(n)
    <3>1. fp[o] # Gone /\ fp[o].num = n
      BY <1>1, <1>3, <2>2, HoldIs, Zenon
    <3>. QED BY <2>2, <3>1 DEF Holders
  <2>3. ASSUME NEW g \in Guards, h = <<"guard", g>> PROVE h \in Holders(n)
    <3>1. guard[g] # Gone /\ guard[g].active /\ guard[g].num = n
      BY <1>1, <1>3, <2>3, HoldIs, Zenon
    <3>. QED BY <2>3, <3>1 DEF Holders
  <2>4. ASSUME NEW s \in Silencers, NEW m \in Members, h = <<"member", <<s, m>>>> PROVE h \in Holders(n)
    <3>1. silencer[s][m] = n
      BY <1>3, <2>4, HoldIs, Zenon
    <3> DEFINE i == <<s, m>>
    <3>2. i \in {x \in Silencers \X {"stream", "null", "out", "err"} : silencer[x[1]][x[2]] = n}
      BY <3>1 DEF Members
    <3> HIDE DEF i
    <3>. QED BY <2>4, <3>2 DEF Holders, i
  <2>5. ASSUME NEW k \in Numbers, h = <<"loose", k>> PROVE h \in Holders(n)
    <3>1. k \in loose /\ k = n
      BY <1>1, <1>3, <2>5, HoldIs, Zenon
    <3>. QED BY <2>5, <3>1 DEF Holders
  <2>. QED BY <1>3, SlotIs, <2>1, <2>2, <2>3, <2>4, <2>5
<1>. QED BY <1>2, <1>3

\* The invariant implies OneOwner.
LEMMA OwnedOnce == ASSUME IInv PROVE OneOwner
<1>1. ASSUME NEW n \in Numbers, NEW h \in Holders(n) PROVE n > 2 /\ table[n] # Free /\ Holders(n) = {h}
  <2>1. n # None /\ h \in Slot /\ Hold(h) = n /\ Holders(n) = {i \in Slot : Hold(i) = n}
    BY <1>1, Constants, HoldersAre
  <2>. QED BY <2>1 DEF IInv, Sole, Open
<1>2. ASSUME NEW n \in Numbers
      PROVE  Cardinality(Holders(n)) <= (IF table[n] = Free \/ n <= 2 THEN 0 ELSE 1)
  <2>1. CASE Holders(n) = {}
    <3>1. Cardinality(Holders(n)) = 0
      BY <2>1, FS_EmptySet
    <3>. QED BY <3>1
  <2>2. CASE Holders(n) # {}
    <3>1. PICK h : h \in Holders(n)
      BY <2>2
    <3>2. n > 2 /\ table[n] # Free /\ Holders(n) = {h} /\ n \in Nat
      BY <1>1, <3>1, Constants
    <3>3. Cardinality({h}) = 1
      BY FS_Singleton
    <3>. QED BY <3>2, <3>3
  <2>. QED BY <2>1, <2>2
<1>3. ASSUME NEW o \in FDs, fd[o] # Gone, fd[o].num # None PROVE table[fd[o].num] = fd[o].path
  <2> DEFINE h == <<"fd", o>>
  <2>1. h \in Slot /\ Hold(h) = fd[o].num /\ h[1] = "fd" /\ h[2] = o
    BY <1>3, HoldIs
  <2> HIDE DEF h
  <2>. QED BY <1>3, <2>1 DEF IInv, Remembered, Names
<1>4. ASSUME NEW o \in FPs, fp[o] # Gone, fp[o].num # None PROVE table[fp[o].num] = fp[o].path
  <2> DEFINE h == <<"fp", o>>
  <2>1. h \in Slot /\ Hold(h) = fp[o].num /\ h[1] = "fp" /\ h[2] = o
    BY <1>4, HoldIs
  <2> HIDE DEF h
  <2>. QED BY <1>4, <2>1 DEF IInv, Remembered, Names
<1>. QED BY <1>2, <1>3, <1>4 DEF OneOwner

\* The same after a step.
LEMMA HoldersNext ==
  ASSUME NEW n \in Numbers
  PROVE  Holders(n)' = {h \in Slot : Hold(h)' = n}
<1>1. \A k \in Numbers : Holders(k) = {h \in Slot : Hold(h) = k}
  BY HoldersAre
<1>2. (\A k \in Numbers : Holders(k) = {h \in Slot : Hold(h) = k})'
  BY <1>1, PTL
<1>. QED BY <1>2

\* A step that keeps the numbers of the slots it changes loses none.
LEMMA NothingLost ==
  ASSUME Typed, Sole, Open, NEW A, Changes(A), Keeps(A)
  PROVE  Lost' \subseteq Lost
<1> SUFFICES ASSUME NEW n \in 3..Limit, table'[n] # Free, Holders(n)' = {}
             PROVE  table[n] # Free /\ Holders(n) = {}
  BY DEF Lost
<1>1. n \in Numbers /\ n > 2 /\ Holders(n) = {h \in Slot : Hold(h) = n} /\ \A h \in Slot : Hold(h)' # n
  BY Constants, HoldersAre, HoldersNext DEF Numbers
<1>2. table[n] # Free /\ \A i \in A : Hold(i) # n
  BY <1>1 DEF Keeps, Changes
<1>3. \A h \in Slot \ A : Hold(h) # n
  BY <1>1 DEF Changes
<1>. QED BY <1>1, <1>2, <1>3
-----------------------------------------------------------------------------
(* The steps of objects. *)

\* A put changes one number, or nothing.
LEMMA PutIs ==
  ASSUME NEW t, DOMAIN t = Numbers, NEW n \in Numbers \cup {None}, NEW x
  PROVE  /\ DOMAIN Put(t, n, x) = Numbers
         /\ \A k \in Numbers : Put(t, n, x)[k] = IF k = n THEN x ELSE t[k]
<1>1. CASE n = None
  BY <1>1, Constants DEF Put
<1>2. CASE n # None
  BY <1>2 DEF Put
<1>. QED BY <1>1, <1>2

\* The table keeps its type.
LEMMA PutType ==
  ASSUME NEW t \in [Numbers -> Files \cup {Free, Terminal, Null}], NEW n \in Numbers \cup {None},
         NEW x \in Files \cup {Free, Terminal, Null}
  PROVE  Put(t, n, x) \in [Numbers -> Files \cup {Free, Terminal, Null}]
BY DEF Put

\* Nothing moves but the slots of A and the objects they belong to.
Same(A) ==
  \A h \in Slot \ A :
    /\ Hold(h)' = Hold(h)
    /\ h[1] = "fd" => fd'[h[2]] = fd[h[2]]
    /\ h[1] = "fp" => fp'[h[2]] = fp[h[2]]

\* What a step of the objects leaves in order, whatever slots it changes: silencers, and
\* what stands behind the numbers of all the others.
LEMMA ObjectStep ==
  ASSUME IInv, TypeOK', UNCHANGED quiet, NEW A, Changes(A), Same(A),
         \A h \in A : h[1] # "member",
         \A n \in Numbers : table'[n] # table[n] => table[n] = Free \/ \E i \in A : Hold(i) = n,
         \A h \in A : Hold(h)' # None => table'[Hold(h)'] \in Files /\ Names(h, table[Hold(h)])'
  PROVE  IInv'
<1>1. Typed /\ Sole /\ Open
  BY HoldType DEF IInv
<1>2. Sole' /\ Open' /\ \A h \in Slot \ A : Hold(h) # None => table'[Hold(h)] = table[Hold(h)]
  BY <1>1, ChangesSound
<1>3. Remembered'
  <2> SUFFICES ASSUME NEW h \in Slot, h[1] # "member", Hold(h)' # None
               PROVE  table'[Hold(h)'] \in Files /\ Names(h, table[Hold(h)])'
    BY DEF Remembered, Slot, Members, Silencers, Numbers
  <2>1. CASE h \in A
    BY <2>1
  <2>2. CASE h \notin A
    <3>1. Hold(h)' = Hold(h) /\ table'[Hold(h)] = table[Hold(h)]
      BY <1>2, <2>2 DEF Same
    <3>2. table[Hold(h)] \in Files /\ Names(h, table[Hold(h)])
      BY <3>1 DEF IInv, Remembered
    <3>. QED BY <2>2, <3>1, <3>2 DEF Names, Same
  <2>. QED BY <2>1, <2>2
<1>4. table'[1] = table[1] /\ table'[2] = table[2]
  BY <1>1, Constants DEF Open, Changes
<1>5. silencer' = silencer /\ cout' = cout /\ cut' = cut
  BY DEF quiet
<1>6. ASSUME NEW s \in Silencers, NEW m \in {"out", "err"}, silencer[s][m] # None
      PROVE  table'[silencer[s][m]] = table[silencer[s][m]]
  <2> DEFINE h == <<"member", <<s, m>>>>
  <2>1. h \in Slot /\ Hold(h) = silencer[s][m] /\ h[1] = "member"
    BY HoldIs DEF Members
  <2> HIDE DEF h
  <2>. QED BY <1>2, <1>6, <2>1
<1>7. SilencerType' /\ Stack'
  BY <1>5 DEF IInv, SilencerType, Stack, NextActive, Active, Silencers, Numbers
<1>8. Copies'
  BY <1>4, <1>5, <1>6 DEF IInv, Copies, IsBack, Covers, Covered, Silencers
<1>. QED BY <1>2, <1>3, <1>7, <1>8 DEF IInv

\* One object closes what it has and gets a new number, or none.
LEMMA OneSlot ==
  ASSUME IInv, TypeOK', UNCHANGED quiet, NEW a \in Slot, a[1] # "member", Same({a}), NEW n, NEW x,
         n \in {None, Lowest(Close(table, Hold(a)))},
         table' = Put(Close(table, Hold(a)), n, x),
         Hold(a)' = n,
         n # None => x \in Files /\ Names(a, x)'
  PROVE  IInv' /\ Lost' \subseteq Lost
<1> DEFINE t == Close(table, Hold(a))
<1>1. Typed /\ Sole /\ Open /\ DOMAIN table = Numbers
  BY HoldType DEF IInv, TypeOK
<1>2. DOMAIN t = Numbers /\ \A k \in Numbers : t[k] = IF k = Hold(a) THEN Free ELSE table[k]
  BY <1>1, PutIs DEF Close, Typed
<1>3. n \in Numbers \cup {None} /\ (n # None => n \in Numbers /\ t[n] = Free)
  BY LowestIsFree
<1> HIDE DEF t
<1>4. \A k \in Numbers : table'[k] = IF k = n THEN x ELSE IF k = Hold(a) THEN Free ELSE table[k]
  BY <1>2, <1>3, PutIs DEF t
<1>5. Free \notin Files
  BY DescriptorsAssumption
<1>6. n # None => table[n] = Free \/ Hold(a) = n
  BY <1>2, <1>3
<1>7. n # 1 /\ n # 2 /\ Hold(a) # 1 /\ Hold(a) # 2
  BY <1>1, <1>3, <1>6, Constants DEF Open, Typed
<1>8. Changes({a})
  BY <1>1, <1>3, <1>4, <1>5, <1>6, <1>7, Constants DEF Changes, Same, Open
<1>9. Keeps({a})
  BY <1>3, <1>4 DEF Keeps
<1>10. Hold(a)' # None => table'[Hold(a)'] \in Files /\ Names(a, table[Hold(a)])'
  <2>1. CASE n = None
    BY <2>1
  <2>2. CASE n # None
    <3>1. table'[n] = x
      BY <1>3, <1>4, <2>2
    <3>. QED BY <2>2, <3>1 DEF Names
  <2>. QED BY <2>1, <2>2
<1>11. \A k \in Numbers : table'[k] # table[k] => table[k] = Free \/ Hold(a) = k
  BY <1>4, <1>6, Constants
<1>12. IInv'
  BY <1>8, <1>10, <1>11, ObjectStep
<1>. QED BY <1>1, <1>8, <1>9, <1>12, NothingLost

\* UniqueFP's open: what it has stays open, without an owner.
LEMMA OverSlot ==
  ASSUME IInv, TypeOK', UNCHANGED quiet, NEW a \in Slot, a[1] # "member", Same({a}), NEW n, NEW x,
         n \in {None, Lowest(table)},
         table' = Put(table, n, x),
         Hold(a)' = n,
         n # None => x \in Files /\ Names(a, x)'
  PROVE  IInv'
<1>1. Typed /\ Sole /\ Open /\ DOMAIN table = Numbers
  BY HoldType DEF IInv, TypeOK
<1>2. n \in Numbers \cup {None} /\ (n # None => n \in Numbers /\ table[n] = Free)
  BY LowestIsFree
<1>3. \A k \in Numbers : table'[k] = IF k = n THEN x ELSE table[k]
  BY <1>1, <1>2, PutIs
<1>4. Free \notin Files
  BY DescriptorsAssumption
<1>5. n # 1 /\ n # 2
  BY <1>1, <1>2, Constants DEF Open
<1>6. Changes({a})
  BY <1>1, <1>2, <1>3, <1>4, <1>5, Constants DEF Changes, Same, Open
<1>7. Hold(a)' # None => table'[Hold(a)'] \in Files /\ Names(a, table[Hold(a)])'
  <2>1. CASE n = None
    BY <2>1
  <2>2. CASE n # None
    <3>1. table'[n] = x
      BY <1>2, <1>3, <2>2
    <3>. QED BY <2>2, <3>1 DEF Names
  <2>. QED BY <2>1, <2>2
<1>8. \A k \in Numbers : table'[k] # table[k] => table[k] = Free
  BY <1>2, <1>3, Constants
<1>. QED BY <1>6, <1>7, <1>8, ObjectStep

\* An object closes what it has and gets what another has.
LEMMA TwoSlots ==
  ASSUME IInv, TypeOK', UNCHANGED quiet, NEW a \in Slot, NEW b \in Slot, a # b,
         a[1] # "member", b[1] # "member", Same({a, b}),
         table' = Close(table, Hold(a)),
         Hold(a)' = Hold(b), Hold(b)' = None,
         NEW x, Hold(b) # None => table[Hold(b)] = x /\ Names(a, x)'
  PROVE  IInv' /\ Lost' \subseteq Lost
<1>1. Typed /\ Sole /\ Open /\ DOMAIN table = Numbers
  BY HoldType DEF IInv, TypeOK
<1>2. \A k \in Numbers : table'[k] = IF k = Hold(a) THEN Free ELSE table[k]
  <2>1. Hold(a) \in Numbers \cup {None} /\ table' = Put(table, Hold(a), Free)
    BY <1>1 DEF Close, Typed
  <2>. QED BY <1>1, <2>1, PutIs
<1>3. Hold(b) # None => Hold(b) \in Numbers /\ Hold(b) # Hold(a) /\ table'[Hold(b)] = table[Hold(b)]
                        /\ table[Hold(b)] \in Files /\ table[Hold(b)] # Free
  BY <1>1, <1>2 DEF Typed, Sole, Open, IInv, Remembered
<1>4. Hold(a) # 1 /\ Hold(a) # 2
  BY <1>1, Constants DEF Open
<1>5. Changes({a, b})
  BY <1>1, <1>2, <1>3, <1>4, Constants DEF Changes, Same, Open
<1>6. Keeps({a, b})
  BY <1>2, <1>3 DEF Keeps
<1>7. \A n \in Numbers : table'[n] # table[n] => table[n] = Free \/ \E i \in {a, b} : Hold(i) = n
  BY <1>2
<1>8. \A h \in {a, b} : Hold(h)' # None => table'[Hold(h)'] \in Files /\ Names(h, table[Hold(h)])'
  <2>1. CASE Hold(b) = None
    BY <2>1
  <2>2. CASE Hold(b) # None
    <3>1. table'[Hold(a)'] = x /\ x \in Files
      BY <1>3, <2>2
    <3>2. Names(a, table[Hold(a)])'
      BY <2>2, <3>1 DEF Names
    <3>. QED BY <2>2, <3>1, <3>2
  <2>. QED BY <2>1, <2>2
<1>9. \A h \in {a, b} : h[1] # "member"
  OBVIOUS
<1>10. IInv'
  BY <1>5, <1>7, <1>8, <1>9, ObjectStep
<1>. QED BY <1>1, <1>5, <1>6, <1>10, NothingLost
-----------------------------------------------------------------------------
(* Which slots each operation changes. *)

\* Same, by the variables.
LEMMA SameIs ==
  ASSUME NEW A,
         \A o \in FDs : <<"fd", o>> \notin A => fd'[o] = fd[o],
         \A o \in FPs : <<"fp", o>> \notin A => fp'[o] = fp[o],
         \A g \in Guards : <<"guard", g>> \notin A => guard'[g] = guard[g],
         \A n \in Numbers : <<"loose", n>> \notin A => (n \in loose' <=> n \in loose),
         silencer' = silencer
  PROVE  Same(A)
<1> SUFFICES ASSUME NEW h \in Slot \ A
             PROVE  /\ Hold(h)' = Hold(h)
                    /\ h[1] = "fd" => fd'[h[2]] = fd[h[2]]
                    /\ h[1] = "fp" => fp'[h[2]] = fp[h[2]]
  BY DEF Same
<1>1. ASSUME NEW o \in FDs, h = <<"fd", o>> PROVE Hold(h)' = Hold(h) /\ fd'[o] = fd[o]
  BY <1>1, HoldIs
<1>2. ASSUME NEW o \in FPs, h = <<"fp", o>> PROVE Hold(h)' = Hold(h) /\ fp'[o] = fp[o]
  BY <1>2, HoldIs
<1>3. ASSUME NEW g \in Guards, h = <<"guard", g>> PROVE Hold(h)' = Hold(h)
  BY <1>3, HoldIs
<1>4. ASSUME NEW n \in Numbers, h = <<"loose", n>> PROVE Hold(h)' = Hold(h)
  BY <1>4, HoldIs
<1>5. h[1] = "member" => Hold(h)' = Hold(h)
  BY DEF Hold
<1>. QED BY <1>1, <1>2, <1>3, <1>4, <1>5, SlotIs

Num(x) == IF x = Gone THEN None ELSE x.num

\* What open(path) may return is a number for that file, or none.
LEMMA OpenableIs ==
  ASSUME NEW t, NEW path \in Files \cup {NoPath}, NEW n \in Openable(t, path)
  PROVE  n \in {None, Lowest(t)} /\ (n # None => path \in Files)
BY DEF Openable

\* Nothing is closed when there is no number.
LEMMA CloseNone == \A t : Close(t, None) = t /\ \A x : Put(t, None, x) = t
BY DEF Close, Put

\* The table after an object has closed what it had and opened what it could.
LEMMA TableType ==
  ASSUME IInv, NEW h \in Slot, NEW n, NEW x, n \in {None, Lowest(Close(table, Hold(h)))}, n # None => x \in Files
  PROVE  Put(Close(table, Hold(h)), n, x) \in [Numbers -> Files \cup {Free, Terminal, Null}]
<1> DEFINE t == Close(table, Hold(h))
<1>1. t \in [Numbers -> Files \cup {Free, Terminal, Null}]
  BY HoldType, PutType DEF IInv, TypeOK, Typed, Close
<1> HIDE DEF t
<1>2. n \in Numbers \cup {None}
  BY LowestIsFree DEF t
<1>3. CASE n = None
  BY <1>1, <1>3, CloseNone DEF t
<1>4. CASE n # None
  BY <1>1, <1>2, <1>4, PutType DEF t
<1>. QED BY <1>3, <1>4

\* An operation of one UniqueFD: it closes what it had, opens what it could.
LEMMA FdOne ==
  ASSUME IInv, NEW o \in FDs, NEW r \in Holder \cup {Gone},
         Num(r) \in {None, Lowest(Close(table, Num(fd[o])))}, Num(r) # None => r.path \in Files,
         table' = Put(Close(table, Num(fd[o])), Num(r), r.path),
         fd' = [fd EXCEPT ![o] = r],
         UNCHANGED <<fp, guard, loose, quiet>>
  PROVE  IInv' /\ Lost' \subseteq Lost
<1> DEFINE a == <<"fd", o>>
<1>1. a \in Slot /\ Hold(a) = Num(fd[o]) /\ Hold(a)' = Num(fd'[o]) /\ a[1] = "fd" /\ a[2] = o
  BY HoldIs DEF Num
<1>2. fd'[o] = r /\ \A p \in FDs : a # <<"fd", p>> => fd'[p] = fd[p]
  BY DEF IInv, TypeOK
<1>3. Same({a})
  BY <1>2, SameIs DEF quiet
<1> HIDE DEF a
<1>4. TypeOK'
  <2>1. table' \in [Numbers -> Files \cup {Free, Terminal, Null}]
    BY <1>1, TableType
  <2>. QED BY <2>1 DEF IInv, TypeOK, quiet
<1>5. Num(r) # None => r.path \in Files /\ Names(a, r.path)'
  BY <1>1, <1>2 DEF Names
<1>. QED BY <1>1, <1>2, <1>3, <1>4, <1>5, OneSlot

\* ... of one UniqueFP.
LEMMA FpOne ==
  ASSUME IInv, NEW o \in FPs, NEW r \in Holder \cup {Gone},
         Num(r) \in {None, Lowest(Close(table, Num(fp[o])))}, Num(r) # None => r.path \in Files,
         table' = Put(Close(table, Num(fp[o])), Num(r), r.path),
         fp' = [fp EXCEPT ![o] = r],
         UNCHANGED <<fd, guard, loose, quiet>>
  PROVE  IInv' /\ Lost' \subseteq Lost
<1> DEFINE a == <<"fp", o>>
<1>1. a \in Slot /\ Hold(a) = Num(fp[o]) /\ Hold(a)' = Num(fp'[o]) /\ a[1] = "fp" /\ a[2] = o
  BY HoldIs DEF Num
<1>2. fp'[o] = r /\ \A p \in FPs : a # <<"fp", p>> => fp'[p] = fp[p]
  BY DEF IInv, TypeOK
<1>3. Same({a})
  BY <1>2, SameIs DEF quiet
<1> HIDE DEF a
<1>4. TypeOK'
  <2>1. table' \in [Numbers -> Files \cup {Free, Terminal, Null}]
    BY <1>1, TableType
  <2>. QED BY <2>1 DEF IInv, TypeOK, quiet
<1>5. Num(r) # None => r.path \in Files /\ Names(a, r.path)'
  BY <1>1, <1>2 DEF Names
<1>. QED BY <1>1, <1>2, <1>3, <1>4, <1>5, OneSlot

\* The number an active guard closes.
Grip(x) == IF x # Gone /\ x.active THEN x.num ELSE None

\* ... of one guard.
LEMMA GuardOne ==
  ASSUME IInv, NEW g \in Guards, NEW r \in Guarding \cup {Gone},
         Grip(r) \in {None, Lowest(Close(table, Grip(guard[g])))},
         \E x : (Grip(r) # None => x \in Files) /\ table' = Put(Close(table, Grip(guard[g])), Grip(r), x),
         guard' = [guard EXCEPT ![g] = r],
         UNCHANGED <<fd, fp, loose, quiet>>
  PROVE  IInv' /\ Lost' \subseteq Lost
<1>. PICK x : (Grip(r) # None => x \in Files) /\ table' = Put(Close(table, Grip(guard[g])), Grip(r), x)
  OBVIOUS
<1> DEFINE a == <<"guard", g>>
<1>1. a \in Slot /\ Hold(a) = Grip(guard[g]) /\ Hold(a)' = Grip(guard'[g]) /\ a[1] = "guard"
  BY HoldIs DEF Grip
<1>2. guard'[g] = r /\ \A p \in Guards : a # <<"guard", p>> => guard'[p] = guard[p]
  BY DEF IInv, TypeOK
<1>3. Same({a})
  BY <1>2, SameIs DEF quiet
<1> HIDE DEF a
<1>4. TypeOK'
  <2>1. table' \in [Numbers -> Files \cup {Free, Terminal, Null}]
    BY <1>1, TableType
  <2>. QED BY <2>1 DEF IInv, TypeOK, quiet
<1>5. Grip(r) # None => x \in Files /\ Names(a, x)'
  BY <1>1 DEF Names
<1>. QED BY <1>1, <1>2, <1>3, <1>4, <1>5, OneSlot

\* ... on one number of the caller's.
LEMMA LooseOne ==
  ASSUME IInv, NEW k \in Numbers, NEW n \in {None, k}, NEW x,
         n \in {None, Lowest(Close(table, Hold(<<"loose", k>>)))}, n # None => x \in Files,
         table' = Put(Close(table, Hold(<<"loose", k>>)), n, x),
         loose' = IF n = None THEN loose \ {k} ELSE loose \cup {k},
         UNCHANGED <<fd, fp, guard, quiet>>
  PROVE  IInv' /\ Lost' \subseteq Lost
<1> DEFINE a == <<"loose", k>>
<1>1. a \in Slot /\ Hold(a)' = n /\ a[1] = "loose"
  BY HoldIs, Constants
<1>2. \A p \in Numbers : a # <<"loose", p>> => (p \in loose' <=> p \in loose)
  OBVIOUS
<1>3. Same({a})
  BY <1>2, SameIs DEF quiet
<1>4. TypeOK'
  <2>1. table' \in [Numbers -> Files \cup {Free, Terminal, Null}]
    BY <1>1, TableType
  <2>2. loose' \subseteq Numbers
    BY DEF IInv, TypeOK
  <2>. QED BY <2>1, <2>2 DEF IInv, TypeOK, quiet
<1> HIDE DEF a
<1>5. n # None => x \in Files /\ Names(a, x)'
  BY <1>1 DEF Names
<1>. QED BY <1>1, <1>3, <1>4, <1>5, OneSlot DEF a
-----------------------------------------------------------------------------
(* The operations. *)

\* What there is of an object.
LEMMA ObjectTypes ==
  ASSUME IInv
  PROVE  /\ \A o \in FDs : fd[o] # Gone => fd[o] \in Holder
         /\ \A o \in FPs : fp[o] # Gone => fp[o] \in Holder
         /\ \A g \in Guards : guard[g] # Gone => guard[g] \in Guarding
         /\ table \in [Numbers -> Files \cup {Free, Terminal, Null}]
         /\ Gone \notin Holder /\ Gone \notin Guarding
BY DescriptorsAssumption DEF IInv, TypeOK

\* What an object names is what it has.
LEMMA HeldFile ==
  ASSUME IInv
  PROVE  /\ \A o \in FDs : Num(fd[o]) # None => table[Num(fd[o])] = fd[o].path /\ fd[o].path \in Files
         /\ \A o \in FPs : Num(fp[o]) # None => table[Num(fp[o])] = fp[o].path /\ fp[o].path \in Files
         /\ \A g \in Guards : Grip(guard[g]) # None => table[Grip(guard[g])] \in Files
         /\ \A n \in Numbers : n \in loose => table[n] \in Files /\ n > 2
<1>1. ASSUME NEW h \in Slot, h[1] # "member", Hold(h) # None
      PROVE  table[Hold(h)] \in Files /\ Names(h, table[Hold(h)]) /\ Hold(h) > 2
  BY <1>1 DEF IInv, Remembered, Open
<1>2. ASSUME NEW o \in FDs, Num(fd[o]) # None PROVE table[Num(fd[o])] = fd[o].path /\ fd[o].path \in Files
  <2> DEFINE h == <<"fd", o>>
  <2>1. h \in Slot /\ Hold(h) = Num(fd[o]) /\ h[1] = "fd" /\ h[2] = o
    BY HoldIs DEF Num
  <2> HIDE DEF h
  <2>. QED BY <1>1, <1>2, <2>1 DEF Names
<1>3. ASSUME NEW o \in FPs, Num(fp[o]) # None PROVE table[Num(fp[o])] = fp[o].path /\ fp[o].path \in Files
  <2> DEFINE h == <<"fp", o>>
  <2>1. h \in Slot /\ Hold(h) = Num(fp[o]) /\ h[1] = "fp" /\ h[2] = o
    BY HoldIs DEF Num
  <2> HIDE DEF h
  <2>. QED BY <1>1, <1>3, <2>1 DEF Names
<1>4. ASSUME NEW g \in Guards, Grip(guard[g]) # None PROVE table[Grip(guard[g])] \in Files
  <2> DEFINE h == <<"guard", g>>
  <2>1. h \in Slot /\ Hold(h) = Grip(guard[g]) /\ h[1] = "guard"
    BY HoldIs DEF Grip
  <2> HIDE DEF h
  <2>. QED BY <1>1, <1>4, <2>1
<1>5. ASSUME NEW n \in Numbers, n \in loose PROVE table[n] \in Files /\ n > 2
  <2> DEFINE h == <<"loose", n>>
  <2>1. h \in Slot /\ Hold(h) = n /\ h[1] = "loose" /\ n # None
    BY <1>5, HoldIs, Constants
  <2> HIDE DEF h
  <2>. QED BY <1>1, <2>1
<1>. QED BY <1>2, <1>3, <1>4, <1>5

\* What an object is after it has been opened, closed or moved away from.
LEMMA ObjectMade ==
  /\ \A n \in Numbers \cup {None}, path \in Files \cup {NoPath} : Held(n, path) \in Holder /\ Empty(path) \in Holder
  /\ \A r \in Holder, n \in Numbers \cup {None} : [r EXCEPT !.num = n] \in Holder
  /\ \A r \in Guarding : [r EXCEPT !.active = FALSE] \in Guarding
BY DEF Held, Empty, Holder, Guarding

\* Each operation of a UniqueFD.
LEMMA FdOpens ==
  ASSUME IInv, NEW o \in FDs, NEW path \in Files \cup {NoPath}, FdConstruct(o, path) \/ FdOpen(o, path)
  PROVE  IInv' /\ Lost' \subseteq Lost
<1>1. PICK n \in Openable(table, path) :
        /\ fd' = [fd EXCEPT ![o] = Held(n, path)] /\ table' = Put(table, n, path)
        /\ UNCHANGED <<fp, guard, loose, quiet>>
  BY Zenon DEF FdConstruct, FdOpen
<1>2. Num(fd[o]) = None
  BY DEF FdConstruct, FdOpen, Num
<1>3. n \in {None, Lowest(table)} /\ (n # None => path \in Files) /\ n \in Numbers \cup {None}
  BY OpenableIs, LowestIsFree
<1>4. Held(n, path) \in Holder /\ Num(Held(n, path)) = n /\ Held(n, path).path = path
  BY <1>3, ObjectMade, ObjectTypes DEF Held, Num
<1> DEFINE r == Held(n, path)
<1>5. fd' = [fd EXCEPT ![o] = r] /\ r \in Holder /\ Num(r) = n /\ r.path = path
  BY <1>1, <1>4
<1> HIDE DEF r
<1>6. /\ Num(r) \in {None, Lowest(Close(table, Num(fd[o])))}
      /\ table' = Put(Close(table, Num(fd[o])), Num(r), r.path)
  BY <1>1, <1>2, <1>3, <1>5, CloseNone
<1>. QED BY <1>1, <1>3, <1>5, <1>6, FdOne

\* reOpen() closes first, so it may get its own number back.
LEMMA FdReOpens ==
  ASSUME IInv, NEW o \in FDs, FdReOpen(o)
  PROVE  IInv' /\ Lost' \subseteq Lost
<1> DEFINE t == Close(table, fd[o].num)
           path == fd[o].path
<1>1. PICK n \in Openable(t, path) :
        /\ fd' = [fd EXCEPT ![o].num = n] /\ table' = Put(t, n, path)
        /\ UNCHANGED <<fp, guard, loose, quiet>>
  BY Zenon DEF FdReOpen
<1>2. fd[o] \in Holder /\ path \in Files \cup {NoPath} /\ Num(fd[o]) = fd[o].num
  BY ObjectTypes DEF FdReOpen, Holder, Num
<1>3. n \in {None, Lowest(t)} /\ (n # None => path \in Files) /\ n \in Numbers \cup {None}
  BY <1>2, OpenableIs, LowestIsFree
<1> DEFINE r == [fd[o] EXCEPT !.num = n]
<1>4. r \in Holder /\ Num(r) = n /\ r.path = path
  BY <1>2, <1>3, ObjectMade, ObjectTypes DEF Holder, Num
<1>5. fd' = [fd EXCEPT ![o] = r]
  BY <1>1, Zenon
<1> HIDE DEF r
<1>6. /\ Num(r) \in {None, Lowest(Close(table, Num(fd[o])))}
      /\ table' = Put(Close(table, Num(fd[o])), Num(r), r.path)
  BY <1>1, <1>2, <1>3, <1>4
<1>. QED BY <1>1, <1>3, <1>4, <1>5, <1>6, FdOne

\* close() and the destructor.
LEMMA FdCloses ==
  ASSUME IInv, NEW o \in FDs, FdClose(o) \/ FdDestroy(o)
  PROVE  IInv' /\ Lost' \subseteq Lost
<1>1. fd[o] \in Holder /\ Num(fd[o]) = fd[o].num
  BY ObjectTypes DEF FdClose, FdDestroy, Num
<1> DEFINE r == [fd[o] EXCEPT !.num = None]
<1>2. r \in Holder /\ Num(r) = None /\ Num(Gone) = None
  BY <1>1, ObjectMade, ObjectTypes DEF Holder, Num
<1>3. fd' = [fd EXCEPT ![o] = r] \/ fd' = [fd EXCEPT ![o] = Gone]
  BY Zenon DEF FdClose, FdDestroy
<1>4. UNCHANGED <<fp, guard, loose, quiet>> /\ \A x : table' = Put(Close(table, Num(fd[o])), None, x)
  BY <1>1, CloseNone, Zenon DEF FdClose, FdDestroy
<1> HIDE DEF r
<1>. QED BY <1>2, <1>3, <1>4, FdOne

\* A move leaves the other without a number; the assignment closes its own first.
LEMMA FdMoves ==
  ASSUME IInv, NEW o \in FDs, NEW other \in FDs, FdMove(o, other) \/ FdAssign(o, other)
  PROVE  IInv' /\ Lost' \subseteq Lost
<1> DEFINE a == <<"fd", o>>
           b == <<"fd", other>>
<1> PICK x : x = fd[other].path
  OBVIOUS
<1>1. a \in Slot /\ Hold(a) = Num(fd[o]) /\ Hold(a)' = Num(fd'[o]) /\ a[1] = "fd" /\ a[2] = o
  BY HoldIs DEF Num
<1>2. b \in Slot /\ Hold(b) = Num(fd[other]) /\ Hold(b)' = Num(fd'[other]) /\ b[1] = "fd" /\ b[2] = other
  BY HoldIs DEF Num
<1>3. o # other /\ fd[other] # Gone /\ fd[other] \in Holder
  BY ObjectTypes DEF FdMove, FdAssign
<1>4. PICK r \in Holder : r.num = None /\ fd' = [fd EXCEPT ![o] = fd[other], ![other] = r]
  <2>1. CASE FdMove(o, other)
    <3> DEFINE r == [fd[other] EXCEPT !.num = None]
    <3>1. r \in Holder /\ r.num = None
      BY <1>3, ObjectMade DEF Holder
    <3>2. fd' = [fd EXCEPT ![o] = fd[other], ![other] = r]
      BY <1>3, <2>1 DEF FdMove, IInv, TypeOK
    <3> HIDE DEF r
    <3>. QED BY <3>1, <3>2
  <2>2. CASE FdAssign(o, other)
    BY <2>2, ObjectMade DEF FdAssign, Empty
  <2>. QED BY <2>1, <2>2
<1>5. fd'[o] = fd[other] /\ fd'[other] = r /\ \A p \in FDs : p # o /\ p # other => fd'[p] = fd[p]
  BY <1>3, <1>4 DEF IInv, TypeOK
<1>6. Num(r) = None
  BY <1>4 DEF Num
<1>7. table' = Close(table, Num(fd[o]))
  BY CloseNone DEF FdMove, FdAssign, Num
<1>8. UNCHANGED <<fp, guard, loose, quiet>>
  BY DEF FdMove, FdAssign
<1>9. Same({a, b})
  BY <1>5, <1>8, SameIs DEF quiet
<1>10. TypeOK'
  <2>1. table' \in [Numbers -> Files \cup {Free, Terminal, Null}]
    BY <1>1, <1>7, TableType, CloseNone
  <2>2. fd' \in [FDs -> Holder \cup {Gone}]
    BY <1>3, <1>4 DEF IInv, TypeOK
  <2>. QED BY <1>8, <2>1, <2>2 DEF IInv, TypeOK, quiet
<1>11. a # b
  BY <1>3
<1> HIDE DEF a, b
<1>12. Hold(b) # None => table[Hold(b)] = x /\ Names(a, x)'
  BY <1>1, <1>2, <1>5, HeldFile DEF Names
<1>. QED BY <1>1, <1>2, <1>5, <1>6, <1>7, <1>8, <1>9, <1>10, <1>11, <1>12, TwoSlots

\* getOwnership() takes the number from the caller.
LEMMA FdOwns ==
  ASSUME IInv, NEW o \in FDs, NEW n \in Numbers, FdOwn(o, n)
  PROVE  IInv' /\ Lost' \subseteq Lost
<1> DEFINE a == <<"fd", o>>
           b == <<"loose", n>>
<1> PICK x : x = table[n]
  OBVIOUS
<1>1. a \in Slot /\ Hold(a) = Num(fd[o]) /\ Hold(a)' = Num(fd'[o]) /\ a[1] = "fd" /\ a[2] = o
  BY HoldIs DEF Num
<1>2. b \in Slot /\ Hold(b) = n /\ Hold(b)' = None /\ b[1] = "loose"
  BY HoldIs DEF FdOwn
<1>3. x \in Files /\ Held(n, x) \in Holder /\ Num(Held(n, x)) = n /\ Held(n, x).path = x
  BY HeldFile, ObjectMade, ObjectTypes DEF FdOwn, Num, Held
<1>4. fd'[o] = Held(n, x) /\ \A p \in FDs : p # o => fd'[p] = fd[p]
  BY DEF FdOwn, IInv, TypeOK
<1>5. table' = Close(table, Hold(a)) /\ UNCHANGED <<fp, guard, quiet>> /\ loose' = loose \ {n}
  BY <1>1, CloseNone DEF FdOwn, Num
<1>6. Same({a, b})
  BY <1>4, <1>5, SameIs DEF quiet
<1>7. TypeOK'
  <2>1. fd' \in [FDs -> Holder \cup {Gone}]
    BY <1>3 DEF IInv, TypeOK, FdOwn
  <2>. QED BY <2>1 DEF FdOwn, IInv, TypeOK, quiet
<1>8. a # b
  OBVIOUS
<1> HIDE DEF a, b
<1>9. Names(a, x)'
  BY <1>1, <1>3, <1>4 DEF Names
<1>. QED BY <1>1, <1>2, <1>3, <1>4, <1>5, <1>6, <1>7, <1>8, <1>9, TwoSlots

\* dup() gives the caller a number; the caller closes it.
LEMMA LooseSteps ==
  ASSUME IInv, (\E o \in FDs : FdDup(o)) \/ (\E n \in Numbers : CloseLoose(n))
  PROVE  IInv' /\ Lost' \subseteq Lost
<1>1. ASSUME NEW o \in FDs, FdDup(o) PROVE IInv' /\ Lost' \subseteq Lost
  <2> DEFINE k == Lowest(table)
             x == fd[o].path
  <2>1. k \in Numbers /\ table[k] = Free /\ k # None
    BY <1>1, LowestIsFree DEF FdDup
  <2>2. Hold(<<"loose", k>>) = None
    BY <2>1, HoldIs DEF IInv, Open
  <2>3. x \in Files
    BY <1>1, HeldFile DEF FdDup, Num
  <2>4. table' = Put(Close(table, None), k, x) /\ loose' = loose \cup {k} /\ UNCHANGED <<fd, fp, guard, quiet>>
    BY <1>1, CloseNone, Zenon DEF FdDup
  <2>5. k = Lowest(Close(table, None))
    BY CloseNone
  <2> HIDE DEF k, x
  <2>. QED BY <2>1, <2>2, <2>3, <2>4, <2>5, LooseOne
<1>2. ASSUME NEW n \in Numbers, CloseLoose(n) PROVE IInv' /\ Lost' \subseteq Lost
  <2>1. Hold(<<"loose", n>>) = n
    BY <1>2, HoldIs DEF CloseLoose
  <2>2. table' = Put(Close(table, n), None, NoPath) /\ loose' = loose \ {n} /\ UNCHANGED <<fd, fp, guard, quiet>>
    BY <1>2, CloseNone, Zenon DEF CloseLoose
  <2>. QED BY <2>1, <2>2, LooseOne
<1>. QED BY <1>1, <1>2
\* Each operation of a UniqueFP but open().
LEMMA FpConstructs ==
  ASSUME IInv, NEW o \in FPs, NEW path \in Files \cup {NoPath}, FpConstruct(o, path)
  PROVE  IInv' /\ Lost' \subseteq Lost
<1>1. PICK n \in Openable(table, path) :
        /\ fp' = [fp EXCEPT ![o] = Held(n, path)] /\ table' = Put(table, n, path)
        /\ UNCHANGED <<fd, guard, loose, quiet>>
  BY Zenon DEF FpConstruct
<1>2. Num(fp[o]) = None
  BY DEF FpConstruct, Num
<1>3. n \in {None, Lowest(table)} /\ (n # None => path \in Files) /\ n \in Numbers \cup {None}
  BY OpenableIs, LowestIsFree
<1>4. Held(n, path) \in Holder /\ Num(Held(n, path)) = n /\ Held(n, path).path = path
  BY <1>3, ObjectMade, ObjectTypes DEF Held, Num
<1> DEFINE r == Held(n, path)
<1>5. fp' = [fp EXCEPT ![o] = r] /\ r \in Holder /\ Num(r) = n /\ r.path = path
  BY <1>1, <1>4
<1> HIDE DEF r
<1>6. /\ Num(r) \in {None, Lowest(Close(table, Num(fp[o])))}
      /\ table' = Put(Close(table, Num(fp[o])), Num(r), r.path)
  BY <1>1, <1>2, <1>3, <1>5, CloseNone
<1>. QED BY <1>1, <1>3, <1>5, <1>6, FpOne

\* reOpen() of a UniqueFP closes its stream first.
LEMMA FpReOpens ==
  ASSUME IInv, NEW o \in FPs, FpReOpen(o)
  PROVE  IInv' /\ Lost' \subseteq Lost
<1> DEFINE t == Close(table, fp[o].num)
           path == fp[o].path
<1>1. PICK n \in Openable(t, path) :
        /\ fp' = [fp EXCEPT ![o].num = n] /\ table' = Put(t, n, path)
        /\ UNCHANGED <<fd, guard, loose, quiet>>
  BY Zenon DEF FpReOpen
<1>2. fp[o] \in Holder /\ path \in Files \cup {NoPath} /\ Num(fp[o]) = fp[o].num
  BY ObjectTypes DEF FpReOpen, Holder, Num
<1>3. n \in {None, Lowest(t)} /\ (n # None => path \in Files) /\ n \in Numbers \cup {None}
  BY <1>2, OpenableIs, LowestIsFree
<1> DEFINE r == [fp[o] EXCEPT !.num = n]
<1>4. r \in Holder /\ Num(r) = n /\ r.path = path
  BY <1>2, <1>3, ObjectMade, ObjectTypes DEF Holder, Num
<1>5. fp' = [fp EXCEPT ![o] = r]
  BY <1>1, Zenon
<1> HIDE DEF r
<1>6. /\ Num(r) \in {None, Lowest(Close(table, Num(fp[o])))}
      /\ table' = Put(Close(table, Num(fp[o])), Num(r), r.path)
  BY <1>1, <1>2, <1>3, <1>4
<1>. QED BY <1>1, <1>3, <1>4, <1>5, <1>6, FpOne

\* close() and the destructor.
LEMMA FpCloses ==
  ASSUME IInv, NEW o \in FPs, FpClose(o) \/ FpDestroy(o)
  PROVE  IInv' /\ Lost' \subseteq Lost
<1>1. fp[o] \in Holder /\ Num(fp[o]) = fp[o].num
  BY ObjectTypes DEF FpClose, FpDestroy, Num
<1> DEFINE r == [fp[o] EXCEPT !.num = None]
<1>2. r \in Holder /\ Num(r) = None /\ Num(Gone) = None
  BY <1>1, ObjectMade, ObjectTypes DEF Holder, Num
<1>3. fp' = [fp EXCEPT ![o] = r] \/ fp' = [fp EXCEPT ![o] = Gone]
  BY Zenon DEF FpClose, FpDestroy
<1>4. UNCHANGED <<fd, guard, loose, quiet>> /\ \A x : table' = Put(Close(table, Num(fp[o])), None, x)
  BY <1>1, CloseNone, Zenon DEF FpClose, FpDestroy
<1> HIDE DEF r
<1>. QED BY <1>2, <1>3, <1>4, FpOne

\* As with UniqueFD, a move leaves the other without a number; the assignment closes its own first.
LEMMA FpMoves ==
  ASSUME IInv, NEW o \in FPs, NEW other \in FPs, FpMove(o, other) \/ FpAssign(o, other)
  PROVE  IInv' /\ Lost' \subseteq Lost
<1> DEFINE a == <<"fp", o>>
           b == <<"fp", other>>
<1> PICK x : x = fp[other].path
  OBVIOUS
<1>1. a \in Slot /\ Hold(a) = Num(fp[o]) /\ Hold(a)' = Num(fp'[o]) /\ a[1] = "fp" /\ a[2] = o
  BY HoldIs DEF Num
<1>2. b \in Slot /\ Hold(b) = Num(fp[other]) /\ Hold(b)' = Num(fp'[other]) /\ b[1] = "fp" /\ b[2] = other
  BY HoldIs DEF Num
<1>3. o # other /\ fp[other] # Gone /\ fp[other] \in Holder
  BY ObjectTypes DEF FpMove, FpAssign
<1>4. PICK r \in Holder : r.num = None /\ fp' = [fp EXCEPT ![o] = fp[other], ![other] = r]
  <2>1. CASE FpMove(o, other)
    <3> DEFINE r == [fp[other] EXCEPT !.num = None]
    <3>1. r \in Holder /\ r.num = None
      BY <1>3, ObjectMade DEF Holder
    <3>2. fp' = [fp EXCEPT ![o] = fp[other], ![other] = r]
      BY <1>3, <2>1 DEF FpMove, IInv, TypeOK
    <3> HIDE DEF r
    <3>. QED BY <3>1, <3>2
  <2>2. CASE FpAssign(o, other)
    BY <2>2, ObjectMade DEF FpAssign, Empty
  <2>. QED BY <2>1, <2>2
<1>5. fp'[o] = fp[other] /\ fp'[other] = r /\ \A p \in FPs : p # o /\ p # other => fp'[p] = fp[p]
  BY <1>3, <1>4 DEF IInv, TypeOK
<1>6. Num(r) = None
  BY <1>4 DEF Num
<1>7. table' = Close(table, Num(fp[o]))
  BY CloseNone DEF FpMove, FpAssign, Num
<1>8. UNCHANGED <<fd, guard, loose, quiet>>
  BY DEF FpMove, FpAssign
<1>9. Same({a, b})
  BY <1>5, <1>8, SameIs DEF quiet
<1>10. TypeOK'
  <2>1. table' \in [Numbers -> Files \cup {Free, Terminal, Null}]
    BY <1>1, <1>7, TableType, CloseNone
  <2>2. fp' \in [FPs -> Holder \cup {Gone}]
    BY <1>3, <1>4 DEF IInv, TypeOK
  <2>. QED BY <1>8, <2>1, <2>2 DEF IInv, TypeOK, quiet
<1>11. a # b
  BY <1>3
<1> HIDE DEF a, b
<1>12. Hold(b) # None => table[Hold(b)] = x /\ Names(a, x)'
  BY <1>1, <1>2, <1>5, HeldFile DEF Names
<1>. QED BY <1>1, <1>2, <1>5, <1>6, <1>7, <1>8, <1>9, <1>10, <1>11, <1>12, TwoSlots

\* getOwnership() and the explicit constructor take the number from the caller.
LEMMA FpOwns ==
  ASSUME IInv, NEW o \in FPs, NEW n \in Numbers, FpOwn(o, n)
  PROVE  IInv' /\ Lost' \subseteq Lost
<1> DEFINE a == <<"fp", o>>
           b == <<"loose", n>>
<1> PICK x : x = table[n]
  OBVIOUS
<1>1. a \in Slot /\ Hold(a) = Num(fp[o]) /\ Hold(a)' = Num(fp'[o]) /\ a[1] = "fp" /\ a[2] = o
  BY HoldIs DEF Num
<1>2. b \in Slot /\ Hold(b) = n /\ Hold(b)' = None /\ b[1] = "loose"
  BY HoldIs DEF FpOwn
<1>3. x \in Files /\ Held(n, x) \in Holder /\ Num(Held(n, x)) = n /\ Held(n, x).path = x
  BY HeldFile, ObjectMade, ObjectTypes DEF FpOwn, Num, Held
<1>4. fp'[o] = Held(n, x) /\ \A p \in FPs : p # o => fp'[p] = fp[p]
  BY DEF FpOwn, IInv, TypeOK
<1>5. table' = Close(table, Hold(a)) /\ UNCHANGED <<fd, guard, quiet>> /\ loose' = loose \ {n}
  BY <1>1, CloseNone DEF FpOwn, Num
<1>6. Same({a, b})
  BY <1>4, <1>5, SameIs DEF quiet
<1>7. TypeOK'
  <2>1. fp' \in [FPs -> Holder \cup {Gone}]
    BY <1>3 DEF IInv, TypeOK, FpOwn
  <2>. QED BY <2>1 DEF FpOwn, IInv, TypeOK, quiet
<1>8. a # b
  OBVIOUS
<1> HIDE DEF a, b
<1>9. Names(a, x)'
  BY <1>1, <1>3, <1>4 DEF Names
<1>. QED BY <1>1, <1>2, <1>3, <1>4, <1>5, <1>6, <1>7, <1>8, <1>9, TwoSlots

\* open() over the stream of another file: the one operation that may lose a number.
LEMMA FpOpens == ASSUME IInv, NEW o \in FPs, NEW path \in Files, FpOpen(o, path) PROVE IInv'
<1>1. PICK n \in Openable(table, path) :
        /\ fp' = [fp EXCEPT ![o] = Held(n, path)] /\ table' = Put(table, n, path)
        /\ UNCHANGED <<fd, guard, loose, quiet>>
  BY Zenon DEF FpOpen
<1>2. n \in {None, Lowest(table)} /\ (n # None => path \in Files) /\ n \in Numbers \cup {None}
  BY OpenableIs, LowestIsFree
<1>3. Held(n, path) \in Holder /\ Num(Held(n, path)) = n /\ Held(n, path).path = path
  BY <1>2, ObjectMade, ObjectTypes DEF Held, Num
<1> DEFINE a == <<"fp", o>>
<1>4. a \in Slot /\ Hold(a)' = Num(fp'[o]) /\ a[1] = "fp" /\ a[2] = o
  BY HoldIs DEF Num
<1>5. fp'[o] = Held(n, path) /\ \A p \in FPs : p # o => fp'[p] = fp[p]
  BY <1>1 DEF IInv, TypeOK
<1>6. Same({a})
  BY <1>1, <1>5, SameIs DEF quiet
<1> HIDE DEF a
<1>7. TypeOK'
  <2>1. table' \in [Numbers -> Files \cup {Free, Terminal, Null}]
    BY <1>1, <1>2, PutType DEF IInv, TypeOK
  <2>2. fp' \in [FPs -> Holder \cup {Gone}]
    BY <1>1, <1>3 DEF IInv, TypeOK
  <2>. QED BY <1>1, <2>1, <2>2 DEF IInv, TypeOK, quiet
<1>8. Names(a, path)'
  BY <1>3, <1>4, <1>5 DEF Names
<1>. QED BY <1>1, <1>2, <1>3, <1>4, <1>5, <1>6, <1>7, <1>8, OverSlot

\* A guard opens, and closes once, when it is active.
LEMMA GuardOnes ==
  ASSUME IInv, NEW g \in Guards,
         (\E path \in Files : GuardOpen(g, path)) \/ GuardNow(g) \/ GuardDestroy(g)
  PROVE  IInv' /\ Lost' \subseteq Lost
<1>1. ASSUME NEW path \in Files, GuardOpen(g, path) PROVE IInv' /\ Lost' \subseteq Lost
  <2>1. PICK n \in Openable(table, path) :
          /\ guard' = [guard EXCEPT ![g] = [num |-> n, active |-> TRUE]] /\ table' = Put(table, n, path)
          /\ UNCHANGED <<fd, fp, loose, quiet>>
    BY <1>1, Zenon DEF GuardOpen
  <2> DEFINE r == [num |-> n, active |-> TRUE]
  <2>2. n \in {None, Lowest(table)} /\ n \in Numbers \cup {None}
    BY OpenableIs, LowestIsFree
  <2>3. r \in Guarding /\ r.num = n /\ r.active
    BY <2>2 DEF Guarding
  <2>4. guard' = [guard EXCEPT ![g] = r] /\ UNCHANGED <<fd, fp, loose, quiet>>
    BY <2>1
  <2> HIDE DEF r
  <2>5. Grip(guard[g]) = None
    BY <1>1 DEF GuardOpen, Grip
  <2>6. Grip(r) = n
    BY <2>3, ObjectTypes DEF Grip
  <2>7. /\ Grip(r) \in {None, Lowest(Close(table, Grip(guard[g])))}
        /\ table' = Put(Close(table, Grip(guard[g])), Grip(r), path) /\ path \in Files
    BY <2>1, <2>2, <2>5, <2>6, CloseNone
  <2>8. r \in Guarding \cup {Gone}
    BY <2>3
  <2>9. \E x : (Grip(r) # None => x \in Files) /\ table' = Put(Close(table, Grip(guard[g])), Grip(r), x)
    BY <2>7
  <2>. QED BY <2>4, <2>7, <2>8, <2>9, GuardOne
<1>2. CASE GuardNow(g) \/ GuardDestroy(g)
  <2>1. guard[g] \in Guarding /\ guard[g] # Gone
    BY <1>2, ObjectTypes DEF GuardNow, GuardDestroy
  <2> DEFINE r == [guard[g] EXCEPT !.active = FALSE]
  <2>2. r \in Guarding /\ Grip(r) = None /\ Grip(Gone) = None
    BY <2>1, ObjectMade DEF Grip, Guarding
  <2>3. guard' = [guard EXCEPT ![g] = r] \/ guard' = [guard EXCEPT ![g] = Gone]
    BY <1>2, Zenon DEF GuardNow, GuardDestroy
  <2>4. UNCHANGED <<fd, fp, loose, quiet>> /\ \A x : table' = Put(Close(table, Grip(guard[g])), None, x)
    BY <1>2, <2>1, CloseNone, Zenon DEF GuardNow, GuardDestroy, Grip
  <2> HIDE DEF r
  <2>5. \E x : (Grip(r) # None => x \in Files) /\ table' = Put(Close(table, Grip(guard[g])), Grip(r), x)
    BY <2>2, <2>4
  <2>6. \E x : (Grip(Gone) # None => x \in Files) /\ table' = Put(Close(table, Grip(guard[g])), Grip(Gone), x)
    BY <2>2, <2>4
  <2>. QED BY <2>2, <2>3, <2>4, <2>5, <2>6, GuardOne
<1>. QED BY <1>1, <1>2

\* A guard that was moved or dismissed does not close any more.
LEMMA GuardMoves ==
  ASSUME IInv, NEW g \in Guards, NEW other \in Guards, GuardMove(g, other)
  PROVE  IInv' /\ Lost' \subseteq Lost
<1> DEFINE a == <<"guard", g>>
           b == <<"guard", other>>
           r == [guard[other] EXCEPT !.active = FALSE]
<1>1. a \in Slot /\ Hold(a) = Grip(guard[g]) /\ Hold(a)' = Grip(guard'[g]) /\ a[1] = "guard"
  BY HoldIs DEF Grip
<1>2. b \in Slot /\ Hold(b) = Grip(guard[other]) /\ Hold(b)' = Grip(guard'[other]) /\ b[1] = "guard"
  BY HoldIs DEF Grip
<1>3. g # other /\ guard[other] \in Guarding
  BY ObjectTypes DEF GuardMove
<1>4. r \in Guarding /\ Grip(r) = None
  BY <1>3, ObjectMade DEF Grip, Guarding
<1>5. guard' = [guard EXCEPT ![g] = guard[other], ![other] = r]
  BY <1>3 DEF GuardMove, IInv, TypeOK
<1> HIDE DEF r
<1>6. guard'[g] = guard[other] /\ guard'[other] = r /\ \A p \in Guards : p # g /\ p # other => guard'[p] = guard[p]
  BY <1>3, <1>5 DEF IInv, TypeOK
<1>7. table' = Close(table, Grip(guard[g])) /\ UNCHANGED <<fd, fp, loose, quiet>>
  BY CloseNone DEF GuardMove, Grip
<1>8. Same({a, b})
  BY <1>6, <1>7, SameIs DEF quiet
<1>9. TypeOK'
  <2>1. guard' \in [Guards -> Guarding \cup {Gone}]
    BY <1>3, <1>4, <1>5 DEF IInv, TypeOK
  <2>. QED BY <2>1 DEF GuardMove, IInv, TypeOK, quiet
<1>10. a # b
  BY <1>3
<1> HIDE DEF a, b
<1> PICK x : x = table[Hold(b)]
  OBVIOUS
<1>11. Names(a, x)'
  BY <1>1 DEF Names
<1>. QED BY <1>1, <1>2, <1>4, <1>6, <1>7, <1>8, <1>9, <1>10, <1>11, TwoSlots

\* dismiss() and release(): the number goes to the caller, when there is one.
LEMMA GuardDismisses ==
  ASSUME IInv, NEW g \in Guards, GuardDismiss(g)
  PROVE  IInv' /\ Lost' \subseteq Lost
<1> PICK n : n = guard[g].num
  OBVIOUS
<1> DEFINE r == [guard[g] EXCEPT !.active = FALSE]
<1>1. guard[g] \in Guarding /\ guard[g] # Gone /\ n \in Numbers \cup {None} /\ Grip(guard[g]) = n
  BY ObjectTypes DEF GuardDismiss, Guarding, Grip
<1>2. r \in Guarding /\ Grip(r) = None
  BY <1>1, ObjectMade DEF Grip, Guarding
<1>3. guard' = [guard EXCEPT ![g] = r] /\ UNCHANGED <<table, fd, fp, quiet>> /\ loose' = loose \cup ({n} \ {None})
  BY Zenon DEF GuardDismiss
<1> HIDE DEF r
<1>4. CASE n = None
  <2>1. loose' = loose
    BY <1>3, <1>4
  <2>2. \A x : table' = Put(Close(table, Grip(guard[g])), None, x)
    BY <1>1, <1>3, <1>4, CloseNone
  <2>3. \E x : (Grip(r) # None => x \in Files) /\ table' = Put(Close(table, Grip(guard[g])), Grip(r), x)
    BY <1>2, <2>2
  <2>. QED BY <1>2, <1>3, <2>1, <2>3, GuardOne
<1>5. CASE n # None
  <2> DEFINE a == <<"loose", n>>
             b == <<"guard", g>>
  <2>1. b \in Slot /\ Hold(b) = n /\ Hold(b)' = Grip(guard'[g]) /\ b[1] = "guard"
    BY <1>1, HoldIs DEF Grip
  <2>2. a \in Slot /\ Hold(a)' = n /\ a[1] = "loose" /\ a # b
    BY <1>1, <1>3, <1>5, HoldIs
  <2>3. guard'[g] = r /\ \A p \in Guards : p # g => guard'[p] = guard[p]
    BY <1>3 DEF IInv, TypeOK
  <2>4. \A p \in Numbers : p # n => (p \in loose' <=> p \in loose)
    BY <1>3
  <2>5. Same({a, b})
    BY <1>3, <2>3, <2>4, SameIs DEF quiet
  <2>6. TypeOK'
    <3>1. guard' \in [Guards -> Guarding \cup {Gone}] /\ loose' \subseteq Numbers
      BY <1>1, <1>2, <1>3 DEF IInv, TypeOK
    <3>. QED BY <1>3, <3>1 DEF IInv, TypeOK, quiet
  <2>7. Hold(a) = IF n \in loose THEN n ELSE None
    BY <1>1, <1>5, HoldIs
  <2> HIDE DEF a, b
  <2>10. Hold(a) = None
    BY <1>5, <2>1, <2>2, <2>7 DEF IInv, Sole
  <2>8. table' = Close(table, Hold(a))
    BY <1>3, <2>10, CloseNone
  <2> PICK x : x = table[Hold(b)]
    OBVIOUS
  <2>9. Names(a, x)'
    BY <2>2 DEF Names
  <2>. QED BY <1>2, <1>3, <2>1, <2>2, <2>3, <2>5, <2>6, <2>8, <2>9, <2>10, TwoSlots
<1>. QED BY <1>1, <1>4, <1>5
-----------------------------------------------------------------------------
(* Silencers. *)

\* Steps of one silencer: what the objects hold stays.
LEMMA MemberStep ==
  ASSUME IInv, TypeOK', SilencerType', Stack', Copies', NEW s \in Silencers, UNCHANGED objects,
         \A i \in Silencers : i # s => silencer'[i] = silencer[i],
         \A m, k \in Members : silencer'[s][m] # None /\ silencer'[s][m] = silencer'[s][k] => m = k,
         \A m \in Members : silencer'[s][m] # None =>
           /\ silencer'[s][m] \in Numbers /\ table'[silencer'[s][m]] # Free
           /\ table[silencer'[s][m]] = Free,
         \A n \in Numbers : n > 2 /\ table'[n] # table[n] => table[n] = Free \/ \E k \in Members : silencer[s][k] = n,
         \A n \in Numbers : n > 2 /\ table'[n] # Free /\ (table[n] = Free \/ \E k \in Members : silencer[s][k] = n) =>
           \E k \in Members : silencer'[s][k] = n,
         table'[1] # Free /\ table'[2] # Free
  PROVE  IInv' /\ Lost' \subseteq Lost
<1> DEFINE A == {<<"member", <<s, m>>>> : m \in Members}
<1>1. /\ A \subseteq Slot
      /\ \A m \in Members : LET h == <<"member", <<s, m>>>> IN
           h \in A /\ Hold(h) = silencer[s][m] /\ Hold(h)' = silencer'[s][m]
      /\ \A h \in A : \E m \in Members : h = <<"member", <<s, m>>>>
  BY HoldIs
<1>2. ASSUME NEW h \in Slot \ A PROVE Hold(h)' = Hold(h)
  <2>1. CASE h[1] # "member"
    BY <2>1 DEF Hold, objects
  <2>2. CASE h[1] = "member"
    <3>1. PICK i \in Silencers, m \in Members : h = <<"member", <<i, m>>>>
      BY <2>2, SlotIs
    <3>2. i # s
      BY <1>2, <3>1
    <3>. QED BY <3>1, <3>2, HoldIs
  <2>. QED BY <2>1, <2>2
<1>3. \A h \in A : \E m \in Members :
        h = <<"member", <<s, m>>>> /\ Hold(h) = silencer[s][m] /\ Hold(h)' = silencer'[s][m]
  BY <1>1
<1>4. \A m \in Members : \E h \in A : Hold(h) = silencer[s][m] /\ Hold(h)' = silencer'[s][m]
  BY <1>1
<1>5. A \subseteq Slot
  BY <1>1
<1> HIDE DEF A
<1>6. Changes(A)
  <2>1. \A h, i \in A : Hold(h)' # None /\ Hold(h)' = Hold(i)' => h = i
    BY <1>3
  <2>2. \A h \in A : Hold(h)' # None =>
          /\ Hold(h)' \in Numbers /\ table'[Hold(h)'] # Free
          /\ table[Hold(h)'] = Free \/ \E i \in A : Hold(i) = Hold(h)'
    BY <1>3
  <2>3. \A n \in Numbers : n > 2 /\ table'[n] # table[n] => table[n] = Free \/ \E i \in A : Hold(i) = n
    BY <1>4
  <2>. QED BY <1>2, <1>5, <2>1, <2>2, <2>3 DEF Changes
<1>7. Keeps(A)
  <2> SUFFICES ASSUME NEW n \in Numbers, n > 2, table'[n] # Free, table[n] = Free \/ \E i \in A : Hold(i) = n
               PROVE  \E h \in A : Hold(h)' = n
    BY DEF Keeps
  <2>1. table[n] = Free \/ \E k \in Members : silencer[s][k] = n
    BY <1>3
  <2>2. PICK k \in Members : silencer'[s][k] = n
    BY <2>1
  <2>. QED BY <1>4, <2>2
<1>8. Typed /\ Sole /\ Open
  BY HoldType DEF IInv
<1>9. Sole' /\ Open' /\ \A h \in Slot \ A : Hold(h) # None => table'[Hold(h)] = table[Hold(h)]
  BY <1>6, <1>8, ChangesSound
<1>10. Remembered'
  <2> SUFFICES ASSUME NEW h \in Slot, h[1] # "member", Hold(h)' # None
               PROVE  table'[Hold(h)'] \in Files /\ Names(h, table[Hold(h)])'
    BY DEF Remembered, Slot, Members, Silencers, Numbers
  <2>1. h \notin A
    BY <1>3
  <2>2. Hold(h)' = Hold(h) /\ table'[Hold(h)] = table[Hold(h)]
    BY <1>2, <1>9, <2>1
  <2>3. table[Hold(h)] \in Files /\ Names(h, table[Hold(h)])
    BY <2>2 DEF IInv, Remembered
  <2>. QED BY <2>2, <2>3 DEF Names, objects
<1>. QED BY <1>6, <1>7, <1>8, <1>9, <1>10, NothingLost DEF IInv

\* A silencer at work has saved a buffer, and only then it holds numbers.
LEMMA SilencingIs ==
  ASSUME IInv, NEW s \in Silencers
  PROVE  /\ Silencing(s) <=> Active(s)
         /\ Covers(s) => Active(s)
         /\ ~Active(s) => silencer[s] = Idle /\ \A m \in Members : silencer[s][m] = None
BY DEF IInv, Stack, Silencing, Active, Covers, Idle, Members

\* The numbers a silencer takes, and the table it leaves.
Takes(s, stream, null, out, err) ==
  /\ silencer' = [silencer EXCEPT ![s] =
       [saved |-> cout, stream |-> stream, null |-> null, out |-> out, err |-> err]]
  /\ \A n \in {stream, null, out, err} : n # None => n > 2 /\ table[n] = Free
  /\ stream # None => stream \notin {null, out, err}
  /\ null # None => null \notin {out, err}
  /\ out # None => out # err
  /\ null = None => out = None /\ err = None
  /\ table' \in [Numbers -> Files \cup {Free, Terminal, Null}]
  /\ \A n \in Numbers : table'[n] =
       IF n <= 2 THEN IF null = None THEN table[n] ELSE Null
       ELSE IF n = err THEN table[2] ELSE IF n = out THEN table[1]
       ELSE IF n = null \/ n = stream THEN Null ELSE table[n]
  /\ cut' = (cut \/ (null # None /\ None \in {out, err}))

\* silence() is such a step.
LEMMA SilenceIs ==
  ASSUME IInv, NEW s \in Silencers, Silence(s)
  PROVE  \E stream, null, out, err \in Numbers \cup {None} : Takes(s, stream, null, out, err)
<1> DEFINE stream == Lowest(table)
           t1     == Put(table, stream, Null)
           null   == Lowest(t1)
           t2     == Put(t1, null, Null)
           out    == IF null = None THEN None ELSE Lowest(t2)
           t3     == Put(t2, out, t2[1])
           err    == IF null = None THEN None ELSE Lowest(t3)
           t4     == Put(t3, err, t3[2])
<1>1. /\ silencer' = [silencer EXCEPT ![s] =
           [saved |-> cout, stream |-> stream, null |-> null, out |-> out, err |-> err]]
      /\ table' = Dup2(Dup2(t4, null, 1), null, 2)
      /\ cut' = (cut \/ (null # None /\ None \in {out, err}))
  BY DEF Silence
<1>2. DOMAIN table = Numbers /\ table[1] # Free /\ table[2] # Free /\ Free # Null
  BY DescriptorsAssumption DEF IInv, TypeOK, Open
<1>3. stream \in Numbers \cup {None} /\ (stream # None => table[stream] = Free)
  BY LowestIsFree
<1> HIDE DEF stream
<1>4. DOMAIN t1 = Numbers /\ \A n \in Numbers : t1[n] = IF n = stream THEN Null ELSE table[n]
  BY <1>2, <1>3, PutIs
<1> HIDE DEF t1
<1>5. null \in Numbers \cup {None} /\ (null # None => t1[null] = Free)
  BY LowestIsFree
<1> HIDE DEF null
<1>6. DOMAIN t2 = Numbers /\ \A n \in Numbers : t2[n] = IF n = null THEN Null ELSE t1[n]
  BY <1>4, <1>5, PutIs
<1> HIDE DEF t2
<1>7. out \in Numbers \cup {None} /\ (out # None => null # None /\ t2[out] = Free)
  BY LowestIsFree
<1>8. null = None => out = None /\ err = None
  OBVIOUS
<1> HIDE DEF out
<1>9. DOMAIN t3 = Numbers /\ \A n \in Numbers : t3[n] = IF n = out THEN t2[1] ELSE t2[n]
  BY <1>6, <1>7, PutIs
<1> HIDE DEF t3
<1>10. err \in Numbers \cup {None} /\ (err # None => null # None /\ t3[err] = Free)
  BY LowestIsFree
<1> HIDE DEF err
<1>11. DOMAIN t4 = Numbers /\ \A n \in Numbers : t4[n] = IF n = err THEN t3[2] ELSE t3[n]
  <2>1. err \in Numbers \cup {None}
    BY <1>10
  <2>. QED BY <1>9, <2>1, PutIs
<1> HIDE DEF t4
<1>12. t2[1] = table[1] /\ t2[2] = table[2]
  BY <1>2, <1>3, <1>4, <1>5, <1>6, Constants
<1>13. t3[2] = table[2] /\ t3[1] = table[1]
  BY <1>2, <1>7, <1>9, <1>12, Constants
<1>14. /\ stream # None => stream \notin {null, out, err} /\ table[stream] = Free
       /\ null # None => null \notin {out, err} /\ table[null] = Free
       /\ out # None => out # err /\ table[out] = Free
       /\ err # None => table[err] = Free
  <2>1. null # None => null # stream /\ table[null] = Free
    BY <1>2, <1>4, <1>5
  <2>2. out # None => out # stream /\ out # null /\ table[out] = Free
    BY <1>2, <1>4, <1>6, <1>7
  <2>3. err # None => err # stream /\ err # null /\ err # out /\ table[err] = Free
    BY <1>2, <1>4, <1>6, <1>9, <1>10, <1>12
  <2>. QED BY <1>3, <2>1, <2>2, <2>3
<1>15. \A n \in {stream, null, out, err} : n # None => n > 2 /\ table[n] = Free
  <2>1. ASSUME NEW n \in {stream, null, out, err}, n # None PROVE n > 2 /\ table[n] = Free
    <3>1. n \in Numbers /\ table[n] = Free
      BY <1>3, <1>5, <1>7, <1>10, <1>14, <2>1
    <3>2. n # 1 /\ n # 2
      BY <1>2, <3>1
    <3>. QED BY <3>1, <3>2, Constants
  <2>. QED BY <2>1
<1>16. \A n \in Numbers : t4[n] =
         IF n = err THEN table[2] ELSE IF n = out THEN table[1]
         ELSE IF n = null \/ n = stream THEN Null ELSE table[n]
  BY <1>4, <1>6, <1>9, <1>11, <1>12, <1>13
<1>17. null # None => t4[null] = Null
  BY <1>5, <1>14, <1>16
<1>18. \A n \in Numbers : n <= 2 => t4[n] = table[n]
  BY <1>15, <1>16, Constants
<1>19. DOMAIN table' = Numbers /\ \A n \in Numbers : table'[n] = IF n <= 2 /\ null # None THEN Null ELSE t4[n]
  <2>1. CASE null = None
    BY <1>1, <1>11, <2>1 DEF Dup2
  <2>2. CASE null # None
    <3> DEFINE u == [t4 EXCEPT ![1] = t4[null]]
    <3>1. table' = [u EXCEPT ![2] = u[null]]
      BY <1>1, <2>2 DEF Dup2
    <3>2. null \in Numbers /\ null > 2
      BY <1>5, <1>15, <2>2
    <3>3. DOMAIN u = Numbers /\ \A n \in Numbers : u[n] = IF n = 1 THEN Null ELSE t4[n]
      BY <1>11, <1>17, <2>2
    <3>4. u[null] = Null
      BY <1>17, <2>2, <3>2, <3>3
    <3> HIDE DEF u
    <3>5. DOMAIN table' = Numbers /\ \A n \in Numbers : table'[n] = IF n = 2 THEN Null ELSE u[n]
      BY <3>1, <3>3, <3>4
    <3>. QED BY <2>2, <3>3, <3>5, Constants
  <2>. QED BY <2>1, <2>2
<1>22. table' \in [Numbers -> Files \cup {Free, Terminal, Null}]
  <2>1. t4 \in [Numbers -> Files \cup {Free, Terminal, Null}]
    <3>1. table \in [Numbers -> Files \cup {Free, Terminal, Null}]
      BY DEF IInv, TypeOK
    <3>2. t1 \in [Numbers -> Files \cup {Free, Terminal, Null}]
      BY <1>3, <3>1, PutType DEF t1
    <3>3. t2 \in [Numbers -> Files \cup {Free, Terminal, Null}]
      BY <1>5, <3>2, PutType DEF t2
    <3>4. t3 \in [Numbers -> Files \cup {Free, Terminal, Null}]
      <4>1. t2[1] \in Files \cup {Free, Terminal, Null}
        BY <3>3, Constants
      <4>2. out \in Numbers \cup {None}
        BY <1>7
      <4>. QED BY <3>3, <4>1, <4>2, PutType DEF t3
    <3>. HIDE DEF t3
    <3>5. t3[2] \in Files \cup {Free, Terminal, Null}
      BY <3>4, Constants
    <3>6. err \in Numbers \cup {None}
      BY <1>10
    <3>. QED BY <3>4, <3>5, <3>6, PutType DEF t4
  <2>. QED BY <1>1, <1>5, <2>1, Constants DEF Dup2
<1>20. \A n \in Numbers : table'[n] =
         IF n <= 2 THEN IF null = None THEN table[n] ELSE Null
         ELSE IF n = err THEN table[2] ELSE IF n = out THEN table[1]
         ELSE IF n = null \/ n = stream THEN Null ELSE table[n]
  BY <1>16, <1>18, <1>19
<1>21. stream \in Numbers \cup {None} /\ null \in Numbers \cup {None} /\ out \in Numbers \cup {None} /\ err \in Numbers \cup {None}
  BY <1>3, <1>5, <1>7, <1>10
<1>23. Takes(s, stream, null, out, err)
  BY <1>1, <1>8, <1>14, <1>15, <1>20, <1>22 DEF Takes
<1>. QED BY <1>21, <1>23

\* Silence is of the innermost level: it and those above it hold nothing.
LEMMA LevelIs ==
  ASSUME IInv, NEW s \in Silencers, Innermost(s)
  PROVE  /\ s \in Nat /\ s > 0 /\ s <= Depth /\ Depth + 1 > s
         /\ \A i \in Silencers : i > s => ~Active(i) /\ ~Covers(i)
         /\ ~Active(s) => cout < s /\ NextActive(cout, s)
         /\ Active(s) => cout = s
<1>1. s \in Nat /\ s > 0 /\ s <= Depth /\ Depth \in Nat /\ Depth + 1 > s /\ Silencers \subseteq Nat
  BY DescriptorsAssumption DEF Silencers
<1>2. \A i \in Silencers : i > s => ~Active(i) /\ ~Covers(i)
  BY SilencingIs DEF Innermost
<1>3. cout \in Nat /\ cout < Depth + 1 /\ (cout # 0 => cout \in Silencers /\ Active(cout))
      /\ \A i \in Silencers : cout < i => ~Active(i)
  <2>1. cout \in 0..Depth /\ NextActive(cout, Depth + 1) /\ \A i \in Silencers : i < Depth + 1
    BY <1>1 DEF IInv, TypeOK, Stack, Silencers
  <2>. QED BY <1>1, <2>1 DEF NextActive, Silencers
<1>4. cout <= s
  <2>. SUFFICES ASSUME cout > s PROVE FALSE
    BY <1>1, <1>3
  <2>1. cout # 0 /\ cout \in Silencers /\ Active(cout)
    BY <1>1, <1>3
  <2>. QED BY <1>2, <2>1
<1>5. ~Active(s) => cout # s /\ NextActive(cout, s)
  <2>. SUFFICES ASSUME ~Active(s) PROVE cout # s /\ NextActive(cout, s)
    OBVIOUS
  <2>1. cout # s
    BY <1>1, <1>3
  <2>. QED BY <1>1, <1>3, <1>4, <2>1 DEF NextActive
<1>6. Active(s) => cout = s
  <2>. SUFFICES ASSUME Active(s) PROVE cout = s
    OBVIOUS
  <2>1. ~(cout < s)
    BY <1>3
  <2>. QED BY <1>1, <1>3, <1>4, <2>1
<1>7. cout < s <=> cout # s
  BY <1>1, <1>3, <1>4
<1>. QED BY <1>1, <1>2, <1>5, <1>6, <1>7

\* silence(): the copies it keeps are of what was there before it.
LEMMA Silences ==
  ASSUME IInv, NEW s \in Silencers, Silence(s)
  PROVE  IInv' /\ Lost' \subseteq Lost
<1>0. PICK stream, null, out, err \in Numbers \cup {None} : Takes(s, stream, null, out, err)
  BY SilenceIs
<1>1. /\ silencer' = [silencer EXCEPT ![s] =
           [saved |-> cout, stream |-> stream, null |-> null, out |-> out, err |-> err]]
      /\ \A n \in {stream, null, out, err} : n # None => n > 2 /\ table[n] = Free
      /\ stream # None => stream \notin {null, out, err}
      /\ null # None => null \notin {out, err}
      /\ out # None => out # err
      /\ null = None => out = None /\ err = None
      /\ table' \in [Numbers -> Files \cup {Free, Terminal, Null}]
      /\ \A n \in Numbers : table'[n] =
           IF n <= 2 THEN IF null = None THEN table[n] ELSE Null
           ELSE IF n = err THEN table[2] ELSE IF n = out THEN table[1]
           ELSE IF n = null \/ n = stream THEN Null ELSE table[n]
      /\ cut' = (cut \/ (null # None /\ None \in {out, err}))
  BY <1>0 DEF Takes
<1> PICK r : r = [saved |-> cout, stream |-> stream, null |-> null, out |-> out, err |-> err]
  OBVIOUS
<1>2. /\ r.saved = cout /\ r.stream = stream /\ r.null = null /\ r.out = out /\ r.err = err
      /\ r["stream"] = stream /\ r["null"] = null /\ r["out"] = out /\ r["err"] = err
      /\ DOMAIN r = DOMAIN Idle
      /\ cout \in 0..Depth => r \in [saved : 0..Depth \cup {None}, stream : Numbers \cup {None},
              null : Numbers \cup {None}, out : Numbers \cup {None}, err : Numbers \cup {None}]
  BY DEF Idle
<1>3. cout' = s /\ UNCHANGED objects /\ Innermost(s) /\ ~Active(s) /\ \A m \in Members : silencer[s][m] = None
  BY SilencingIs DEF Silence, MaySilence
<1>4. silencer' \in [Silencers -> [saved : 0..Depth \cup {None}, stream : Numbers \cup {None},
              null : Numbers \cup {None}, out : Numbers \cup {None}, err : Numbers \cup {None}]]
      /\ silencer'[s] = r /\ \A i \in Silencers : i # s => silencer'[i] = silencer[i]
  BY <1>1, <1>2 DEF IInv, TypeOK, SilencerType
<1>5. /\ s \in Nat /\ s > 0 /\ s <= Depth /\ Depth + 1 > s
      /\ \A i \in Silencers : i > s => ~Active(i) /\ ~Covers(i)
      /\ cout < s /\ NextActive(cout, s)
  BY <1>3, LevelIs
<1>6. cut \in BOOLEAN /\ table \in [Numbers -> Files \cup {Free, Terminal, Null}]
      /\ table[1] # Free /\ table[2] # Free /\ Free # Null /\ 1 \in Numbers /\ 2 \in Numbers
  BY Constants, DescriptorsAssumption DEF IInv, TypeOK, Open
<1>7. TypeOK'
  <2>2. \A i \in Silencers : DOMAIN silencer'[i] = DOMAIN Idle
    BY <1>2, <1>4 DEF IInv, TypeOK
  <2>3. cout' \in 0..Depth /\ cut' \in BOOLEAN
    BY <1>1, <1>3, <1>5, <1>6, DescriptorsAssumption
  <2>. QED BY <1>1, <1>3, <2>2, <2>3 DEF IInv, TypeOK, objects, Silencers, Numbers
<1>8. SilencerType'
  BY <1>4 DEF SilencerType, Silencers, Numbers
<1>9. /\ \A i \in Silencers : i # s => (Active(i)' <=> Active(i)) /\ (Covers(i)' <=> Covers(i))
      /\ Active(s)' /\ (Covers(s)' <=> null # None)
  <2>1. \A i \in Silencers : i # s => (Active(i)' <=> Active(i)) /\ (Covers(i)' <=> Covers(i))
    BY <1>4 DEF Active, Covers
  <2>2. r.saved # None
    BY <1>2, DescriptorsAssumption DEF IInv, TypeOK, None
  <2>. QED BY <1>2, <1>4, <2>1, <2>2 DEF Active, Covers
<1>10. Stack'
  <2>1. NextActive(cout, Depth + 1)'
    <3>1. \A i \in Silencers : s < i => ~Active(i)'
      BY <1>5, <1>9, DescriptorsAssumption DEF Silencers
    <3>. QED BY <1>3, <1>5, <1>9, <3>1 DEF NextActive, Silencers
  <2>2. ASSUME NEW i \in Silencers, Active(i)' PROVE NextActive(silencer[i].saved, i)'
    <3>1. CASE i = s
      <4> PICK c : c = cout
        OBVIOUS
      <4>1. silencer'[i].saved = c /\ c \in 0..Depth
        BY <1>2, <1>4, <3>1 DEF IInv, TypeOK
      <4>2. c < s /\ (c # 0 => Active(c) /\ c \in Silencers /\ c # s)
            /\ \A k \in Silencers : c < k /\ k < s => ~Active(k) /\ k # s
        BY <1>5, <4>1, DescriptorsAssumption DEF NextActive, Silencers
      <4>3. (c # 0 => Active(c)') /\ \A k \in Silencers : c < k /\ k < s => ~Active(k)'
        BY <1>9, <4>2
      <4>. QED BY <3>1, <4>1, <4>2, <4>3 DEF NextActive, Silencers
    <3>2. CASE i # s
      <4>1. Active(i) /\ silencer'[i] = silencer[i] /\ i < s
        BY <1>4, <1>5, <1>9, <2>2, <3>2 DEF Silencers
      <4> PICK k : k = silencer[i].saved
        OBVIOUS
      <4>2. NextActive(k, i) /\ k \in 0..Depth
        BY <4>1 DEF IInv, Stack, SilencerType, Active
      <4>3. k < i /\ (k # 0 => Active(k)') /\ \A j \in Silencers : k < j /\ j < i => ~Active(j)'
        BY <1>5, <1>9, <4>1, <4>2 DEF NextActive, Silencers
      <4>. QED BY <4>1, <4>3 DEF NextActive, Silencers
    <3>. QED BY <3>1, <3>2
  <2>3. ASSUME NEW i \in Silencers, ~Active(i)' PROVE silencer'[i] = Idle
    BY <1>4, <1>9, <2>3 DEF IInv, Stack
  <2>. QED BY <2>1, <2>2, <2>3 DEF Stack, Silencers
<1>11. \A i \in Silencers : i <= s => (Covered(i)' <=> Covered(i))
  BY <1>5, <1>9 DEF Covered, Silencers
<1>12. (Covered(Depth + 1) <=> Covered(s)) /\ (Covered(Depth + 1)' <=> Covered(s) \/ null # None)
  <2>1. \A i \in Silencers : i < Depth + 1
    BY DescriptorsAssumption DEF Silencers
  <2>2. ~Covers(s) /\ \A i \in Silencers : i < s \/ i = s \/ i > s
    BY <1>3, <1>5, SilencingIs DEF Silencers
  <2>3. Covered(Depth + 1) <=> Covered(s)
    BY <1>5, <2>1, <2>2 DEF Covered
  <2>4. \A i \in Silencers : i > s => ~Covers(i)'
    BY <1>5, <1>9
  <2>5. Covered(Depth + 1)' <=> (\E i \in Silencers : Covers(i)')
    BY <2>1 DEF Covered, Silencers
  <2>. QED BY <1>5, <1>9, <2>2, <2>3, <2>4, <2>5 DEF Covered
<1>13. Copies'
  <2>1. ASSUME NEW i \in Silencers, NEW m \in {"out", "err"}, i # s
        PROVE  /\ silencer'[i][m] # None => Covers(i)' /\ IsBack(table[silencer[i][m]], i)'
               /\ Covers(i)' /\ silencer'[i][m] = None => cut'
    <3> PICK n : n = silencer[i][m]
      OBVIOUS
    <3>1. silencer'[i][m] = n /\ (Covers(i)' <=> Covers(i))
      BY <1>4, <1>9, <2>1
    <3>2. /\ n # None => Covers(i) /\ IsBack(table[n], i)
          /\ Covers(i) /\ n = None => cut
      BY DEF IInv, Copies
    <3>3. ASSUME n # None PROVE IsBack(table[silencer[i][m]], i)'
      <4>1. Active(i) /\ i <= s /\ (Covered(i)' <=> Covered(i))
        BY <1>5, <1>11, <3>2, <3>3, SilencingIs DEF Silencers
      <4>2. n \in Numbers /\ n > 2 /\ table[n] # Free
        <5> DEFINE h == <<"member", <<i, m>>>>
        <5>1. h \in Slot /\ Hold(h) = n
          BY HoldIs DEF Members
        <5> HIDE DEF h
        <5>. QED BY <3>3, <5>1, HoldType DEF IInv, Open, Typed
      <4>3. ~(n <= 2) /\ n # None
        BY <3>3, <4>2, Constants
      <4>4. table'[n] = table[n]
        BY <1>1, <4>2, <4>3
      <4>5. cut => cut'
        BY <1>1
      <4>. QED BY <3>1, <3>2, <3>3, <4>1, <4>4, <4>5 DEF IsBack
    <3>. QED BY <1>1, <3>1, <3>2, <3>3
  <2>2. ASSUME NEW x \in {table[1], table[2]} PROVE IsBack(x, s)'
    <3>1. IsBack(x, s)
      BY <1>12 DEF IInv, Copies, IsBack
    <3>2. Covered(s)' <=> Covered(s)
      BY <1>5, <1>11
    <3>3. cut => cut'
      BY <1>1
    <3>. QED BY <3>1, <3>2, <3>3 DEF IsBack
  <2>3. ASSUME NEW m \in {"out", "err"}
        PROVE  /\ silencer'[s][m] # None => Covers(s)' /\ IsBack(table[silencer[s][m]], s)'
               /\ Covers(s)' /\ silencer'[s][m] = None => cut'
    <3>1. silencer'[s][m] \in {out, err} /\ (Covers(s)' <=> null # None)
      BY <1>2, <1>4, <1>9
    <3>2. ASSUME silencer'[s][m] # None PROVE table'[silencer'[s][m]] \in {table[1], table[2]}
      <4> PICK n \in {out, err} : n = silencer'[s][m]
        BY <3>1
      <4>1. n # None /\ n > 2 /\ n \in Numbers
        BY <1>1, <3>2
      <4>2. ~(n <= 2)
        BY <4>1, Constants
      <4>3. table'[n] \in {table[1], table[2]}
        BY <1>1, <4>1, <4>2
      <4>. QED BY <4>3
    <3>3. silencer'[s][m] # None => IsBack(table[silencer[s][m]], s)'
      <4> PICK y : y = table'[silencer'[s][m]]
        OBVIOUS
      <4>1. silencer'[s][m] # None => IsBack(y, s)'
        BY <2>2, <3>2
      <4>. QED BY <4>1 DEF IsBack
    <3>. QED BY <1>1, <3>1, <3>3
  <2>4. ASSUME NEW n \in {1, 2} PROVE IsBack(table[n], Depth + 1)'
    <3>1. CASE null = None
      <4>1. table'[n] = table[n]
        BY <1>1, <1>6, <3>1
      <4>2. IsBack(table[n], s)'
        BY <2>2, <4>1 DEF IsBack
      <4>. QED BY <1>5, <1>11, <1>12, <3>1, <4>2 DEF IsBack
    <3>2. CASE null # None
      <4>1. table'[n] = Null
        BY <1>1, <1>6, <3>2
      <4>. QED BY <1>12, <3>2, <4>1 DEF IsBack
    <3>. QED BY <3>1, <3>2
  <2>. QED BY <2>1, <2>3, <2>4 DEF Copies, Silencers
<1>14. \A m \in Members : \/ m = "stream" /\ silencer'[s][m] = stream
                          \/ m = "null" /\ silencer'[s][m] = null
                          \/ m = "out" /\ silencer'[s][m] = out
                          \/ m = "err" /\ silencer'[s][m] = err
  <2>1. /\ silencer'[s]["stream"] = stream /\ silencer'[s]["null"] = null
        /\ silencer'[s]["out"] = out /\ silencer'[s]["err"] = err
    BY <1>2, <1>4
  <2>. SUFFICES ASSUME NEW m \in Members
                PROVE  \/ m = "stream" /\ silencer'[s][m] = stream
                       \/ m = "null" /\ silencer'[s][m] = null
                       \/ m = "out" /\ silencer'[s][m] = out
                       \/ m = "err" /\ silencer'[s][m] = err
    OBVIOUS
  <2>2. CASE m = "stream"
    BY <2>1, <2>2
  <2>3. CASE m = "null"
    BY <2>1, <2>3
  <2>4. CASE m = "out"
    BY <2>1, <2>4
  <2>5. CASE m = "err"
    BY <2>1, <2>5
  <2>. QED BY <2>2, <2>3, <2>4, <2>5 DEF Members
<1>15. \A m, k \in Members : silencer'[s][m] # None /\ silencer'[s][m] = silencer'[s][k] => m = k
  BY <1>1, <1>14
<1>16. \A m \in Members : silencer'[s][m] # None =>
         silencer'[s][m] \in Numbers /\ table'[silencer'[s][m]] # Free /\ table[silencer'[s][m]] = Free
  <2>1. ASSUME NEW n \in {stream, null, out, err}, n # None
        PROVE  n \in Numbers /\ table'[n] # Free /\ table[n] = Free
    <3>1. n \in Numbers /\ ~(n <= 2)
      BY <1>1, <2>1, Constants
    <3>. QED BY <1>1, <1>6, <2>1, <3>1
  <2>. QED BY <1>14, <2>1
<1>17. ASSUME NEW n \in Numbers, n > 2, table'[n] # table[n] PROVE n \in {stream, null, out, err} /\ table[n] = Free
  <2>1. ~(n <= 2) /\ n # None
    BY <1>17, Constants
  <2>2. n \in {stream, null, out, err}
    BY <1>1, <1>17, <2>1
  <2>. QED BY <1>1, <2>1, <2>2
<1>18. \A n \in {stream, null, out, err} : \E k \in Members : silencer'[s][k] = n
  BY <1>2, <1>4 DEF Members
<1>19. \A n \in Numbers : \A k \in Members : silencer[s][k] # n
  BY <1>3, Constants
<1>20. table'[1] # Free /\ table'[2] # Free
  BY <1>1, <1>6
<1>21. \A n \in Numbers : n > 2 /\ table'[n] # Free /\ (table[n] = Free \/ \E k \in Members : silencer[s][k] = n) =>
         \E k \in Members : silencer'[s][k] = n
  BY <1>17, <1>18, <1>19
<1>22. \A n \in Numbers : n > 2 /\ table'[n] # table[n] => table[n] = Free \/ \E k \in Members : silencer[s][k] = n
  BY <1>17
<1>. QED BY <1>3, <1>4, <1>7, <1>8, <1>10, <1>13, <1>15, <1>16, <1>20, <1>21, <1>22, MemberStep

\* What stop() leaves: the copies are where they came from, and the silencer's numbers are closed.
LEMMA StopIs ==
  ASSUME IInv, NEW s \in Silencers, Stop(s)
  PROVE  LET me == silencer[s] IN
         /\ table' \in [Numbers -> Files \cup {Free, Terminal, Null}]
         /\ \A n \in Numbers : table'[n] =
              IF n = 1 THEN IF me.out # None THEN table[me.out] ELSE table[1]
              ELSE IF n = 2 THEN IF me.err # None THEN table[me.err] ELSE table[2]
              ELSE IF n \in {me.stream, me.null, me.out, me.err} THEN Free ELSE table[n]
<1> PICK stream, null, out, err :
      stream = silencer[s].stream /\ null = silencer[s].null /\ out = silencer[s].out /\ err = silencer[s].err
  OBVIOUS
<1>1. \A m \in Members : silencer[s][m] # None =>
        silencer[s][m] \in Numbers /\ silencer[s][m] > 2 /\ \A k \in Members : silencer[s][m] = silencer[s][k] => m = k
  <2>1. ASSUME NEW m \in Members, NEW k \in Members, silencer[s][m] # None
        PROVE  silencer[s][m] \in Numbers /\ silencer[s][m] > 2 /\ (silencer[s][m] = silencer[s][k] => m = k)
    <3> DEFINE h == <<"member", <<s, m>>>>
               i == <<"member", <<s, k>>>>
    <3>1. h \in Slot /\ i \in Slot /\ Hold(h) = silencer[s][m] /\ Hold(i) = silencer[s][k] /\ (h = i => m = k)
      BY HoldIs
    <3> HIDE DEF h, i
    <3>2. Hold(h) \in Numbers /\ Hold(h) > 2 /\ (Hold(h) = Hold(i) => h = i)
      BY <2>1, <3>1, HoldType DEF IInv, Typed, Sole, Open
    <3>. QED BY <3>1, <3>2
  <2>. QED BY <2>1
<1>2. /\ silencer[s]["stream"] = stream /\ silencer[s]["null"] = null
      /\ silencer[s]["out"] = out /\ silencer[s]["err"] = err
  OBVIOUS
<1>3. /\ \A n \in {stream, null, out, err} : n \in Numbers \cup {None} /\ (n # None => n \in Numbers /\ n # 1 /\ n # 2)
      /\ stream # None => stream # out /\ stream # err
      /\ out # None => out # err
  <2>1. \A m \in {"stream", "null", "out", "err"} : silencer[s][m] # None =>
          silencer[s][m] \in Numbers /\ silencer[s][m] # 1 /\ silencer[s][m] # 2
    BY <1>1, Constants DEF Members
  <2>2. \A m, k \in {"stream", "null", "out", "err"} : silencer[s][m] # None /\ m # k => silencer[s][m] # silencer[s][k]
    BY <1>1 DEF Members
  <2>. QED BY <1>2, <2>1, <2>2
<1>4. table' = Close(Close(Close(Dup2(Dup2(Close(table, stream), out, 1), err, 2), out), err), null)
  BY DEF Stop, Restored
<1>5. table \in [Numbers -> Files \cup {Free, Terminal, Null}] /\ 1 \in Numbers /\ 2 \in Numbers
  BY Constants DEF IInv, TypeOK
<1>5a. stream \in Numbers \cup {None} /\ null \in Numbers \cup {None} /\ out \in Numbers \cup {None} /\ err \in Numbers \cup {None}
  BY <1>3
<1> DEFINE t1 == Put(table, stream, Free)
           t2 == Dup2(t1, out, 1)
           t3 == Dup2(t2, err, 2)
           t4 == Put(t3, out, Free)
           t5 == Put(t4, err, Free)
<1>6. table' = Put(t5, null, Free)
  BY <1>4 DEF Close
<1>7. /\ t1 \in [Numbers -> Files \cup {Free, Terminal, Null}]
      /\ \A n \in Numbers : t1[n] = IF n = stream THEN Free ELSE table[n]
  <2>1. t1 \in [Numbers -> Files \cup {Free, Terminal, Null}]
    BY <1>5, <1>5a, PutType
  <2>2. \A n \in Numbers : t1[n] = IF n = stream THEN Free ELSE table[n]
    <3>1. DOMAIN table = Numbers
      BY <1>5
    <3>. QED BY <1>5, <1>5a, <3>1, Constants DEF Put
  <2>. QED BY <2>1, <2>2
<1> HIDE DEF t1
<1>8. /\ t2 \in [Numbers -> Files \cup {Free, Terminal, Null}]
      /\ \A n \in Numbers : t2[n] = IF n = 1 /\ out # None THEN t1[out] ELSE t1[n]
  BY <1>3, <1>5, <1>7 DEF Dup2
<1> HIDE DEF t2
<1>9. /\ t3 \in [Numbers -> Files \cup {Free, Terminal, Null}]
      /\ \A n \in Numbers : t3[n] = IF n = 2 /\ err # None THEN t2[err] ELSE t2[n]
  BY <1>3, <1>5, <1>8 DEF Dup2
<1> HIDE DEF t3
<1>10. /\ t4 \in [Numbers -> Files \cup {Free, Terminal, Null}]
       /\ \A n \in Numbers : t4[n] = IF n = out THEN Free ELSE t3[n]
  <2>1. t4 \in [Numbers -> Files \cup {Free, Terminal, Null}]
    BY <1>5a, <1>9, PutType
  <2>2. \A n \in Numbers : t4[n] = IF n = out THEN Free ELSE t3[n]
    <3>1. DOMAIN t3 = Numbers
      BY <1>9
    <3>. QED BY <1>5, <1>5a, <3>1, Constants DEF Put
  <2>. QED BY <2>1, <2>2
<1> HIDE DEF t4
<1>11. /\ t5 \in [Numbers -> Files \cup {Free, Terminal, Null}]
       /\ \A n \in Numbers : t5[n] = IF n = err THEN Free ELSE t4[n]
  <2>1. t5 \in [Numbers -> Files \cup {Free, Terminal, Null}]
    BY <1>5a, <1>10, PutType
  <2>2. \A n \in Numbers : t5[n] = IF n = err THEN Free ELSE t4[n]
    <3>1. DOMAIN t4 = Numbers
      BY <1>10
    <3>. QED BY <1>5, <1>5a, <3>1, Constants DEF Put
  <2>. QED BY <2>1, <2>2
<1> HIDE DEF t5
<1>12. /\ table' \in [Numbers -> Files \cup {Free, Terminal, Null}]
       /\ \A n \in Numbers : table'[n] = IF n = null THEN Free ELSE t5[n]
  <2>1. table' \in [Numbers -> Files \cup {Free, Terminal, Null}]
    BY <1>5a, <1>6, <1>11, PutType
  <2>2. \A n \in Numbers : table'[n] = IF n = null THEN Free ELSE t5[n]
    BY <1>5a, <1>6, <1>11, PutIs
  <2>. QED BY <2>1, <2>2
<1>13. out # None => t1[out] = table[out]
  BY <1>3, <1>7
<1>14. err # None => t2[err] = table[err]
  BY <1>3, <1>7, <1>8
<1>15. \A n \in Numbers : t3[n] =
         IF n = 1 THEN IF out # None THEN table[out] ELSE table[1]
         ELSE IF n = 2 THEN IF err # None THEN table[err] ELSE table[2]
         ELSE IF n = stream THEN Free ELSE table[n]
  BY <1>3, <1>5, <1>7, <1>8, <1>9, <1>13, <1>14, Constants
<1>16. \A n \in Numbers : table'[n] =
         IF n \in {out, err, null} THEN Free ELSE t3[n]
  BY <1>10, <1>11, <1>12
<1>17. 1 \notin {stream, out, err, null} /\ 2 \notin {stream, out, err, null}
  BY <1>3, <1>5, Constants
<1>18. \A n \in Numbers : table'[n] =
         IF n = 1 THEN IF out # None THEN table[out] ELSE table[1]
         ELSE IF n = 2 THEN IF err # None THEN table[err] ELSE table[2]
         ELSE IF n \in {stream, null, out, err} THEN Free ELSE table[n]
  BY <1>15, <1>16, <1>17
<1>. QED BY <1>12, <1>18

\* stop(): what is put back is what was there before this silencer.
LEMMA Stops ==
  ASSUME IInv, NEW s \in Silencers, Stop(s)
  PROVE  IInv' /\ Lost' \subseteq Lost
<1> PICK stream, null, out, err, saved :
      /\ stream = silencer[s].stream /\ null = silencer[s].null /\ out = silencer[s].out /\ err = silencer[s].err
      /\ saved = silencer[s].saved
  OBVIOUS
<1>1. /\ table' \in [Numbers -> Files \cup {Free, Terminal, Null}]
      /\ \A n \in Numbers : table'[n] =
           IF n = 1 THEN IF out # None THEN table[out] ELSE table[1]
           ELSE IF n = 2 THEN IF err # None THEN table[err] ELSE table[2]
           ELSE IF n \in {stream, null, out, err} THEN Free ELSE table[n]
  BY StopIs
<1>2. /\ cout' = saved /\ cut' = cut /\ UNCHANGED objects /\ Active(s) /\ Innermost(s)
      /\ silencer' = [silencer EXCEPT ![s] = Idle]
  BY SilencingIs DEF Stop
<1>3. /\ silencer' \in [Silencers -> [saved : 0..Depth \cup {None}, stream : Numbers \cup {None},
              null : Numbers \cup {None}, out : Numbers \cup {None}, err : Numbers \cup {None}]]
      /\ silencer'[s] = Idle /\ \A i \in Silencers : i # s => silencer'[i] = silencer[i]
  BY <1>2 DEF IInv, SilencerType, Idle
<1>4. /\ s \in Nat /\ s > 0 /\ s <= Depth /\ Depth + 1 > s
      /\ \A i \in Silencers : i > s => ~Active(i) /\ ~Covers(i)
  BY <1>2, LevelIs
<1>5. saved \in 0..Depth /\ NextActive(saved, s)
  BY <1>2 DEF IInv, Stack, SilencerType, Active
<1>6. /\ \A i \in Silencers : i # s => (Active(i)' <=> Active(i)) /\ (Covers(i)' <=> Covers(i))
      /\ ~Active(s)' /\ ~Covers(s)'
  BY <1>3 DEF Active, Covers, Idle
<1>7. TypeOK'
  <2>1. \A i \in Silencers : DOMAIN silencer'[i] = DOMAIN Idle
    BY <1>3 DEF IInv, TypeOK
  <2>. QED BY <1>1, <1>2, <1>5, <2>1 DEF IInv, TypeOK, objects, Silencers, Numbers
<1>8. SilencerType'
  BY <1>3 DEF SilencerType, Silencers, Numbers
<1>9. Stack'
  <2>0. \A i \in Silencers : i > s => ~Active(i)'
    BY <1>4, <1>6
  <2>1. NextActive(cout, Depth + 1)'
    <3>1. /\ saved < Depth + 1 /\ (saved # 0 => saved \in Silencers /\ saved # s /\ Active(saved))
          /\ \A i \in Silencers : saved < i /\ i < s => ~Active(i)
      BY <1>4, <1>5, DescriptorsAssumption DEF NextActive, Silencers
    <3>2. (saved # 0 => Active(saved)') /\ \A i \in Silencers : saved < i => ~Active(i)'
      BY <1>4, <1>6, <2>0, <3>1 DEF Silencers
    <3>. QED BY <1>2, <3>1, <3>2 DEF NextActive, Silencers
  <2>2. ASSUME NEW i \in Silencers, Active(i)' PROVE NextActive(silencer[i].saved, i)'
    <3>1. i # s /\ Active(i) /\ silencer'[i] = silencer[i] /\ i < s
      BY <1>3, <1>4, <1>6, <2>0, <2>2 DEF Silencers
    <3> PICK k : k = silencer[i].saved
      OBVIOUS
    <3>2. NextActive(k, i) /\ k \in 0..Depth
      BY <3>1 DEF IInv, Stack, SilencerType, Active
    <3>3. k < i /\ (k # 0 => Active(k)') /\ \A j \in Silencers : k < j /\ j < i => ~Active(j)'
      BY <1>4, <1>6, <3>1, <3>2 DEF NextActive, Silencers
    <3>. QED BY <3>1, <3>3 DEF NextActive, Silencers
  <2>3. ASSUME NEW i \in Silencers, ~Active(i)' PROVE silencer'[i] = Idle
    BY <1>3, <1>6, <2>3 DEF IInv, Stack
  <2>. QED BY <2>1, <2>2, <2>3 DEF Stack, Silencers
<1>10. \A i \in Silencers : i <= s => (Covered(i)' <=> Covered(i))
  BY <1>4, <1>6 DEF Covered, Silencers
<1>11. (Covered(Depth + 1) <=> Covered(s) \/ null # None) /\ (Covered(Depth + 1)' <=> Covered(s))
  <2>1. \A i \in Silencers : i < Depth + 1
    BY DescriptorsAssumption DEF Silencers
  <2>2. (Covers(s) <=> null # None) /\ \A i \in Silencers : i < s \/ i = s \/ i > s
    BY <1>4 DEF Silencers, Covers
  <2>3. Covered(Depth + 1) <=> Covered(s) \/ null # None
    BY <1>4, <2>1, <2>2 DEF Covered
  <2>4. \A i \in Silencers : i > s => ~Covers(i)'
    BY <1>4, <1>6
  <2>5. Covered(Depth + 1)' <=> (\E i \in Silencers : Covers(i)')
    BY <2>1 DEF Covered, Silencers
  <2>. QED BY <1>4, <1>6, <2>2, <2>3, <2>4, <2>5 DEF Covered
<1>12. \A n \in {stream, null, out, err} : n # None => n \in Numbers /\ n > 2
  <2>1. ASSUME NEW m \in Members, silencer[s][m] # None PROVE silencer[s][m] \in Numbers /\ silencer[s][m] > 2
    <3> DEFINE h == <<"member", <<s, m>>>>
    <3>1. h \in Slot /\ Hold(h) = silencer[s][m]
      BY HoldIs
    <3> HIDE DEF h
    <3>. QED BY <2>1, <3>1, HoldType DEF IInv, Typed, Open
  <2>2. \A m \in {"stream", "null", "out", "err"} : silencer[s][m] # None => silencer[s][m] \in Numbers /\ silencer[s][m] > 2
    BY <2>1 DEF Members
  <2>3. /\ silencer[s]["stream"] = stream /\ silencer[s]["null"] = null
        /\ silencer[s]["out"] = out /\ silencer[s]["err"] = err
    OBVIOUS
  <2>. QED BY <2>2, <2>3
<1>13. Copies'
  <2>1. ASSUME NEW i \in Silencers, NEW m \in {"out", "err"}, i # s
        PROVE  /\ silencer'[i][m] # None => Covers(i)' /\ IsBack(table[silencer[i][m]], i)'
               /\ Covers(i)' /\ silencer'[i][m] = None => cut'
    <3> PICK n : n = silencer[i][m]
      OBVIOUS
    <3>1. silencer'[i][m] = n /\ (Covers(i)' <=> Covers(i))
      BY <1>3, <1>6, <2>1
    <3>2. /\ n # None => Covers(i) /\ IsBack(table[n], i)
          /\ Covers(i) /\ n = None => cut
      BY DEF IInv, Copies
    <3>3. ASSUME n # None PROVE IsBack(table[silencer[i][m]], i)'
      <4>1. Active(i) /\ i <= s /\ (Covered(i)' <=> Covered(i))
        BY <1>4, <1>10, <3>2, <3>3, SilencingIs DEF Silencers
      <4>2. n \in Numbers /\ n > 2 /\ \A k \in Members : silencer[s][k] # n
        <5> DEFINE h == <<"member", <<i, m>>>>
        <5>1. h \in Slot /\ Hold(h) = n
          BY HoldIs DEF Members
        <5>2. ASSUME NEW k \in Members, silencer[s][k] = n PROVE FALSE
          <6> DEFINE j == <<"member", <<s, k>>>>
          <6>1. j \in Slot /\ Hold(j) = n /\ j # h
            BY <2>1, <5>2, HoldIs
          <6> HIDE DEF h, j
          <6>. QED BY <3>3, <5>1, <6>1 DEF IInv, Sole
        <5> HIDE DEF h
        <5>. QED BY <3>3, <5>1, <5>2, HoldType DEF IInv, Open, Typed
      <4>3. n # 1 /\ n # 2 /\ n \notin {stream, null, out, err}
        BY <4>2, Constants DEF Members
      <4>4. table'[n] = table[n]
        BY <1>1, <4>2, <4>3
      <4>. QED BY <1>2, <3>1, <3>2, <3>3, <4>1, <4>4 DEF IsBack
    <3>. QED BY <1>2, <3>1, <3>2, <3>3
  <2>2. \A m \in {"out", "err"} : silencer'[s][m] = None
    BY <1>3 DEF Idle
  <2>3. ASSUME NEW n \in {1, 2} PROVE IsBack(table[n], Depth + 1)'
    <3> PICK k : k = IF n = 1 THEN out ELSE err
      OBVIOUS
    <3>1. table'[n] = IF k # None THEN table[k] ELSE table[n]
      BY <1>1, Constants
    <3>2. (k # None => IsBack(table[k], s)) /\ (null # None /\ k = None => cut)
      BY DEF IInv, Copies, Covers
    <3>3. IsBack(table[n], Depth + 1)
      BY DEF IInv, Copies
    <3>4. CASE k # None
      BY <1>2, <1>11, <3>1, <3>2, <3>4 DEF IsBack
    <3>5. CASE k = None
      <4>1. IF Covered(s) \/ null # None THEN table'[n] = Null ELSE cut \/ table'[n] = Terminal
        BY <1>11, <3>1, <3>3, <3>5 DEF IsBack
      <4>. QED BY <1>2, <1>11, <3>2, <3>5, <4>1 DEF IsBack
    <3>. QED BY <3>4, <3>5
  <2>4. ~Covers(s)'
    BY <1>6
  <2>. QED BY <2>1, <2>2, <2>3, <2>4 DEF Copies, Silencers
<1>14. \A m \in Members : silencer'[s][m] = None
  BY <1>3 DEF Idle, Members
<1>15. ASSUME NEW n \in Numbers, n > 2
       PROVE  /\ table'[n] # table[n] => \E k \in Members : silencer[s][k] = n
              /\ (\E k \in Members : silencer[s][k] = n) => table'[n] = Free
              /\ table[n] = Free => table'[n] = Free
  <2>1. n \in {stream, null, out, err} <=> \E k \in Members : silencer[s][k] = n
    BY DEF Members
  <2>2. n # 1 /\ n # 2
    BY <1>15, Constants
  <2>. QED BY <1>1, <2>1, <2>2
<1>16. table'[1] # Free /\ table'[2] # Free
  <2>1. \A m \in {"out", "err"} : silencer[s][m] # None => table[silencer[s][m]] # Free
    <3>1. ASSUME NEW m \in {"out", "err"}, silencer[s][m] # None PROVE table[silencer[s][m]] # Free
      <4> DEFINE h == <<"member", <<s, m>>>>
      <4>1. h \in Slot /\ Hold(h) = silencer[s][m]
        BY HoldIs DEF Members
      <4> HIDE DEF h
      <4>. QED BY <3>1, <4>1 DEF IInv, Open
    <3>. QED BY <3>1
  <2>2. (out # None => table[out] # Free) /\ (err # None => table[err] # Free)
    BY <2>1
  <2>3. table[1] # Free /\ table[2] # Free
    BY DEF IInv, Open
  <2>. QED BY <1>1, <2>2, <2>3, Constants
<1>17. \A m, k \in Members : silencer'[s][m] # None /\ silencer'[s][m] = silencer'[s][k] => m = k
  BY <1>14
<1>18. \A m \in Members : silencer'[s][m] # None =>
         silencer'[s][m] \in Numbers /\ table'[silencer'[s][m]] # Free /\ table[silencer'[s][m]] = Free
  BY <1>14
<1>19. \A n \in Numbers : n > 2 /\ table'[n] # Free /\ (table[n] = Free \/ \E k \in Members : silencer[s][k] = n) =>
         \E k \in Members : silencer'[s][k] = n
  BY <1>15
<1>20. \A n \in Numbers : n > 2 /\ table'[n] # table[n] => table[n] = Free \/ \E k \in Members : silencer[s][k] = n
  BY <1>15
<1>. QED BY <1>2, <1>3, <1>7, <1>8, <1>9, <1>13, <1>16, <1>17, <1>18, <1>19, <1>20, MemberStep
-----------------------------------------------------------------------------
(* The theorems. *)

\* At the start nothing but the standard numbers is open.
LEMMA Starts == Init => IInv
<1> SUFFICES ASSUME Init PROVE IInv
  OBVIOUS
<1>1. /\ \A n \in Numbers : table[n] = IF n <= 2 THEN Terminal ELSE Free
      /\ \A o \in FDs : fd[o] = Gone /\ \A p \in FPs : fp[p] = Gone /\ \A g \in Guards : guard[g] = Gone
      /\ loose = {} /\ cout = 0 /\ cut = FALSE
      /\ \A s \in Silencers : silencer[s] = Idle /\ ~Active(s) /\ ~Covers(s) /\ \A m \in Members : silencer[s][m] = None
  BY DEF Init, Idle, Active, Covers, Members
<1>2. TypeOK /\ SilencerType
  <2>1. table \in [Numbers -> Files \cup {Free, Terminal, Null}]
    BY DEF Init
  <2>2. /\ fd \in [FDs -> Holder \cup {Gone}] /\ fp \in [FPs -> Holder \cup {Gone}]
        /\ guard \in [Guards -> Guarding \cup {Gone}]
    BY DEF Init
  <2>3. SilencerType
    BY DEF Init, SilencerType, Idle
  <2>4. /\ loose \subseteq Numbers /\ cout \in 0..Depth /\ cut \in BOOLEAN
        /\ \A s \in Silencers : DOMAIN silencer[s] = DOMAIN Idle
    <3>1. loose \subseteq Numbers /\ cut \in BOOLEAN
      BY DEF Init
    <3>2. cout \in 0..Depth
      BY <1>1, DescriptorsAssumption
    <3>. QED BY <1>1, <3>1, <3>2
  <2>. QED BY <2>1, <2>2, <2>3, <2>4 DEF TypeOK
<1>3. ASSUME NEW h \in Slot PROVE Hold(h) = None
  <2>1. /\ \A o \in FDs : h = <<"fd", o>> => Hold(h) = None
        /\ \A o \in FPs : h = <<"fp", o>> => Hold(h) = None
        /\ \A g \in Guards : h = <<"guard", g>> => Hold(h) = None
        /\ \A n \in Numbers : h = <<"loose", n>> => Hold(h) = None
    BY <1>1, HoldIs DEF Init
  <2>2. \A s \in Silencers, m \in Members : h = <<"member", <<s, m>>>> => Hold(h) = None
    BY <1>1, HoldIs
  <2>. QED BY <2>1, <2>2, SlotIs
<1>4. Sole /\ Open /\ Remembered
  BY <1>1, <1>3, Constants, DescriptorsAssumption DEF Sole, Open, Remembered
<1>5. Stack
  BY <1>1, DescriptorsAssumption DEF Stack, NextActive
<1>6. Copies
  <2>1. \A s : IsBack(Terminal, s)
    BY <1>1 DEF IsBack, Covered
  <2>2. table[1] = Terminal /\ table[2] = Terminal
    BY <1>1, Constants
  <2>. QED BY <1>1, <2>1, <2>2 DEF Copies, Members
<1>. QED BY <1>2, <1>4, <1>5, <1>6 DEF IInv

\* Every step keeps the invariant, and but for one operation of UniqueFP it loses no number.
LEMMA Steps == ASSUME IInv, Next PROVE IInv' /\ ((\E o \in FPs, path \in Files : FpOpen(o, path)) \/ Lost' \subseteq Lost)
<1>1. CASE FdStep
  <2> PICK o \in FDs :
        \/ \E path \in Files \cup {NoPath} : FdConstruct(o, path)
        \/ \E path \in Files \cup {IF fd[o] = Gone THEN NoPath ELSE fd[o].path} : FdOpen(o, path)
        \/ \E n \in Numbers : FdOwn(o, n)
        \/ \E other \in FDs : FdMove(o, other) \/ FdAssign(o, other)
        \/ FdReOpen(o) \/ FdClose(o) \/ FdDestroy(o) \/ FdDup(o)
    BY <1>1, Zenon DEF FdStep
  <2>1. (IF fd[o] = Gone THEN NoPath ELSE fd[o].path) \in Files \cup {NoPath}
    BY ObjectTypes DEF Holder
  <2>. QED BY <2>1, FdOpens, FdOwns, FdMoves, FdReOpens, FdCloses, LooseSteps
<1>2. CASE FpStep
  <2>. PICK o \in FPs :
        \/ \E path \in Files \cup {NoPath} : FpConstruct(o, path)
        \/ \E path \in Files : FpOpen(o, path)
        \/ \E n \in Numbers : FpOwn(o, n)
        \/ \E other \in FPs : FpMove(o, other) \/ FpAssign(o, other)
        \/ FpReOpen(o) \/ FpClose(o) \/ FpDestroy(o)
    BY <1>2, Zenon DEF FpStep
  <2>. QED BY FpConstructs, FpOpens, FpOwns, FpMoves, FpReOpens, FpCloses
<1>3. CASE GuardStep
  <2>. PICK g \in Guards :
        \/ \E path \in Files : GuardOpen(g, path)
        \/ \E other \in Guards : GuardMove(g, other)
        \/ GuardNow(g) \/ GuardDismiss(g) \/ GuardDestroy(g)
    BY <1>3, Zenon DEF GuardStep
  <2>. QED BY GuardOnes, GuardMoves, GuardDismisses
<1>4. CASE \E n \in Numbers : CloseLoose(n)
  BY <1>4, LooseSteps
<1>5. CASE \E s \in Silencers : Silence(s) \/ Stop(s)
  BY <1>5, Silences, Stops
<1>. QED BY <1>1, <1>2, <1>3, <1>4, <1>5 DEF Next

\* A stuttering step changes nothing.
LEMMA Stutters == ASSUME IInv, UNCHANGED vars PROVE IInv' /\ Lost' \subseteq Lost
<1>1. /\ table' = table /\ fd' = fd /\ fp' = fp /\ guard' = guard /\ loose' = loose
      /\ silencer' = silencer /\ cout' = cout /\ cut' = cut
  BY DEF vars, objects, quiet
<1>2. TypeOK' /\ SilencerType' /\ Stack' /\ Copies'
  BY <1>1 DEF IInv, TypeOK, SilencerType, Stack, Copies, NextActive, Active, Covers, Covered, IsBack,
              Silencers, Numbers
<1>3. Sole' /\ Open' /\ Remembered'
  <2>1. \A h : Hold(h)' = Hold(h) /\ \A x : Names(h, x)' <=> Names(h, x)
    BY <1>1, Zenon DEF Hold, Names
  <2>2. Slot' = Slot
    BY DEF Slot, Members, Silencers, Numbers
  <2>3. Sole'
    BY <2>1, <2>2 DEF IInv, Sole
  <2>4. Open'
    BY <1>1, <2>1, <2>2 DEF IInv, Open
  <2>5. Remembered'
    <3> SUFFICES ASSUME NEW h \in Slot, h[1] # "member", Hold(h)' # None
                 PROVE  table'[Hold(h)'] \in Files /\ Names(h, table[Hold(h)])'
      BY <2>2 DEF Remembered
    <3>1. Hold(h)' = Hold(h) /\ Hold(h) # None
      BY <2>1
    <3>2. table[Hold(h)] \in Files /\ Names(h, table[Hold(h)])
      BY <3>1 DEF IInv, Remembered
    <3>. QED BY <1>1, <3>1, <3>2 DEF Names
  <2>. QED BY <2>3, <2>4, <2>5
<1>4. Lost' = Lost
  BY <1>1 DEF Lost, Holders, Silencers
<1>. QED BY <1>2, <1>3, <1>4 DEF IInv

\* The inductive invariant holds in every state.
THEOREM Invariance == Spec => []IInv
<1>1. IInv /\ [Next]_vars => IInv'
  BY Steps, Stutters
<1>. QED BY <1>1, Starts, PTL DEF Spec

\* The table, the objects and the silencers have their types.
THEOREM TypeCorrect == Spec => []TypeOK
<1>1. IInv => TypeOK
  BY DEF IInv
<1>. QED BY <1>1, Invariance, PTL

\* However objects of management.hpp are made, moved, assigned, reopened, released and silenced,
\* no number is in the hands of two of them, and each has the file it says it has.
THEOREM NumbersHaveOneOwner == Spec => []OneOwner
<1>1. IInv => OneOwner
  BY OwnedOnce
<1>. QED BY <1>1, Invariance, PTL

\* The one operation that leaves a number open with nobody to close it is open() of a UniqueFP
\* that has a stream already.
THEOREM OnlyOpenLoses == Spec => LostOnlyByOpen
<1>1. IInv /\ [Next]_vars => [(\E o \in FPs, path \in Files : FpOpen(o, path)) \/ Lost' \subseteq Lost]_vars
  BY Steps, Stutters
<1>. QED BY <1>1, Invariance, PTL DEF Spec, LostOnlyByOpen

\* Silencers hide stdout and stderr while they are at work and put back what was there, at
\* whatever depth; what they could not copy is all that stays hidden.
THEOREM SilencersPutBack == Spec => []OutputBack
<1>1. ASSUME IInv PROVE OutputBack
  <2>1. /\ \A s \in Silencers : Silencing(s) <=> Active(s)
        /\ \A s \in Silencers : Covers(s) => Active(s)
    BY <1>1, SilencingIs
  <2>2. /\ cout \in 0..Depth /\ (cout # 0 => Active(cout)) /\ \A s \in Silencers : cout < s => ~Active(s)
        /\ IsBack(table[1], Depth + 1) /\ IsBack(table[2], Depth + 1)
    <3>1. NextActive(cout, Depth + 1) /\ \A s \in Silencers : s < Depth + 1
      BY <1>1, DescriptorsAssumption DEF IInv, Stack, Silencers
    <3>. QED BY <1>1, <3>1 DEF IInv, TypeOK, Copies, NextActive
  <2>3. \A s \in Silencers : s < Depth + 1 /\ s # 0
    BY DescriptorsAssumption DEF Silencers
  <2>4. (\E s \in Silencers : Silencing(s)) <=> cout # 0
    <3>1. cout # 0 => cout \in Silencers /\ Silencing(cout)
      BY <2>1, <2>2, DescriptorsAssumption DEF Silencers
    <3>2. cout = 0 => \A s \in Silencers : ~Silencing(s)
      BY <2>1, <2>2, DescriptorsAssumption DEF Silencers
    <3>. QED BY <3>1, <3>2
  <2>5. Covered(Depth + 1) <=> \E s \in Silencers : silencer[s].null # None
    BY <2>3 DEF Covered, Covers
  <2>6. Covered(Depth + 1) => \E s \in Silencers : Silencing(s)
    BY <2>1 DEF Covered
  <2>. QED BY <2>2, <2>4, <2>5, <2>6 DEF OutputBack, IsBack
<1>. QED BY <1>1, Invariance, PTL
=============================================================================
