--------------------------- MODULE SupportProofs ----------------------------
(***************************************************************************)
(* What `layout` and `upload-log` promise, for every set of choice files    *)
(* and every number of writes, failures and log lines: that `layout` never  *)
(* removes the only copy of an item, that the last write of an item         *)
(* survives, that the report of a run is complete, and what is stored of    *)
(* the logs.                                                                *)
(***************************************************************************)
EXTENDS Support, SequenceTheorems, TLAPS

-----------------------------------------------------------------------------
(* No item is lost.                                                         *)

\* The files in memory and what the disk holds of each entry.
FsType ==
    fs \in FileSystems /\ disk \in Disks /\ anchored \subseteq Items /\ loose \subseteq Items

WritesType == clock \in Stamps /\ written \in [Items -> Stamps \cup {Absent}]

\* Items are what is moved.
AStep == {Move(i) : i \in Items}
            \cup {[op |-> "RemoveEmptyDir", path |-> "gnosisvpn"],
                  [op |-> "RemoveTree", path |-> "updates"]}

StepType == platform \in DOMAIN Platforms /\ step \in 1 .. Len(Steps)

\* What the command has seen still holds when it acts on it: nobody else removes.
SourceThere ==
    pc \in {"check", "remove", "rename"} => Current.op = "Move" /\ fs.old[Item] # Absent
DestinationThere ==
    pc \in {"remove", "sync", "syncold"} => Current.op = "Move" /\ fs.new[Item] # Absent

\* A new place that is not loose is on the disk, so the old one may go.
NewAnchored(i) == fs.new[i] # Absent /\ i \notin loose => Absent \notin LeftNew(i)

\* ItemKept, item by item.
Kept(i) ==
    written[i] # Absent =>
        /\ There(fs.old[i], fs.new[i])
        /\ i \notin loose => \A old \in disk.old[i], new \in LeftNew(i) : There(old, new)

KeptInv ==
    /\ StepType /\ FsType /\ WritesType /\ SourceThere /\ DestinationThere
    /\ \A i \in Items : NewAnchored(i) /\ Kept(i)

-----------------------------------------------------------------------------
LEMMA StepsAreSteps == Steps \in Seq(AStep) /\ Len(Steps) \in Nat \ {0}
<1>. DEFINE choices == [n \in DOMAIN Choices |-> Move(Choices[n])]
<1>. DEFINE rest == << Move("updates.log"), [op |-> "RemoveEmptyDir", path |-> "gnosisvpn"],
                       [op |-> "RemoveTree", path |-> "updates"] >>
<1>1. Len(Choices) \in Nat /\ DOMAIN Choices = 1 .. Len(Choices)
  BY ChoicesAssumption
<1>2. \A n \in DOMAIN Choices : Move(Choices[n]) \in AStep
  BY DEF AStep, Items, SystemFiles, ChoiceFiles
<1>3. choices \in Seq(AStep)
  BY <1>1, <1>2
<1>4. rest \in Seq(AStep) /\ Len(rest) = 3
  BY DEF AStep, Items, SystemFiles
<1>5. UserSteps \in Seq(AStep) /\ Len(UserSteps) = 2
  BY DEF UserSteps, AStep, Items, UserItems
<1>6. SystemSteps = choices \o rest
  BY DEF SystemSteps
<1>. HIDE DEF choices, rest
<1>7. SystemSteps \in Seq(AStep) /\ Len(SystemSteps) = Len(choices) + 3 /\ Len(choices) \in Nat
  <2>1. choices \o rest \in Seq(AStep) /\ Len(choices \o rest) = Len(choices) + Len(rest)
    BY <1>3, <1>4, ConcatProperties, Zenon
  <2>2. Len(choices) \in Nat
    BY <1>3, LenProperties, Zenon
  <2>. QED
    BY <2>1, <2>2, <1>4, <1>6
<1>8. CASE platform = "macos"
  BY <1>7, <1>8 DEF Steps
<1>9. CASE platform # "macos"
  BY <1>5, <1>9 DEF Steps
<1>. QED
  BY <1>8, <1>9

LEMMA MovesItem ==
    ASSUME StepType, Current.op = "Move"
    PROVE  Item \in Items
<1>1. Current \in AStep
  BY StepsAreSteps, ElementOfSeq DEF StepType, Current
<1>. QED
  BY <1>1 DEF AStep, Item, Move

LEMMA DoneGoesOn ==
    ASSUME NEW problems, StepType, Done(problems), UNCHANGED platform
    PROVE  pc' \in {"idle", "step"} /\ StepType'
  BY StepsAreSteps DEF Done, StepType, Steps

LEMMA InsideStays ==
    ASSUME NEW there, StepType, Inside(there), UNCHANGED platform
    PROVE  pc' = there /\ StepType' /\ Item' = Item
  BY DEF Inside, StepType, Item, Current, Steps

\* A step of the command that leaves the files and the writes alone, and pc where nothing has
\* been seen.
LEMMA AloneKeeps ==
    ASSUME KeptInv, UNCHANGED <<files, clock, written>>, StepType', pc' \in {"idle", "killed", "step"}
    PROVE  KeptInv'
  BY DEF KeptInv, FsType, WritesType, SourceThere, DestinationThere, NewAnchored, Kept, LeftNew,
         files

-----------------------------------------------------------------------------
(* What the operations do to the files, item by item.                       *)

LEMMA AbsentContent == Absent \in Contents
  BY DEF Contents

LEMMA FileParts ==
    ASSUME FsType
    PROVE  /\ fs.old \in [Items -> Contents] /\ fs.new \in [Items -> Contents]
           /\ fs.dirs \in SUBSET OldDirs
           /\ disk.old \in [Items -> SUBSET Contents] /\ disk.new \in [Items -> SUBSET Contents]
           /\ disk.dirs \in SUBSET SUBSET OldDirs
  BY DEF FsType, FileSystems, Disks

\* Nothing of item i has changed but perhaps who wrote it.
Untouched(i) ==
    /\ fs'.old[i] = fs.old[i] /\ fs'.new[i] = fs.new[i]
    /\ disk'.old[i] = disk.old[i] /\ disk'.new[i] = disk.new[i]
    /\ (i \in anchored' <=> i \in anchored) /\ (i \in loose' <=> i \in loose)

LEMMA UntouchedKeeps ==
    ASSUME NEW i \in Items, Untouched(i), NewAnchored(i), Kept(i), written'[i] = written[i]
    PROVE  NewAnchored(i)' /\ Kept(i)'
<1>1. LeftNew(i)' = LeftNew(i)
  BY DEF Untouched, LeftNew
<1>. QED
  BY <1>1 DEF Untouched, NewAnchored, Kept

LEMMA OldBecomesDoes ==
    ASSUME FsType, NEW item \in Items, NEW c \in Contents, NEW left \in SUBSET Contents,
           OldBecomes(item, c, left)
    PROVE  /\ FsType' /\ fs'.new = fs.new /\ disk'.new = disk.new
           /\ fs'.old[item] = c /\ disk'.old[item] = disk.old[item] \cup left
           /\ UNCHANGED <<anchored, loose>>
           /\ \A i \in Items : i # item => Untouched(i)
<1>1. fs' = [fs EXCEPT !.old = [fs.old EXCEPT ![item] = c]]
      /\ disk' = [disk EXCEPT !.old = [disk.old EXCEPT ![item] = disk.old[item] \cup left]]
      /\ UNCHANGED <<anchored, loose>>
  BY DEF OldBecomes, FsType, FileSystems, Disks
<1>2. [fs.old EXCEPT ![item] = c] \in [Items -> Contents]
      /\ [disk.old EXCEPT ![item] = disk.old[item] \cup left] \in [Items -> SUBSET Contents]
  BY FileParts
<1>3. FsType'
  BY <1>1, <1>2, FileParts DEF FsType, FileSystems, Disks
<1>4. /\ fs'.new = fs.new /\ disk'.new = disk.new
      /\ fs'.old = [fs.old EXCEPT ![item] = c]
      /\ disk'.old = [disk.old EXCEPT ![item] = disk.old[item] \cup left]
  BY <1>1 DEF FsType, FileSystems, Disks
<1>. QED
  BY <1>1, <1>3, <1>4, FileParts DEF Untouched

LEMMA NewSettlesDoes ==
    ASSUME FsType, NEW item \in Items, NEW c \in Contents, NewSettles(item, c)
    PROVE  /\ FsType' /\ fs'.old = fs.old /\ disk'.old = disk.old
           /\ fs'.new[item] = c /\ disk'.new[item] = {c} /\ LeftNew(item)' = {c}
           /\ item \in anchored' /\ item \notin loose'
           /\ \A i \in Items : i # item => Untouched(i)
<1>1. fs' = [fs EXCEPT !.new = [fs.new EXCEPT ![item] = c]]
      /\ disk' = [disk EXCEPT !.new = [disk.new EXCEPT ![item] = {c}]]
      /\ anchored' = anchored \cup {item} /\ loose' = loose \ {item}
  BY DEF NewSettles, FsType, FileSystems, Disks
<1>2. [fs.new EXCEPT ![item] = c] \in [Items -> Contents]
      /\ [disk.new EXCEPT ![item] = {c}] \in [Items -> SUBSET Contents]
  BY FileParts
<1>3. FsType'
  BY <1>1, <1>2, FileParts DEF FsType, FileSystems, Disks
<1>4. /\ fs'.old = fs.old /\ disk'.old = disk.old
      /\ fs'.new = [fs.new EXCEPT ![item] = c] /\ disk'.new = [disk.new EXCEPT ![item] = {c}]
  BY <1>1 DEF FsType, FileSystems, Disks
<1>. QED
  BY <1>1, <1>3, <1>4, FileParts DEF Untouched, LeftNew

LEMMA DirsBecomeDoes ==
    ASSUME FsType, NEW ds \in SUBSET OldDirs, DirsBecome(ds)
    PROVE  /\ FsType' /\ UNCHANGED <<anchored, loose>>
           /\ fs'.old = fs.old /\ fs'.new = fs.new /\ disk'.old = disk.old /\ disk'.new = disk.new
           /\ \A i \in Items : Untouched(i)
<1>1. fs' = [fs EXCEPT !.dirs = ds] /\ disk' = [disk EXCEPT !.dirs = disk.dirs \cup {ds}]
      /\ UNCHANGED <<anchored, loose>>
  BY DEF DirsBecome
<1>2. FsType'
  BY <1>1, FileParts DEF FsType, FileSystems, Disks
<1>. QED
  BY <1>1, <1>2 DEF Untouched, FsType, FileSystems, Disks

LEMMA RenameDoes ==
    ASSUME FsType, RenameAcross, Item \in Items
    PROVE  /\ FsType' /\ UNCHANGED anchored /\ loose' = loose \cup {Item}
           /\ fs'.new[Item] = fs.old[Item] /\ fs'.old[Item] = Absent
           /\ disk'.new[Item] = disk.new[Item] \cup {fs.old[Item]}
           /\ disk'.old[Item] = disk.old[Item] \cup {Absent}
           /\ \A i \in Items : i # Item => Untouched(i)
<1>. DEFINE o == [fs.old EXCEPT ![Item] = Absent]
<1>. DEFINE n == [fs.new EXCEPT ![Item] = fs.old[Item]]
<1>. DEFINE do == [disk.old EXCEPT ![Item] = disk.old[Item] \cup {Absent}]
<1>. DEFINE dn == [disk.new EXCEPT ![Item] = disk.new[Item] \cup {fs.old[Item]}]
<1>1. fs' = [fs EXCEPT !.old = o, !.new = n] /\ disk' = [disk EXCEPT !.old = do, !.new = dn]
      /\ loose' = loose \cup {Item} /\ UNCHANGED anchored
  BY DEF RenameAcross, FsType, FileSystems, Disks
<1>2. /\ o \in [Items -> Contents] /\ n \in [Items -> Contents]
      /\ do \in [Items -> SUBSET Contents] /\ dn \in [Items -> SUBSET Contents]
  BY FileParts, AbsentContent
<1>3. /\ n[Item] = fs.old[Item] /\ o[Item] = Absent
      /\ dn[Item] = disk.new[Item] \cup {fs.old[Item]}
      /\ do[Item] = disk.old[Item] \cup {Absent}
      /\ \A i \in Items : i # Item => /\ o[i] = fs.old[i] /\ n[i] = fs.new[i]
                                      /\ do[i] = disk.old[i] /\ dn[i] = disk.new[i]
  BY FileParts
<1>. HIDE DEF o, n, do, dn
<1>4. FsType'
  BY <1>1, <1>2, FileParts DEF FsType, FileSystems, Disks
<1>5. fs'.old = o /\ fs'.new = n /\ disk'.old = do /\ disk'.new = dn
  BY <1>1 DEF FsType, FileSystems, Disks
<1>. QED
  BY <1>1, <1>3, <1>4, <1>5 DEF Untouched

LEMMA SyncNewDoes ==
    ASSUME FsType, SyncNew, Item \in Items
    PROVE  /\ FsType' /\ UNCHANGED <<fs, anchored>> /\ disk'.old = disk.old
           /\ disk'.new[Item] = {fs.new[Item]}
           /\ loose' = (IF Item \in anchored THEN loose \ {Item} ELSE loose)
           /\ \A i \in Items : i # Item => Untouched(i)
<1>1. disk' = [disk EXCEPT !.new = [disk.new EXCEPT ![Item] = {fs.new[Item]}]]
      /\ loose' = (IF Item \in anchored THEN loose \ {Item} ELSE loose)
      /\ UNCHANGED <<fs, anchored>>
  BY DEF SyncNew, FsType, Disks
<1>2. [disk.new EXCEPT ![Item] = {fs.new[Item]}] \in [Items -> SUBSET Contents]
  BY FileParts
<1>3. FsType'
  BY <1>1, <1>2, FileParts DEF FsType, Disks
<1>4. disk'.old = disk.old /\ disk'.new = [disk.new EXCEPT ![Item] = {fs.new[Item]}]
  BY <1>1 DEF FsType, Disks
<1>. QED
  BY <1>1, <1>3, <1>4, FileParts DEF Untouched

LEMMA SyncOldDoes ==
    ASSUME FsType, SyncOld, Item \in Items
    PROVE  /\ FsType' /\ UNCHANGED <<fs, anchored, loose>> /\ disk'.new = disk.new
           /\ disk'.old[Item] = {fs.old[Item]}
           /\ \A i \in Items : i # Item => Untouched(i)
<1>1. disk' = [disk EXCEPT !.old = [disk.old EXCEPT ![Item] = {fs.old[Item]}]]
      /\ UNCHANGED <<fs, anchored, loose>>
  BY DEF SyncOld, FsType, Disks
<1>2. [disk.old EXCEPT ![Item] = {fs.old[Item]}] \in [Items -> SUBSET Contents]
  BY FileParts
<1>3. FsType'
  BY <1>1, <1>2, FileParts DEF FsType, Disks
<1>4. disk'.new = disk.new /\ disk'.old = [disk.old EXCEPT ![Item] = {fs.old[Item]}]
  BY <1>1 DEF FsType, Disks
<1>. QED
  BY <1>1, <1>3, <1>4, FileParts DEF Untouched

LEMMA WrittenContent ==
    ASSUME NEW content \in Contents, NEW item, NEW n \in Stamps
    PROVE  /\ Written(content, item, n) \in Contents \ {Absent}
           /\ Written(content, item, n) # {} /\ n \in Written(content, item, n)
  BY AbsentAssumption DEF Written, Contents

LEMMA PreviousWritesDoes ==
    ASSUME FsType, NEW item \in Items, PreviousWrites(item), clock' \in Stamps
    PROVE  /\ FsType' /\ fs'.new = fs.new /\ disk'.new = disk.new /\ UNCHANGED <<anchored, loose>>
           /\ fs'.old[item] \in Contents \ {Absent} /\ fs'.old[item] # {}
           /\ clock' \in fs'.old[item] /\ disk'.old[item] = {fs'.old[item]}
           /\ \A i \in Items : i # item => Untouched(i)
<1>. DEFINE c == Written(fs.old[item], item, clock')
<1>. DEFINE ds == IF item = "updates.log" THEN fs.dirs \cup {"gnosisvpn"} ELSE fs.dirs
<1>1. c \in Contents \ {Absent} /\ c # {} /\ clock' \in c
  BY FileParts, WrittenContent
<1>2. ds \in SUBSET OldDirs
  BY FileParts DEF OldDirs
<1>3. fs' = [fs EXCEPT !.old[item] = c, !.dirs = ds]
      /\ disk' = [disk EXCEPT !.old[item] = {fs'.old[item]}, !.dirs = {fs'.dirs}]
      /\ UNCHANGED <<anchored, loose>>
  BY DEF PreviousWrites
<1>. HIDE DEF c, ds
<1>4. fs'.old = [fs.old EXCEPT ![item] = c] /\ fs'.new = fs.new /\ fs'.dirs = ds
      /\ fs' = [old |-> fs'.old, new |-> fs'.new, dirs |-> fs'.dirs]
  BY <1>3 DEF FsType, FileSystems
<1>5. disk'.old = [disk.old EXCEPT ![item] = {c}] /\ disk'.new = disk.new /\ disk'.dirs = {ds}
      /\ disk' = [old |-> disk'.old, new |-> disk'.new, dirs |-> disk'.dirs]
  BY <1>3, <1>4, FileParts DEF FsType, Disks
<1>6. [fs.old EXCEPT ![item] = c] \in [Items -> Contents]
      /\ [disk.old EXCEPT ![item] = {c}] \in [Items -> SUBSET Contents]
  BY <1>1, FileParts
<1>7. fs' \in FileSystems
  BY <1>2, <1>4, <1>6, FileParts DEF FileSystems
<1>8. disk' \in Disks
  BY <1>2, <1>5, <1>6, FileParts DEF Disks
<1>. QED
  BY <1>1, <1>3, <1>4, <1>5, <1>7, <1>8, FileParts DEF Untouched, FsType

\* What one item is after a power cut.
CutLeaves(i) ==
    /\ fs'.old[i] \in disk.old[i] /\ fs'.new[i] \in LeftNew(i)
    /\ disk'.old[i] = {fs'.old[i]} /\ disk'.new[i] = {fs'.new[i]}
    /\ LeftNew(i)' = {fs'.new[i]} /\ i \notin loose'
    /\ written'[i] = IF i \in loose /\ ~There(fs'.old[i], fs'.new[i]) THEN Absent ELSE written[i]

LEMMA PowerCutDoes ==
    ASSUME FsType, WritesType, PowerCut
    PROVE  FsType' /\ WritesType' /\ \A i \in Items : CutLeaves(i)
<1>. PICK old \in Choice(LeftOld), new \in Choice(LeftNew), dirs \in disk.dirs :
          /\ fs' = [old |-> old, new |-> new, dirs |-> dirs]
          /\ disk' = [old |-> [i \in Items |-> {old[i]}], new |-> [i \in Items |-> {new[i]}],
                      dirs |-> {dirs}]
          /\ anchored' = anchored \cup {i \in Items : new[i] # Absent}
          /\ written' = [i \in Items |->
                IF i \in loose /\ ~There(old[i], new[i]) THEN Absent ELSE written[i]]
  BY DEF PowerCut
<1>1. old \in [Items -> Contents] /\ \A i \in Items : old[i] \in disk.old[i]
  BY FileParts DEF Choice, LeftOld
<1>2. new \in [Items -> Contents] /\ \A i \in Items : new[i] \in LeftNew(i)
  <2>1. \A i \in Items : LeftNew(i) \subseteq Contents
    BY FileParts, AbsentContent DEF LeftNew
  <2>. QED
    BY <2>1 DEF Choice
<1>3. loose' = {} /\ UNCHANGED clock
  BY DEF PowerCut
<1>4. dirs \in SUBSET OldDirs
  BY FileParts
<1>5. FsType'
  BY <1>1, <1>2, <1>3, <1>4 DEF FsType, FileSystems, Disks
<1>6. WritesType'
  BY <1>3 DEF WritesType
<1>7. ASSUME NEW i \in Items PROVE CutLeaves(i)
  <2>1. fs'.old[i] = old[i] /\ fs'.new[i] = new[i] /\ disk'.old[i] = {old[i]}
        /\ disk'.new[i] = {new[i]} /\ (new[i] # Absent => i \in anchored')
    OBVIOUS
  <2>2. LeftNew(i)' = {new[i]}
    BY <2>1 DEF LeftNew
  <2>3. written'[i] = IF i \in loose /\ ~There(old[i], new[i]) THEN Absent ELSE written[i]
    OBVIOUS
  <2>. QED
    BY <1>1, <1>2, <1>3, <2>1, <2>2, <2>3 DEF CutLeaves
<1>. QED
  BY <1>5, <1>6, <1>7

-----------------------------------------------------------------------------
LEMMA BeginKeeps == ASSUME KeptInv, Begin PROVE KeptInv'
  BY AloneKeeps DEF Begin, system, history, KeptInv, StepType, Steps

\* A change of one item keeps the others.
LEMMA ItemKeeps ==
    ASSUME KeptInv, NEW item \in Items, FsType', WritesType', StepType',
           SourceThere', DestinationThere',
           \A i \in Items : i # item => Untouched(i) /\ written'[i] = written[i],
           NewAnchored(item)', Kept(item)'
    PROVE  KeptInv'
<1>1. ASSUME NEW i \in Items PROVE NewAnchored(i)' /\ Kept(i)'
  <2>1. CASE i = item
    BY <2>1
  <2>2. CASE i # item
    <3>1. NewAnchored(i) /\ Kept(i)
      BY DEF KeptInv
    <3>. QED
      BY <2>2, <3>1, UntouchedKeeps
  <2>. QED
    BY <2>1, <2>2
<1>. QED
  BY <1>1 DEF KeptInv

LEMMA LayoutStepKeeps ==
    ASSUME KeptInv, LayoutStep
    PROVE  KeptInv'
<1>0. StepType /\ FsType /\ WritesType /\ UNCHANGED platform
  BY DEF KeptInv, LayoutStep, FindNothing, FindBlocked, FindSource, CheckDestination, RemoveStale,
         RemoveHalf, RenameAcross, RenameRefused, SyncNew, SyncOld, StepFails, RemoveTree,
         RemoveEmptyDir, system
<1>1. CASE FindNothing \/ FindBlocked \/ RenameRefused \/ StepFails
  BY <1>0, <1>1, AloneKeeps, DoneGoesOn
     DEF FindNothing, FindBlocked, RenameRefused, StepFails, history
<1>2. CASE FindSource \/ CheckDestination
  <2>1. /\ Item' = Item /\ Current' = Current /\ UNCHANGED <<files, clock, written>> /\ StepType'
        /\ pc' \in {"check", "remove", "rename"}
        /\ pc' = "remove" => fs.new[Item] # Absent
    <3>1. CASE FindSource
      BY <1>0, <3>1, InsideStays DEF FindSource, history, Inside, Current, Steps
    <3>2. CASE CheckDestination
      BY <1>0, <3>2, InsideStays DEF CheckDestination, history, Inside, Current, Steps
    <3>. QED
      BY <1>2, <3>1, <3>2
  <2>2. fs.old[Item] # Absent /\ Current.op = "Move"
    BY <1>2 DEF FindSource, CheckDestination, At, KeptInv, SourceThere
  <2>. QED
    BY <2>1, <2>2
       DEF KeptInv, FsType, WritesType, SourceThere, DestinationThere, NewAnchored, Kept, LeftNew,
           files
<1>4. CASE RemoveStale \/ RemoveHalf
  <2>1. Item \in Items /\ fs.new[Item] # Absent /\ fs.old[Item] # Absent
    BY <1>4, MovesItem DEF RemoveStale, RemoveHalf, At, KeptInv, DestinationThere, SourceThere
  <2>. PICK item \in Items : item = Item
    BY <2>1
  <2>2. Rests \subseteq Contents /\ Rests \cup {Absent} \subseteq Contents
    <3>1. Rests \subseteq SUBSET Stamps
      BY <2>1, FileParts, <1>0 DEF Rests, Contents
    <3>. QED
      BY <3>1 DEF Contents
  <2>3. PICK c \in Contents, left \in SUBSET Contents : OldBecomes(Item, c, left)
    BY <1>4, <2>2, AbsentContent DEF RemoveStale, RemoveHalf
  <2>4. UNCHANGED <<clock, written>> /\ pc' \in {"idle", "step"} /\ StepType'
    BY <1>0, <1>4, DoneGoesOn DEF RemoveStale, RemoveHalf, history
  <2>5. /\ FsType' /\ fs'.new = fs.new /\ LeftNew(item)' = LeftNew(item)
        /\ UNCHANGED <<anchored, loose>> /\ \A i \in Items : i # item => Untouched(i)
    BY <1>0, <2>1, <2>3, OldBecomesDoes DEF LeftNew
  <2>6. NewAnchored(item) /\ Kept(item)
    BY <2>1 DEF KeptInv
  <2>7. NewAnchored(item)' /\ Kept(item)'
    <3>1. NewAnchored(item)'
      BY <2>5, <2>6 DEF NewAnchored
    <3>2. item \notin loose => Absent \notin LeftNew(item)
      BY <2>1, <2>6 DEF NewAnchored
    <3>. QED
      BY <2>1, <2>4, <2>5, <3>1, <3>2 DEF Kept, There
  <2>8. WritesType' /\ SourceThere' /\ DestinationThere'
    BY <1>0, <2>4 DEF WritesType, SourceThere, DestinationThere
  <2>. QED
    BY <2>1, <2>4, <2>5, <2>7, <2>8, ItemKeeps
<1>5. CASE RenameAcross
  <2>1. Item \in Items /\ fs.old[Item] # Absent /\ Current.op = "Move"
    BY <1>5, MovesItem DEF RenameAcross, At, KeptInv, SourceThere
  <2>. PICK item \in Items : item = Item
    BY <2>1
  <2>2. UNCHANGED <<clock, written>> /\ pc' = "sync" /\ StepType' /\ Item' = Item
        /\ Current' = Current
    BY <1>0, <1>5, InsideStays DEF RenameAcross, history, Inside, Current, Steps
  <2>3. /\ FsType' /\ loose' = loose \cup {item} /\ fs'.new[item] = fs.old[item]
        /\ \A i \in Items : i # item => Untouched(i)
    BY <1>0, <1>5, <2>1, RenameDoes
  <2>4. NewAnchored(item)' /\ Kept(item)'
    BY <2>1, <2>3 DEF NewAnchored, Kept, There
  <2>5. WritesType' /\ SourceThere' /\ DestinationThere'
    BY <1>0, <2>1, <2>2, <2>3 DEF WritesType, SourceThere, DestinationThere
  <2>. QED
    BY <2>1, <2>2, <2>3, <2>4, <2>5, ItemKeeps
<1>6. CASE SyncNew
  <2>1. Item \in Items /\ fs.new[Item] # Absent /\ Current.op = "Move"
    BY <1>6, MovesItem DEF SyncNew, At, KeptInv, DestinationThere
  <2>. PICK item \in Items : item = Item
    BY <2>1
  <2>2. UNCHANGED <<clock, written>> /\ pc' = "syncold" /\ StepType' /\ Item' = Item
        /\ Current' = Current
    BY <1>0, <1>6, InsideStays DEF SyncNew, history, Inside, Current, Steps
  <2>3. /\ FsType' /\ UNCHANGED <<fs, anchored>> /\ disk'.new[item] = {fs.new[item]}
        /\ loose' = (IF item \in anchored THEN loose \ {item} ELSE loose)
        /\ \A i \in Items : i # item => Untouched(i)
    BY <1>0, <1>6, <2>1, SyncNewDoes
  <2>4. item \notin loose' => item \in anchored
    <3>1. CASE item \in loose
      BY <2>3, <3>1
    <3>2. CASE item \notin loose
      BY <2>1, <3>2 DEF KeptInv, NewAnchored, LeftNew
    <3>. QED
      BY <3>1, <3>2
  <2>5. item \notin loose' => LeftNew(item)' = {fs.new[item]}
    BY <2>3, <2>4 DEF LeftNew
  <2>6. NewAnchored(item)' /\ Kept(item)'
    BY <2>1, <2>3, <2>5 DEF NewAnchored, Kept, There
  <2>7. WritesType' /\ SourceThere' /\ DestinationThere'
    BY <1>0, <2>1, <2>2, <2>3 DEF WritesType, SourceThere, DestinationThere
  <2>. QED
    BY <2>1, <2>2, <2>3, <2>6, <2>7, ItemKeeps
<1>7. CASE SyncOld
  <2>1. Item \in Items /\ fs.new[Item] # Absent
    BY <1>7, MovesItem DEF SyncOld, At, KeptInv, DestinationThere
  <2>. PICK item \in Items : item = Item
    BY <2>1
  <2>2. UNCHANGED <<clock, written>> /\ pc' \in {"idle", "step"} /\ StepType'
    BY <1>0, <1>7, DoneGoesOn DEF SyncOld, history
  <2>3. /\ FsType' /\ UNCHANGED <<fs, anchored, loose>> /\ LeftNew(item)' = LeftNew(item)
        /\ \A i \in Items : i # item => Untouched(i)
    BY <1>0, <1>7, <2>1, SyncOldDoes DEF LeftNew
  <2>4. NewAnchored(item) /\ NewAnchored(item)'
    <3>1. NewAnchored(item)
      BY DEF KeptInv
    <3>. QED
      BY <2>3, <3>1 DEF NewAnchored
  <2>5. Kept(item)'
    BY <2>1, <2>3, <2>4 DEF NewAnchored, Kept, There
  <2>6. WritesType' /\ SourceThere' /\ DestinationThere'
    BY <1>0, <2>2 DEF WritesType, SourceThere, DestinationThere
  <2>. QED
    BY <2>1, <2>2, <2>3, <2>4, <2>5, <2>6, ItemKeeps
<1>8. CASE RemoveTree \/ RemoveEmptyDir
  <2>1. UNCHANGED <<clock, written>> /\ pc' \in {"idle", "step"} /\ StepType'
    BY <1>0, <1>8, DoneGoesOn DEF RemoveTree, RemoveEmptyDir, history
  <2>2. fs.dirs \ {Item} \in SUBSET OldDirs
    BY <1>0, FileParts
  <2>3. CASE DirsBecome(fs.dirs \ {Item})
    <3>1. FsType' /\ \A i \in Items : Untouched(i)
      BY <1>0, <2>2, <2>3, DirsBecomeDoes
    <3>2. \A i \in Items : NewAnchored(i)' /\ Kept(i)'
      BY <2>1, <3>1, UntouchedKeeps DEF KeptInv
    <3>. QED
      BY <1>0, <2>1, <3>1, <3>2 DEF KeptInv, WritesType, SourceThere, DestinationThere
  <2>4. CASE UNCHANGED files
    BY <2>1, <2>4, AloneKeeps
  <2>. QED
    BY <1>8, <2>3, <2>4 DEF RemoveTree, RemoveEmptyDir
<1>. QED
  BY <1>1, <1>2, <1>4, <1>5, <1>6, <1>7, <1>8 DEF LayoutStep

-----------------------------------------------------------------------------
LEMMA WriteCounts ==
    ASSUME StepType, WritesType, NEW item, Write(item)
    PROVE  /\ clock' \in Stamps /\ written' = [written EXCEPT ![item] = clock']
           /\ UNCHANGED <<platform, pc, step>> /\ item \in Items /\ WritesType'
           /\ StepType' /\ Current' = Current /\ Item' = Item
<1>1. clock' \in Stamps /\ written' = [written EXCEPT ![item] = clock']
      /\ UNCHANGED <<platform, pc, step>>
  <2>1. clock' = clock + 1 /\ clock < MaxWrites /\ clock \in 0 .. MaxWrites
    BY DEF Write, WritesType, Stamps
  <2>2. clock' \in Stamps
    BY <2>1, BoundsAssumption DEF Stamps
  <2>. QED
    BY <2>2 DEF Write, system
<1>2. item \in Items
  <2>1. item \in Here /\ platform \in {"macos", "linux"}
    BY DEF Write, Platforms, StepType
  <2>2. CASE platform = "macos"
    BY <2>1, <2>2 DEF Here, Platforms, Items
  <2>3. CASE platform = "linux"
    BY <2>1, <2>3 DEF Here, Platforms, Items
  <2>. QED
    BY <2>1, <2>2, <2>3
<1>3. WritesType'
  BY <1>1, <1>2 DEF WritesType
<1>4. StepType' /\ Current' = Current /\ Item' = Item
  BY <1>1 DEF StepType, Steps, Item, Current
<1>. QED
  BY <1>1, <1>2, <1>3, <1>4

\* What is put somewhere takes nothing away from what the command has seen.
LEMMA NothingTaken ==
    ASSUME KeptInv, UNCHANGED pc, Current' = Current, Item' = Item,
           \A i \in Items : /\ fs.old[i] # Absent => fs'.old[i] # Absent
                            /\ fs.new[i] # Absent => fs'.new[i] # Absent
    PROVE  SourceThere' /\ DestinationThere'
<1>1. pc \in {"check", "remove", "rename", "sync", "syncold"} => Item \in Items
  BY MovesItem DEF KeptInv, SourceThere, DestinationThere
<1>2. SourceThere'
  <2>. SUFFICES ASSUME pc \in {"check", "remove", "rename"}
       PROVE  Current.op = "Move" /\ fs'.old[Item] # Absent
    BY DEF SourceThere
  <2>. QED
    <3>1. Current.op = "Move" /\ fs.old[Item] # Absent
      BY DEF KeptInv, SourceThere
    <3>2. Item \in Items
      BY <1>1
    <3>. QED
      BY <3>1, <3>2, Zenon
<1>3. DestinationThere'
  <2>. SUFFICES ASSUME pc \in {"remove", "sync", "syncold"}
       PROVE  Current.op = "Move" /\ fs'.new[Item] # Absent
    BY DEF DestinationThere
  <2>. QED
    <3>1. Current.op = "Move" /\ fs.new[Item] # Absent
      BY DEF KeptInv, DestinationThere
    <3>2. Item \in Items
      BY <1>1
    <3>. QED
      BY <3>1, <3>2, Zenon
<1>. QED
  BY <1>2, <1>3

LEMMA EnvironmentKeeps ==
    ASSUME KeptInv, Environment
    PROVE  KeptInv'
<1>0. StepType /\ FsType /\ WritesType
  BY DEF KeptInv
<1>1. ASSUME NEW i \in Items, CurrentWrites(i)
      PROVE  KeptInv'
  <2>. DEFINE c == Written(fs.new[i], i, clock')
  <2>1. /\ clock' \in Stamps /\ written' = [written EXCEPT ![i] = clock']
        /\ WritesType' /\ StepType' /\ UNCHANGED pc /\ Current' = Current /\ Item' = Item
    BY <1>0, <1>1, WriteCounts DEF CurrentWrites
  <2>2. c \in Contents \ {Absent}
    BY <1>0, <2>1, FileParts, WrittenContent
  <2>3. NewSettles(i, c)
    BY <1>1 DEF CurrentWrites
  <2>. HIDE DEF c
  <2>4. /\ FsType' /\ fs'.old = fs.old /\ fs'.new[i] = c /\ LeftNew(i)' = {c}
        /\ \A j \in Items : j # i => Untouched(j)
    BY <1>0, <2>2, <2>3, NewSettlesDoes
  <2>5. NewAnchored(i)' /\ Kept(i)'
    BY <2>2, <2>4 DEF NewAnchored, Kept, There
  <2>6. \A j \in Items : /\ fs.old[j] # Absent => fs'.old[j] # Absent
                         /\ fs.new[j] # Absent => fs'.new[j] # Absent
    BY <2>2, <2>4 DEF Untouched
  <2>7. SourceThere' /\ DestinationThere'
    BY <2>1, <2>6, NothingTaken
  <2>8. \A j \in Items : j # i => written'[j] = written[j]
    BY <1>0, <2>1 DEF WritesType
  <2>. QED
    BY <2>1, <2>4, <2>5, <2>7, <2>8, ItemKeeps
<1>2. ASSUME NEW i \in Items, PreviousWrites(i)
      PROVE  KeptInv'
  <2>1. /\ clock' \in Stamps /\ written' = [written EXCEPT ![i] = clock']
        /\ WritesType' /\ StepType' /\ UNCHANGED pc /\ Current' = Current /\ Item' = Item
    BY <1>0, <1>2, WriteCounts DEF PreviousWrites
  <2>2. /\ FsType' /\ fs'.new = fs.new /\ UNCHANGED <<anchored, loose>>
        /\ LeftNew(i)' = LeftNew(i) /\ fs'.old[i] # Absent /\ disk'.old[i] = {fs'.old[i]}
        /\ \A j \in Items : j # i => Untouched(j)
    BY <1>0, <1>2, <2>1, PreviousWritesDoes DEF LeftNew
  <2>3. NewAnchored(i)' /\ Kept(i)'
    BY <2>2 DEF KeptInv, NewAnchored, Kept, There
  <2>4. \A j \in Items : /\ fs.old[j] # Absent => fs'.old[j] # Absent
                         /\ fs.new[j] # Absent => fs'.new[j] # Absent
    BY <2>2 DEF Untouched
  <2>5. SourceThere' /\ DestinationThere'
    BY <2>1, <2>4, NothingTaken
  <2>6. \A j \in Items : j # i => written'[j] = written[j]
    BY <1>0, <2>1 DEF WritesType
  <2>. QED
    BY <2>1, <2>2, <2>3, <2>5, <2>6, ItemKeeps
<1>3. CASE CurrentMakesLogs
  <2>1. UNCHANGED <<platform, pc, step, clock, written>> /\ NewSettles("logs", {})
    BY <1>3 DEF CurrentMakesLogs, system
  <2>2. "logs" \in Items /\ {} \in Contents \ {Absent}
    BY AbsentAssumption DEF Contents, Items, UserItems
  <2>3. /\ FsType' /\ fs'.old = fs.old /\ fs'.new["logs"] = {} /\ LeftNew("logs")' = {{}}
        /\ \A j \in Items : j # "logs" => Untouched(j)
    BY <1>0, <2>1, <2>2, NewSettlesDoes
  <2>4. NewAnchored("logs")' /\ Kept("logs")'
    BY <2>2, <2>3 DEF NewAnchored, Kept, There
  <2>5. StepType' /\ WritesType' /\ Current' = Current /\ Item' = Item
    BY <1>0, <2>1 DEF StepType, WritesType, Item, Current, Steps
  <2>6. \A j \in Items : /\ fs.old[j] # Absent => fs'.old[j] # Absent
                         /\ fs.new[j] # Absent => fs'.new[j] # Absent
    BY <2>2, <2>3 DEF Untouched
  <2>7. SourceThere' /\ DestinationThere'
    BY <2>1, <2>5, <2>6, NothingTaken
  <2>. QED
    BY <2>1, <2>2, <2>3, <2>4, <2>5, <2>7, ItemKeeps
<1>4. CASE Killed
  <2>1. StepType'
    BY <1>4, StepsAreSteps DEF Killed, KeptInv, StepType, system, Steps
  <2>. QED
    BY <1>4, <2>1, AloneKeeps DEF Killed, history
<1>5. CASE PowerCut
  <2>1. StepType' /\ pc' = "killed"
    BY <1>5, StepsAreSteps DEF PowerCut, KeptInv, StepType, system, Steps
  <2>2. FsType' /\ WritesType' /\ \A i \in Items : CutLeaves(i)
    BY <1>0, <1>5, PowerCutDoes
  <2>3. ASSUME NEW i \in Items PROVE NewAnchored(i)' /\ Kept(i)'
    <3>1. CutLeaves(i) /\ Kept(i)
      BY <2>2 DEF KeptInv
    <3>2. NewAnchored(i)'
      BY <3>1 DEF CutLeaves, NewAnchored
    <3>3. Kept(i)'
      BY <3>1 DEF CutLeaves, Kept, There
    <3>. QED
      BY <3>2, <3>3
  <2>. QED
    BY <2>1, <2>2, <2>3 DEF KeptInv, SourceThere, DestinationThere
<1>. QED
  BY <1>1, <1>2, <1>3, <1>4, <1>5 DEF Environment

-----------------------------------------------------------------------------
\* What every item is at first.
FirstItem(i) ==
    /\ fs.old[i] \in {{0}, Absent} /\ fs.new[i] = Absent
    /\ disk.old[i] = {fs.old[i]} /\ disk.new[i] = {Absent} /\ LeftNew(i) = {Absent}
    /\ i \notin loose /\ written[i] = IF fs.old[i] = Absent THEN Absent ELSE 0

LEMMA InitFiles == Init => StepType /\ FsType /\ WritesType /\ \A i \in Items : FirstItem(i)
<1>. SUFFICES ASSUME Init
     PROVE StepType /\ FsType /\ WritesType /\ \A i \in Items : FirstItem(i)
  OBVIOUS
<1>1. StepType
  BY StepsAreSteps DEF Init, StepType, Steps
<1>2. PICK there \in SUBSET Here :
         fs = [old |-> [i \in Items |-> IF i \in there THEN {0} ELSE Absent],
               new |-> [i \in Items |-> Absent],
               dirs |-> IF platform = "macos" THEN OldDirs ELSE {}]
  BY DEF Init
<1>3. 0 \in Stamps
  BY BoundsAssumption DEF Stamps
<1>4. {0} \in Contents /\ Absent \in Contents /\ {0} # Absent
  BY <1>3, AbsentAssumption DEF Contents
<1>5. fs.old \in [Items -> Contents] /\ fs.new \in [Items -> Contents]
      /\ fs.dirs \in SUBSET OldDirs /\ fs = [old |-> fs.old, new |-> fs.new, dirs |-> fs.dirs]
  BY <1>2, <1>4
<1>6. fs \in FileSystems
  BY <1>5 DEF FileSystems
<1>7. disk = [old |-> [i \in Items |-> {fs.old[i]}], new |-> [i \in Items |-> {fs.new[i]}],
              dirs |-> {fs.dirs}]
  BY DEF Init
<1>8. disk \in Disks
  <2>1. [i \in Items |-> {fs.old[i]}] \in [Items -> SUBSET Contents]
        /\ [i \in Items |-> {fs.new[i]}] \in [Items -> SUBSET Contents]
    BY <1>5
  <2>2. {fs.dirs} \in SUBSET SUBSET OldDirs
    BY <1>5
  <2>. QED
    BY <1>7, <2>1, <2>2 DEF Disks
<1>9. anchored \subseteq Items /\ loose = {}
  <2>1. CASE platform = "macos"
    BY <2>1 DEF Init, Here, Platforms, Items
  <2>2. CASE platform = "linux"
    BY <2>2 DEF Init, Here, Platforms, Items
  <2>. QED
    BY <1>1, <2>1, <2>2 DEF StepType, Platforms
<1>10. WritesType
  BY <1>3 DEF Init, WritesType
<1>11. ASSUME NEW i \in Items PROVE FirstItem(i)
  <2>1. fs.old[i] \in {{0}, Absent} /\ fs.new[i] = Absent
    BY <1>2
  <2>2. disk.old[i] = {fs.old[i]} /\ disk.new[i] = {Absent}
    BY <1>7, <2>1
  <2>3. written[i] = IF fs.old[i] = Absent THEN Absent ELSE 0
    BY DEF Init
  <2>. QED
    BY <1>9, <2>1, <2>2, <2>3 DEF FirstItem, LeftNew
<1>. QED
  BY <1>1, <1>6, <1>8, <1>9, <1>10, <1>11 DEF FsType

LEMMA InitKept == Init => KeptInv
<1>. SUFFICES ASSUME Init PROVE KeptInv
  OBVIOUS
<1>1. StepType /\ FsType /\ WritesType /\ pc = "idle"
  BY InitFiles DEF Init
<1>2. ASSUME NEW i \in Items PROVE NewAnchored(i) /\ Kept(i)
  BY InitFiles DEF FirstItem, NewAnchored, Kept, There
<1>. QED
  BY <1>1, <1>2 DEF KeptInv, SourceThere, DestinationThere

LEMMA NextKeeps == KeptInv /\ [Next]_vars => KeptInv'
<1>. SUFFICES ASSUME KeptInv, [Next]_vars PROVE KeptInv'
  OBVIOUS
<1>1. CASE Next
  BY <1>1, BeginKeeps, LayoutStepKeeps, EnvironmentKeeps DEF Next
<1>2. CASE UNCHANGED vars
  <2>1. UNCHANGED <<platform, fs, disk, anchored, loose, pc, step, clock, written>>
    BY <1>2 DEF vars, system, history, files
  <2>2. Current' = Current /\ Item' = Item /\ Steps' = Steps
    BY <2>1 DEF Item, Current, Steps
  <2>. QED
    BY <2>1, <2>2 DEF KeptInv, StepType, FsType, WritesType, SourceThere, DestinationThere,
       NewAnchored, Kept, LeftNew
<1>. QED
  BY <1>1, <1>2

\* To `layout` and its files, `upload-log` is a stutter.
LEMMA SupportStepsAreSteps == [SupportNext]_all => [Next]_vars
  BY DEF SupportNext, Layout, LayoutBegins, Others, UploadLog, Next, all

\* remove_empty_dir_step, nofollow::remove, the rename of move_step and its two syncs together
\* never take the last copy of a file that was ever written: it is at its old or at its new
\* place, and so it is after a power cut once its rename is synced into a directory that is on
\* the disk itself; for every list of choice files, every number of writes and of faults, and
\* with `upload-log` beside it.
THEOREM ItemIsKept == SupportSpec => []ItemKept
<1>1. SupportInit => KeptInv
  BY InitKept DEF SupportInit
<1>2. KeptInv /\ [SupportNext]_all => KeptInv'
  BY NextKeeps, SupportStepsAreSteps
<1>3. KeptInv => ItemKept
  BY DEF KeptInv, Kept, ItemKept
<1>. QED
  BY <1>1, <1>2, <1>3, PTL DEF SupportSpec

-----------------------------------------------------------------------------
(* The types, the last writes and the logs.                                 *)

Pcs == {"idle", "killed", "step", "check", "remove", "rename", "sync", "syncold"}

\* With KeptInv, the types of Relocate.
RestType ==
    /\ blocked \subseteq Items /\ pc \in Pcs
    /\ failed \subseteq Items \cup OldDirs /\ late \subseteq Items /\ stray \subseteq Items
    /\ faults \in 0 .. MaxFaults

\* A file is never without content; a directory of logs may be.
FilesHold(i) ==
    i # "logs" =>
        fs.old[i] # {} /\ fs.new[i] # {} /\ {} \notin disk.old[i] /\ {} \notin disk.new[i]

\* The last write of an item is where the current release reads it, if there is something.
Safe(old, new, i) ==
    written[i] # Absent /\ i \notin stray =>
        IF new # Absent THEN written[i] \in new ELSE old # Absent /\ written[i] \in old

\* What of a loose item survives a power cut has its last write.
SafeAfterCut(i) ==
    /\ i \notin loose => \A old \in disk.old[i], new \in LeftNew(i) : Safe(old, new, i)
    /\ i \in loose /\ i \notin stray =>
          /\ fs.old[i] = Absent
          /\ written[i] # Absent => \A c \in disk.old[i] \cup disk.new[i] :
                c # Absent => written[i] \in c

\* What the disk holds includes what there is, and what was never there is not on the disk.
OnDisk(i) ==
    /\ fs.old[i] \in disk.old[i] /\ fs.new[i] \in disk.new[i]
    /\ fs.new[i] = Absent => i \notin loose /\ disk.new[i] = {Absent}

Sound(i) == FilesHold(i) /\ Safe(fs.old[i], fs.new[i], i) /\ SafeAfterCut(i) /\ OnDisk(i)

\* Only a rename that is about to replace what was written since the check is not safe.
RenameSafe == pc = "rename" /\ Item # "logs" /\ fs.new[Item] # Absent => Item \in stray

\* What the steps so far were about is gone from the old place, or known not to be.
Gone(item) == fs.old[item] = Absent \/ item \in failed \cup late
Handled ==
    /\ ~Running => step = 1
    /\ Running => \A n \in 1 .. (step - 1) : Steps[n].op = "Move" => Gone(Steps[n].path)
    /\ pc \in {"sync", "syncold"} =>
          Current.op = "Move" /\ (fs.old[Item] = Absent \/ Item \in late)

LayoutInv ==
    KeptInv /\ RestType /\ (\A i \in Items : Sound(i)) /\ RenameSafe /\ Handled

-----------------------------------------------------------------------------
\* What the two requests are about.
Bundles == [migrate : {None} \cup Nat, updates : {None} \cup Nat]
Beginnings == [migrate : Nat, updates : {None} \cup Nat]
Announcements == [head : Nat, size : Nat]
UploadType ==
    upload \in [at : {"idle", "read", "post", "announcing", "put", "storing"},
                result : {"none", "Failed", "Uploaded", "Killed"},
                api : U!Schemes, url : U!Schemes \cup {None}, sends : {"nothing", "body"},
                headOn : SUBSET U!Schemes, bundleOn : SUBSET U!Schemes, redirected : SUBSET U!Schemes,
                began : Beginnings \cup {None}, bundle : Bundles \cup {None},
                announced : Announcements \cup {None}, stored : Bundles \cup {None}]

Bundled(u) ==
    u.bundle \in Bundles /\ u.began \in Beginnings
    /\ (u.bundle.migrate = None \/ u.bundle.migrate >= u.began.migrate)

Announced(u) == u.announced = U!Announce(u.bundle)

\* What upload-log knows when it acts on it: the bundle is made once, announced as it is and put
\* as it is, and with an https uploader only to an https URL.
UploadInv ==
    /\ UploadType /\ migrateLog \in 0 .. MaxLines
    /\ upload.at = "read" =>
          upload.began \in Beginnings /\ upload.began.migrate <= migrateLog
    /\ upload.at \notin {"idle", "read"} => Bundled(upload)
    /\ upload.at \in {"read", "post"} => upload.announced = None
    /\ upload.announced # None \/ upload.at \in {"put", "storing"} =>
          upload.bundle \in Bundles /\ Announced(upload) /\ upload.url \in U!Schemes
    /\ upload.stored # None =>
          /\ upload.at \in {"storing", "idle"}
          /\ upload.stored = upload.bundle /\ Announced(upload)
    /\ upload.result = "Uploaded" =>
          upload.at = "idle" /\ upload.stored # None /\ Bundled(upload)
    /\ upload.api = "https" =>
          /\ upload.at \in {"put", "storing"} => upload.url = "https"
          /\ "http" \in upload.headOn \cup upload.bundleOn => "http" \in upload.redirected

-----------------------------------------------------------------------------
(* The list of steps.                                                       *)

LEMMA SystemStepsParts ==
    /\ Len(SystemSteps) = Len(Choices) + 3 /\ Len(Choices) \in Nat
    /\ \A n \in 1 .. Len(Choices) : SystemSteps[n] = Move(Choices[n])
    /\ SystemSteps[Len(Choices) + 1] = Move("updates.log")
<1>. DEFINE choices == [n \in DOMAIN Choices |-> Move(Choices[n])]
<1>. DEFINE rest == << Move("updates.log"), [op |-> "RemoveEmptyDir", path |-> "gnosisvpn"],
                       [op |-> "RemoveTree", path |-> "updates"] >>
<1>1. Len(Choices) \in Nat /\ DOMAIN Choices = 1 .. Len(Choices)
  BY ChoicesAssumption
<1>2. \A n \in DOMAIN Choices : Move(Choices[n]) \in AStep
  BY DEF AStep, Items, SystemFiles, ChoiceFiles
<1>3. choices \in Seq(AStep) /\ Len(choices) = Len(Choices)
      /\ \A n \in 1 .. Len(Choices) : choices[n] = Move(Choices[n])
  BY <1>1, <1>2
<1>4. rest \in Seq(AStep) /\ Len(rest) = 3 /\ rest[1] = Move("updates.log")
  BY DEF AStep, Items, SystemFiles
<1>5. SystemSteps = choices \o rest
  BY DEF SystemSteps
<1>. HIDE DEF choices, rest
<1>6. /\ Len(choices \o rest) = Len(choices) + Len(rest)
      /\ \A n \in 1 .. (Len(choices) + Len(rest)) : (choices \o rest)[n] =
            IF n <= Len(choices) THEN choices[n] ELSE rest[n - Len(choices)]
  BY <1>3, <1>4, ConcatProperties, Zenon
<1>. QED
  BY <1>1, <1>3, <1>4, <1>5, <1>6

LEMMA FirstMoves == Steps[1].op = "Move" /\ Steps[1].path \in Items
<1>1. Steps[1].op = "Move"
  <2>1. CASE platform = "macos" /\ Len(Choices) = 0
    <3>1. Len(Choices) + 1 = 1
      BY <2>1
    <3>2. SystemSteps[1] = Move("updates.log")
      BY <3>1, SystemStepsParts
    <3>. QED
      BY <2>1, <3>2 DEF Steps, Move
  <2>2. CASE platform = "macos" /\ Len(Choices) # 0
    <3>1. 1 \in 1 .. Len(Choices)
      BY <2>2, SystemStepsParts
    <3>2. SystemSteps[1] = Move(Choices[1])
      BY <3>1, SystemStepsParts
    <3>. QED
      BY <2>2, <3>2 DEF Steps, Move
  <2>3. CASE platform # "macos"
    BY <2>3 DEF Steps, UserSteps, Move
  <2>. QED
    BY <2>1, <2>2, <2>3
<1>2. Steps[1] \in AStep
  BY StepsAreSteps, ElementOfSeq
<1>. QED
  BY <1>1, <1>2 DEF AStep, Move

LEMMA EveryItemIsMoved ==
    ASSUME platform \in DOMAIN Platforms, NEW i \in Here
    PROVE  \E n \in 1 .. Len(Steps) : Steps[n] = Move(i)
<1>1. CASE platform = "macos"
  <2>1. i \in SystemFiles /\ Steps = SystemSteps
    BY <1>1 DEF Here, Platforms, Steps
  <2>2. CASE i = "updates.log"
    BY <2>1, <2>2, SystemStepsParts
  <2>3. ASSUME NEW n \in DOMAIN Choices, i = Choices[n]
        PROVE  \E k \in 1 .. Len(Steps) : Steps[k] = Move(i)
    <3>1. n \in 1 .. Len(Choices)
      BY ChoicesAssumption
    <3>. QED
      BY <2>1, <2>3, <3>1, SystemStepsParts
  <2>. QED
    BY <2>1, <2>2, <2>3 DEF SystemFiles, ChoiceFiles
<1>2. CASE platform = "linux"
  <2>1. i \in UserItems /\ Steps = UserSteps
    BY <1>2 DEF Here, Platforms, Steps
  <2>. QED
    BY <2>1 DEF UserSteps, UserItems
<1>. QED
  BY <1>1, <1>2 DEF Platforms

LEMMA StepPaths ==
    ASSUME NEW n \in 1 .. Len(Steps)
    PROVE  /\ Steps[n].path \in Items \cup OldDirs
           /\ Steps[n].op = "Move" => Steps[n].path \in Items
<1>1. Steps[n] \in AStep
  BY StepsAreSteps, ElementOfSeq
<1>. QED
  BY <1>1 DEF AStep, Move, OldDirs

-----------------------------------------------------------------------------
(* What the actions do to the files.                                        *)

\* Absent is no content, and so is not the empty one.
LEMMA NoContentAbsent == Absent # {}
  BY AbsentAssumption DEF Stamps

LEMMA UntouchedSound ==
    ASSUME NEW i \in Items, Sound(i), Untouched(i), written'[i] = written[i],
           i \in stray' <=> i \in stray
    PROVE  Sound(i)'
<1>1. LeftNew(i)' = LeftNew(i)
  BY DEF Untouched, LeftNew
<1>2. FilesHold(i)' /\ OnDisk(i)'
  BY DEF Untouched, Sound, FilesHold, OnDisk
<1>3. ASSUME NEW o, NEW n PROVE Safe(o, n, i)' <=> Safe(o, n, i)
  BY DEF Safe
<1>4. Safe(fs.old[i], fs.new[i], i)'
  BY DEF Untouched, Sound, Safe
<1>5. SafeAfterCut(i)'
  BY <1>1, <1>3 DEF Untouched, Sound, SafeAfterCut
<1>. QED
  BY <1>2, <1>4, <1>5 DEF Sound

LEMMA FilesStay ==
    ASSUME LayoutInv, UNCHANGED <<fs, disk, anchored, loose, written, stray>>
    PROVE  \A i \in Items : Sound(i)'
<1>1. \A i \in Items : Untouched(i) /\ Sound(i)
  BY DEF Untouched, LayoutInv
<1>. QED
  BY <1>1, UntouchedSound

LEMMA FaultsBounded ==
    ASSUME faults \in 0 .. MaxFaults, Fault \/ NoFault
    PROVE  faults' \in 0 .. MaxFaults
  BY BoundsAssumption DEF Fault, NoFault

-----------------------------------------------------------------------------
(* The steps of the command.                                                *)

\* The step that ends here has its item gone, or listed as failed or as written meanwhile.
StepIsOver ==
    /\ Running /\ UNCHANGED late /\ failed \subseteq failed'
    /\ failed' \subseteq failed \cup {Item}
    /\ IF step < Len(Steps) THEN pc' = "step" /\ step' = step + 1 ELSE pc' = "idle" /\ step' = 1
    /\ Current.op = "Move" => fs'.old[Item] = Absent \/ Item \in failed' \cup late

GoneStaysGone == \A i \in Items : fs.old[i] = Absent => fs'.old[i] = Absent

LEMMA StepsSoFar ==
    ASSUME LayoutInv, StepIsOver, GoneStaysGone, NEW n \in 1 .. step, Steps[n].op = "Move"
    PROVE  fs'.old[Steps[n].path] = Absent \/ Steps[n].path \in failed' \cup late'
<1>1. step \in 1 .. Len(Steps) /\ Len(Steps) \in Nat
  BY StepsAreSteps DEF LayoutInv, KeptInv, StepType
<1>2. n \in 1 .. Len(Steps) /\ Steps[n].path \in Items
  BY <1>1, StepPaths
<1>3. CASE n = step
  BY <1>3 DEF StepIsOver, Current, Item
<1>4. CASE n # step
  <2>1. n \in 1 .. (step - 1)
    BY <1>1, <1>4
  <2>2. Gone(Steps[n].path)
    BY <2>1 DEF LayoutInv, Handled, StepIsOver
  <2>. QED
    BY <1>2, <2>2 DEF Gone, GoneStaysGone, StepIsOver
<1>. QED
  BY <1>3, <1>4

LEMMA OverHandled ==
    ASSUME LayoutInv, StepIsOver, GoneStaysGone, UNCHANGED platform
    PROVE  Handled'
<1>1. step \in 1 .. Len(Steps) /\ Steps' = Steps
  BY DEF LayoutInv, KeptInv, StepType, Steps
<1>2. CASE step < Len(Steps)
  <2>1. pc' = "step" /\ step' = step + 1 /\ 1 .. (step' - 1) = 1 .. step
    BY <1>1, <1>2 DEF StepIsOver
  <2>2. \A n \in 1 .. (step' - 1) : Steps[n].op = "Move" =>
           fs'.old[Steps[n].path] = Absent \/ Steps[n].path \in failed' \cup late'
    BY <2>1, StepsSoFar
  <2>. QED
    BY <1>1, <2>1, <2>2 DEF Handled, Gone, Running
<1>3. CASE ~(step < Len(Steps))
  BY <1>3 DEF StepIsOver, Handled, Running
<1>. QED
  BY <1>2, <1>3

LEMMA RunHandled ==
    ASSUME LayoutInv, StepIsOver, GoneStaysGone, pc' = "idle", NEW i \in Here
    PROVE  fs'.old[i] = Absent \/ i \in failed' \cup late'
<1>1. PICK n \in 1 .. Len(Steps) : Steps[n] = Move(i)
  BY EveryItemIsMoved DEF LayoutInv, KeptInv, StepType
<1>2. step = Len(Steps)
  BY StepsAreSteps DEF StepIsOver, LayoutInv, KeptInv, StepType
<1>. QED
  BY <1>1, <1>2, StepsSoFar DEF Move

LEMMA DoneIsOver ==
    ASSUME LayoutInv, Running, NEW problems, problems \subseteq {Item}, Done(problems),
           Current.op = "Move" => fs'.old[Item] = Absent \/ Item \in problems \cup late
    PROVE  StepIsOver
  BY DEF Done, StepIsOver

\* A change of one item leaves the others sound.
LEMMA ItemSound ==
    ASSUME LayoutInv, NEW item \in Items, UNCHANGED <<written, stray>>, Sound(item)',
           \A i \in Items : i # item => Untouched(i)
    PROVE  \A i \in Items : Sound(i)'
<1>. SUFFICES ASSUME NEW i \in Items, i # item PROVE Sound(i)'
  OBVIOUS
<1>1. Sound(i) /\ Untouched(i)
  BY DEF LayoutInv
<1>. QED
  BY <1>1, UntouchedSound

LEMMA RestsType ==
    ASSUME FsType, Item \in Items, fs.old[Item] # Absent
    PROVE  Rests \in SUBSET Contents
<1>1. fs.old[Item] \subseteq Stamps
  BY FileParts DEF Contents
<1>. QED
  BY <1>1 DEF Rests, Contents

\* The old copy goes, or part of it, where the new one is.
LEMMA RemovalSound ==
    ASSUME LayoutInv, NEW item \in Items, fs.new[item] # Absent, fs.old[item] # Absent,
           NEW c \in Contents, NEW left \in SUBSET Contents, c \in left,
           item # "logs" => left = {Absent},
           OldBecomes(item, c, left), UNCHANGED <<written, stray>>
    PROVE  (\A i \in Items : Sound(i)') /\ GoneStaysGone /\ fs'.old[item] = c
<1>1. /\ fs'.new = fs.new /\ disk'.new = disk.new /\ LeftNew(item)' = LeftNew(item)
      /\ fs'.old[item] = c /\ disk'.old[item] = disk.old[item] \cup left
      /\ UNCHANGED <<anchored, loose>>
      /\ \A i \in Items : i # item => Untouched(i)
  BY OldBecomesDoes DEF LayoutInv, KeptInv, LeftNew
<1>2. Sound(item) /\ NewAnchored(item)
  BY DEF LayoutInv, KeptInv
<1>3. FilesHold(item)' /\ OnDisk(item)'
  BY <1>1, <1>2, NoContentAbsent DEF FilesHold, OnDisk, Sound
<1>4. Safe(fs.old[item], fs.new[item], item)'
  BY <1>1, <1>2 DEF Safe, Sound
<1>5. SafeAfterCut(item)'
  <2>1. item \notin loose => \A n \in LeftNew(item) : n # Absent
    BY <1>2 DEF NewAnchored
  <2>2. item \notin loose => \A o, n : n \in LeftNew(item) => Safe(o, n, item)
    BY <1>2, <2>1 DEF Sound, SafeAfterCut, OnDisk, Safe
  <2>3. item \in loose => item \in stray
    BY <1>2 DEF Sound, SafeAfterCut
  <2>4. \A o, n : Safe(o, n, item)' <=> Safe(o, n, item)
    BY DEF Safe
  <2>. QED
    BY <1>1, <2>2, <2>3, <2>4 DEF SafeAfterCut
<1>6. Sound(item)'
  BY <1>3, <1>4, <1>5 DEF Sound
<1>7. GoneStaysGone
  BY <1>1 DEF GoneStaysGone, Untouched
<1>. QED
  BY <1>1, <1>6, <1>7, ItemSound

\* Every step of the command: what it leaves alone, and whether the step it is in is over.
StepDoes ==
    /\ UNCHANGED <<system, history>> /\ GoneStaysGone /\ \A i \in Items : Sound(i)'
    /\ \/ StepIsOver
       \/ /\ UNCHANGED <<step, report>> /\ Running
          /\ \/ pc' = "check" /\ UNCHANGED fs
             \/ pc' \in {"remove", "rename"} /\ UNCHANGED fs
                /\ (pc' = "rename" => fs.new[Item] = Absent)
             \/ pc' \in {"sync", "syncold"} /\ Current.op = "Move"
                /\ (fs'.old[Item] = Absent \/ Item \in late)

LEMMA LayoutStepDoes ==
    ASSUME LayoutInv, LayoutStep
    PROVE  StepDoes
<1>0. /\ FsType /\ (Current.op = "Move" => Item \in Items)
      /\ (pc \in {"check", "remove", "rename"} => Current.op = "Move" /\ fs.old[Item] # Absent)
      /\ (pc \in {"remove", "sync", "syncold"} => fs.new[Item] # Absent)
      /\ (pc \in {"sync", "syncold"} =>
             Current.op = "Move" /\ (fs.old[Item] = Absent \/ Item \in late))
  BY MovesItem DEF LayoutInv, KeptInv, SourceThere, DestinationThere, Handled
<1>1. CASE FindNothing
  <2>1. StepIsOver
    BY <1>1, DoneIsOver DEF FindNothing, At, Running, files
  <2>2. UNCHANGED <<system, files, history>>
    BY <1>1 DEF FindNothing
  <2>3. \A i \in Items : Sound(i)'
    BY <2>2, FilesStay DEF files, history
  <2>. QED
    BY <2>1, <2>2, <2>3 DEF StepDoes, GoneStaysGone, files
<1>2. CASE FindBlocked \/ RenameRefused \/ StepFails
  <2>1. StepIsOver
    BY <1>2, DoneIsOver DEF FindBlocked, RenameRefused, StepFails, At, Running
  <2>2. UNCHANGED <<system, files, history>>
    BY <1>2 DEF FindBlocked, RenameRefused, StepFails
  <2>3. \A i \in Items : Sound(i)'
    BY <2>2, FilesStay DEF files, history
  <2>. QED
    BY <2>1, <2>2, <2>3 DEF StepDoes, GoneStaysGone, files
<1>3. CASE FindSource \/ CheckDestination
  <2>1. UNCHANGED <<system, files, history>>
    BY <1>3 DEF FindSource, CheckDestination
  <2>2. \A i \in Items : Sound(i)'
    BY <2>1, FilesStay DEF files, history
  <2>3. UNCHANGED <<step, report>> /\ Running /\ UNCHANGED fs
        /\ (pc' = "check" \/ (pc' \in {"remove", "rename"} /\ (pc' = "rename" => fs.new[Item] = Absent)))
    BY <1>3 DEF FindSource, CheckDestination, Inside, Running, At, files
  <2>. QED
    BY <2>1, <2>2, <2>3 DEF StepDoes, GoneStaysGone, files
<1>4. CASE RemoveStale
  <2>1. Item \in Items /\ fs.new[Item] # Absent /\ fs.old[Item] # Absent
    BY <1>0, <1>4 DEF RemoveStale, At
  <2>. PICK item \in Items : item = Item
    BY <2>1
  <2>2. Rests \cup {Absent} \in SUBSET Contents /\ (item # "logs" => Rests \cup {Absent} = {Absent})
    BY <1>0, <2>1, RestsType, AbsentContent DEF Rests
  <2>3. OldBecomes(item, Absent, Rests \cup {Absent}) /\ UNCHANGED <<system, history>>
    BY <1>4 DEF RemoveStale
  <2>4. (\A i \in Items : Sound(i)') /\ GoneStaysGone /\ fs'.old[item] = Absent
    BY <2>1, <2>2, <2>3, RemovalSound, AbsentContent DEF history
  <2>5. StepIsOver
    BY <1>4, <2>4, DoneIsOver DEF RemoveStale, At, Running
  <2>. QED
    BY <2>3, <2>4, <2>5 DEF StepDoes
<1>5. CASE RemoveHalf
  <2>1. Item \in Items /\ fs.new[Item] # Absent /\ fs.old[Item] # Absent /\ Item = "logs"
    BY <1>0, <1>5 DEF RemoveHalf, At
  <2>. PICK item \in Items : item = Item
    BY <2>1
  <2>2. Rests \in SUBSET Contents
    BY <1>0, <2>1, RestsType
  <2>3. PICK c \in Rests : OldBecomes(item, c, Rests)
    BY <1>5 DEF RemoveHalf
  <2>4. (\A i \in Items : Sound(i)') /\ GoneStaysGone
    BY <1>5, <2>1, <2>2, <2>3, RemovalSound DEF history, RemoveHalf
  <2>5. StepIsOver
    BY <1>5, DoneIsOver DEF RemoveHalf, At, Running
  <2>. QED
    BY <1>5, <2>4, <2>5 DEF StepDoes, RemoveHalf
<1>6. CASE RenameAcross
  <2>1. Item \in Items /\ fs.old[Item] # Absent /\ Current.op = "Move" /\ pc = "rename"
    BY <1>0, <1>6 DEF RenameAcross, At
  <2>. PICK item \in Items : item = Item
    BY <2>1
  <2>2. /\ UNCHANGED <<system, history, step, report>> /\ pc' = "sync" /\ Running
    BY <1>6 DEF RenameAcross, Inside, Running, At
  <2>3. /\ loose' = loose \cup {item} /\ fs'.new[item] = fs.old[item] /\ fs'.old[item] = Absent
        /\ disk'.new[item] = disk.new[item] \cup {fs.old[item]}
        /\ disk'.old[item] = disk.old[item] \cup {Absent}
        /\ \A i \in Items : i # item => Untouched(i)
    BY <1>0, <1>6, <2>1, RenameDoes
  <2>4. Sound(item)
    BY DEF LayoutInv
  <2>5. fs.new[item] # Absent => item \in stray \/ written[item] = Absent
    <3>1. CASE item # "logs"
      BY <2>1, <3>1 DEF LayoutInv, RenameSafe
    <3>2. CASE item = "logs" /\ fs.new[item] # Absent
      <4>1. fs.new[item] = {}
        BY <1>6, <3>2 DEF RenameAcross, Replaceable
      <4>. QED
        BY <2>4, <4>1, <3>2 DEF Sound, Safe
    <3>. QED
      BY <3>1, <3>2
  <2>6. item \notin stray /\ written[item] # Absent =>
           /\ written[item] \in fs.old[item]
           /\ \A c \in disk.old[item] \cup disk.new[item] : c # Absent => written[item] \in c
    <3>. SUFFICES ASSUME item \notin stray, written[item] # Absent
         PROVE  /\ written[item] \in fs.old[item]
                /\ \A c \in disk.old[item] \cup disk.new[item] : c # Absent => written[item] \in c
      OBVIOUS
    <3>1. fs.new[item] = Absent
      BY <2>5
    <3>2. written[item] \in fs.old[item]
      BY <2>4, <3>1 DEF Sound, Safe
    <3>3. item \notin loose /\ disk.new[item] = {Absent} /\ Absent \in LeftNew(item)
      BY <2>4, <3>1 DEF Sound, OnDisk, LeftNew
    <3>4. \A old \in disk.old[item] : Safe(old, Absent, item)
      BY <2>4, <3>3 DEF Sound, SafeAfterCut
    <3>. QED
      BY <3>2, <3>3, <3>4 DEF Safe
  <2>7. FilesHold(item)' /\ OnDisk(item)'
    BY <2>1, <2>3, <2>4, NoContentAbsent DEF FilesHold, OnDisk, Sound
  <2>8. Safe(fs.old[item], fs.new[item], item)'
    BY <2>1, <2>2, <2>3, <2>6 DEF Safe, history
  <2>9. SafeAfterCut(item)'
    BY <2>2, <2>3, <2>6 DEF SafeAfterCut, history
  <2>10. \A i \in Items : Sound(i)'
    <3>1. Sound(item)'
      BY <2>7, <2>8, <2>9 DEF Sound
    <3>. QED
      BY <2>2, <2>3, <3>1, ItemSound DEF history
  <2>11. GoneStaysGone
    BY <2>3 DEF GoneStaysGone, Untouched
  <2>. QED
    BY <2>1, <2>2, <2>3, <2>10, <2>11 DEF StepDoes
<1>7. CASE SyncNew
  <2>1. Item \in Items /\ fs.new[Item] # Absent /\ Current.op = "Move"
        /\ (fs.old[Item] = Absent \/ Item \in late)
    BY <1>0, <1>7 DEF SyncNew, At
  <2>. PICK item \in Items : item = Item
    BY <2>1
  <2>2. /\ UNCHANGED <<system, history, step, report>> /\ pc' = "syncold" /\ Running
    BY <1>7 DEF SyncNew, Inside, Running, At
  <2>3. /\ UNCHANGED <<fs, anchored>> /\ disk'.new[item] = {fs.new[item]}
        /\ loose' = (IF item \in anchored THEN loose \ {item} ELSE loose)
        /\ disk'.old[item] = disk.old[item]
        /\ \A i \in Items : i # item => Untouched(i)
    BY <1>0, <1>7, <2>1, SyncNewDoes
  <2>4. Sound(item) /\ NewAnchored(item)
    BY DEF LayoutInv, KeptInv
  <2>5. item \notin loose' => item \in anchored
    BY <2>1, <2>3, <2>4 DEF NewAnchored, LeftNew
  <2>6. FilesHold(item)' /\ OnDisk(item)' /\ Safe(fs.old[item], fs.new[item], item)'
    BY <2>1, <2>2, <2>3, <2>4 DEF FilesHold, OnDisk, Sound, Safe, history
  <2>7. SafeAfterCut(item)'
    <3>1. CASE item \notin loose'
      <4>1. LeftNew(item)' = {fs.new[item]}
        BY <2>3, <2>5, <3>1 DEF LeftNew
      <4>2. \A o : Safe(o, fs.new[item], item)'
        BY <2>1, <2>2, <2>3, <2>4 DEF Sound, Safe, history
      <4>. QED
        BY <2>3, <3>1, <4>1, <4>2 DEF SafeAfterCut
    <3>2. CASE item \in loose'
      <4>1. item \in loose
        BY <2>3, <3>2
      <4>2. fs.new[item] \in disk.new[item]
        BY <2>4 DEF Sound, OnDisk
      <4>. QED
        BY <2>2, <2>3, <2>4, <3>2, <4>1, <4>2 DEF SafeAfterCut, Sound, history
    <3>. QED
      BY <3>1, <3>2
  <2>8. \A i \in Items : Sound(i)'
    <3>1. Sound(item)'
      BY <2>6, <2>7 DEF Sound
    <3>. QED
      BY <2>2, <2>3, <3>1, ItemSound DEF history
  <2>. QED
    BY <2>1, <2>2, <2>3, <2>8 DEF StepDoes, GoneStaysGone
<1>8. CASE SyncOld
  <2>1. Item \in Items /\ (fs.old[Item] = Absent \/ Item \in late)
    BY <1>0, <1>8 DEF SyncOld, At
  <2>. PICK item \in Items : item = Item
    BY <2>1
  <2>2. /\ UNCHANGED <<fs, anchored, loose>> /\ disk'.old[item] = {fs.old[item]}
        /\ disk'.new[item] = disk.new[item] /\ LeftNew(item)' = LeftNew(item)
        /\ \A i \in Items : i # item => Untouched(i)
    BY <1>0, <1>8, <2>1, SyncOldDoes DEF LeftNew
  <2>3. UNCHANGED <<system, history>> /\ Sound(item)
    BY <1>8 DEF SyncOld, LayoutInv
  <2>4. FilesHold(item)' /\ OnDisk(item)' /\ Safe(fs.old[item], fs.new[item], item)'
    BY <2>2, <2>3 DEF FilesHold, OnDisk, Sound, Safe, history
  <2>5. SafeAfterCut(item)'
    <3>1. fs.old[item] \in disk.old[item]
      BY <2>3 DEF Sound, OnDisk
    <3>2. \A o, n : Safe(o, n, item)' <=> Safe(o, n, item)
      BY <2>3 DEF Safe, history
    <3>. QED
      BY <2>2, <2>3, <3>1, <3>2 DEF SafeAfterCut, Sound, history
  <2>6. \A i \in Items : Sound(i)'
    <3>1. Sound(item)'
      BY <2>4, <2>5 DEF Sound
    <3>. QED
      BY <2>2, <2>3, <3>1, ItemSound DEF history
  <2>7. StepIsOver
    BY <1>8, <2>1, <2>2, DoneIsOver DEF SyncOld, At, Running
  <2>. QED
    BY <2>2, <2>3, <2>6, <2>7 DEF StepDoes, GoneStaysGone
<1>9. CASE RemoveTree \/ RemoveEmptyDir
  <2>1. Current.op # "Move" /\ Running /\ Done({}) /\ UNCHANGED <<system, history>>
    BY <1>9 DEF RemoveTree, RemoveEmptyDir, At, Running
  <2>2. StepIsOver
    BY <2>1, DoneIsOver
  <2>3. fs.dirs \ {Item} \in SUBSET OldDirs
    BY <1>0, FileParts
  <2>4. \A i \in Items : Untouched(i)
    <3>1. CASE DirsBecome(fs.dirs \ {Item})
      BY <1>0, <2>3, <3>1, DirsBecomeDoes
    <3>2. CASE UNCHANGED files
      BY <3>2 DEF files, Untouched
    <3>. QED
      BY <1>9, <3>1, <3>2 DEF RemoveTree, RemoveEmptyDir
  <2>5. (\A i \in Items : Sound(i)') /\ GoneStaysGone
    BY <2>1, <2>4, UntouchedSound DEF LayoutInv, GoneStaysGone, Untouched, history
  <2>. QED
    BY <2>1, <2>2, <2>5 DEF StepDoes
<1>. QED
  BY <1>1, <1>2, <1>3, <1>4, <1>5, <1>6, <1>7, <1>8, <1>9 DEF LayoutStep

LEMMA LayoutStepSafe ==
    ASSUME LayoutInv, LayoutStep
    PROVE  LayoutInv'
<1>0. StepDoes
  BY LayoutStepDoes
<1>1. KeptInv' /\ StepType' /\ StepType
  BY LayoutStepKeeps DEF LayoutInv, KeptInv
<1>2. UNCHANGED <<platform, blocked, clock, written, stray>> /\ Steps' = Steps
      /\ GoneStaysGone /\ \A i \in Items : Sound(i)'
  BY <1>0 DEF StepDoes, system, history, Steps
<1>4. faults' \in 0 .. MaxFaults
  BY FaultsBounded DEF LayoutInv, RestType, LayoutStep, FindNothing, FindBlocked, FindSource,
     CheckDestination, RemoveStale, RemoveHalf, RenameAcross, RenameRefused, SyncNew, SyncOld,
     StepFails, RemoveTree, RemoveEmptyDir
<1>5. CASE StepIsOver
  <2>1. Item \in Items \cup OldDirs
    BY <1>1, StepPaths DEF StepType, Item, Current
  <2>2. RestType'
    BY <1>2, <1>4, <1>5, <2>1 DEF StepIsOver, LayoutInv, RestType, Pcs
  <2>3. Handled'
    BY <1>2, <1>5, OverHandled
  <2>4. pc' # "rename"
    BY <1>5 DEF StepIsOver
  <2>. QED
    BY <1>1, <1>2, <2>2, <2>3, <2>4 DEF LayoutInv, RenameSafe
<1>6. CASE ~StepIsOver
  <2>1. /\ UNCHANGED <<step, failed, late>> /\ Running
        /\ \/ pc' = "check" /\ UNCHANGED fs
           \/ pc' \in {"remove", "rename"} /\ UNCHANGED fs
              /\ (pc' = "rename" => fs.new[Item] = Absent)
           \/ pc' \in {"sync", "syncold"} /\ Current.op = "Move"
              /\ (fs'.old[Item] = Absent \/ Item \in late)
    BY <1>0, <1>6 DEF report, StepDoes
  <2>2. RestType'
    BY <1>2, <1>4, <2>1 DEF LayoutInv, RestType, Pcs
  <2>3. Current' = Current /\ Item' = Item
    BY <1>2, <2>1 DEF Current, Item
  <2>4. Handled'
    <3>1. ASSUME NEW n \in 1 .. (step - 1), Steps[n].op = "Move"
          PROVE  fs'.old[Steps[n].path] = Absent \/ Steps[n].path \in failed \cup late
      <4>1. n \in 1 .. Len(Steps) /\ Gone(Steps[n].path)
        BY <1>1, <2>1, <3>1, StepsAreSteps DEF StepType, LayoutInv, Handled
      <4>. QED
        BY <1>2, <3>1, <4>1, StepPaths DEF GoneStaysGone, Gone
    <3>. QED
      BY <1>2, <2>1, <2>3, <3>1 DEF Handled, Gone, Running
  <2>5. pc' = "rename" => fs'.new[Item'] = Absent
    BY <2>1, <2>3
  <2>. QED
    BY <1>1, <1>2, <2>2, <2>4, <2>5 DEF LayoutInv, RenameSafe
<1>. QED
  BY <1>5, <1>6

-----------------------------------------------------------------------------
(* The world around a run.                                                  *)

LEMMA BeginSafe == ASSUME LayoutInv, Begin PROVE LayoutInv'
<1>1. /\ KeptInv' /\ UNCHANGED <<platform, blocked, fs, disk, anchored, loose, step, clock>>
      /\ UNCHANGED <<written, stray>>
      /\ pc' = "step" /\ failed' = {} /\ late' = {} /\ step = 1
  BY BeginKeeps DEF LayoutInv, Begin, system, history, Handled, files
<1>2. RestType'
  BY <1>1, FaultsBounded DEF Begin, LayoutInv, RestType, Pcs
<1>3. (\A i \in Items : Sound(i)') /\ RenameSafe'
  BY <1>1, FilesStay DEF RenameSafe
<1>4. Handled'
  BY <1>1 DEF Handled, Running
<1>. QED
  BY <1>1, <1>2, <1>3, <1>4 DEF LayoutInv

\* A write to one place of an item, the other and the other items left as they are.
LEMMA WriteSafe ==
    ASSUME LayoutInv, NEW item \in Items, Write(item), KeptInv', Sound(item)',
           \/ /\ fs'.old[item] = fs.old[item] /\ late' = late
              /\ stray' = IF Between(item) /\ item # "logs" THEN stray \cup {item}
                          ELSE stray \ {item}
           \/ /\ fs'.new[item] = fs.new[item]
              /\ late' = (IF Running THEN late \cup {item} ELSE late)
              /\ stray' = IF fs.new[item] = Absent THEN stray \ {item} ELSE stray \cup {item},
           \A j \in Items : j # item => Untouched(j)
    PROVE  LayoutInv'
<1>1. /\ UNCHANGED <<platform, blocked, pc, step, failed>> /\ NoFault /\ Steps' = Steps
      /\ Current' = Current /\ Item' = Item
      /\ written' = [written EXCEPT ![item] = clock'] /\ written \in [Items -> Stamps \cup {Absent}]
  BY DEF Write, system, Steps, Current, Item, LayoutInv, KeptInv, WritesType
<1>2. /\ late \subseteq late' /\ late' \subseteq late \cup {item}
      /\ stray' \subseteq stray \cup {item} /\ stray \ {item} \subseteq stray'
  OBVIOUS
<1>3. RestType'
  BY <1>1, <1>2, FaultsBounded DEF LayoutInv, RestType
<1>4. \A i \in Items : Sound(i)'
  <2>. SUFFICES ASSUME NEW i \in Items, i # item PROVE Sound(i)'
    OBVIOUS
  <2>1. Sound(i) /\ written'[i] = written[i] /\ (i \in stray' <=> i \in stray)
    BY <1>1, <1>2 DEF LayoutInv
  <2>. QED
    BY <2>1, UntouchedSound
<1>5. RenameSafe'
  <2>. SUFFICES ASSUME pc = "rename", Item # "logs", fs'.new[Item] # Absent PROVE Item \in stray'
    BY <1>1 DEF RenameSafe
  <2>1. Item \in Items
    BY MovesItem DEF LayoutInv, KeptInv, SourceThere
  <2>2. CASE Item = item
    BY <2>2 DEF Between, LayoutInv, RenameSafe
  <2>3. CASE Item # item
    BY <1>2, <2>1, <2>3 DEF LayoutInv, RenameSafe, Untouched
  <2>. QED
    BY <2>2, <2>3
<1>6. ASSUME NEW i \in Items, Running, fs.old[i] = Absent \/ i \in failed \cup late
      PROVE  fs'.old[i] = Absent \/ i \in failed' \cup late'
  BY <1>1, <1>2, <1>6 DEF Untouched
<1>7. Handled'
  <2>1. ASSUME NEW k \in 1 .. (step - 1), Running, Steps[k].op = "Move"
        PROVE  fs'.old[Steps[k].path] = Absent \/ Steps[k].path \in failed' \cup late'
    <3>1. k \in 1 .. Len(Steps) /\ Gone(Steps[k].path)
      BY <2>1, StepsAreSteps DEF LayoutInv, KeptInv, StepType, Handled
    <3>. QED
      BY <1>6, <2>1, <3>1, StepPaths DEF Gone
  <2>2. ASSUME pc \in {"sync", "syncold"}
        PROVE  Current.op = "Move" /\ (fs'.old[Item] = Absent \/ Item \in late')
    <3>1. Current.op = "Move" /\ (fs.old[Item] = Absent \/ Item \in late) /\ Running
      BY <2>2 DEF LayoutInv, Handled, Running
    <3>2. Item \in Items
      BY <3>1, MovesItem DEF LayoutInv, KeptInv
    <3>. QED
      BY <1>2, <3>1, <3>2 DEF Untouched
  <2>3. Running' = Running
    BY <1>1 DEF Running
  <2>. QED
    BY <1>1, <2>1, <2>2, <2>3 DEF LayoutInv, Handled, Gone
<1>. QED
  BY <1>3, <1>4, <1>5, <1>7 DEF LayoutInv

LEMMA EnvironmentSafe ==
    ASSUME LayoutInv, Environment
    PROVE  LayoutInv'
<1>0. KeptInv /\ KeptInv' /\ StepType /\ FsType /\ WritesType
  BY EnvironmentKeeps DEF LayoutInv, KeptInv
<1>1. ASSUME NEW i \in Items, CurrentWrites(i)
      PROVE  LayoutInv'
  <2>. DEFINE c == Written(fs.new[i], i, clock')
  <2>1. clock' \in Stamps /\ written' = [written EXCEPT ![i] = clock'] /\ Write(i)
    BY <1>0, <1>1, WriteCounts DEF CurrentWrites
  <2>2. c \in Contents \ {Absent} /\ c # {} /\ clock' \in c
    BY <1>0, <2>1, FileParts, WrittenContent
  <2>3. /\ NewSettles(i, c) /\ late' = late
        /\ stray' = IF Between(i) /\ i # "logs" THEN stray \cup {i} ELSE stray \ {i}
    BY <1>1 DEF CurrentWrites
  <2>. HIDE DEF c
  <2>4. /\ fs'.old = fs.old /\ disk'.old = disk.old /\ fs'.new[i] = c /\ disk'.new[i] = {c}
        /\ LeftNew(i)' = {c} /\ i \notin loose' /\ \A j \in Items : j # i => Untouched(j)
    BY <1>0, <2>2, <2>3, NewSettlesDoes
  <2>5. Sound(i)'
    <3>1. Sound(i) /\ written'[i] = clock'
      BY <1>0, <2>1 DEF LayoutInv, WritesType
    <3>2. FilesHold(i)' /\ OnDisk(i)'
      BY <2>2, <2>4, <3>1 DEF Sound, FilesHold, OnDisk
    <3>3. Safe(fs.old[i], fs.new[i], i)'
      BY <2>2, <2>4, <3>1 DEF Safe
    <3>4. SafeAfterCut(i)'
      BY <2>2, <2>4, <3>1 DEF Safe, SafeAfterCut
    <3>. QED
      BY <3>2, <3>3, <3>4 DEF Sound
  <2>. QED
    BY <1>0, <2>1, <2>3, <2>4, <2>5, WriteSafe
<1>2. ASSUME NEW i \in Items, PreviousWrites(i)
      PROVE  LayoutInv'
  <2>1. clock' \in Stamps /\ written' = [written EXCEPT ![i] = clock'] /\ Write(i)
    BY <1>0, <1>2, WriteCounts DEF PreviousWrites
  <2>2. /\ late' = (IF Running THEN late \cup {i} ELSE late)
        /\ stray' = IF fs.new[i] = Absent THEN stray \ {i} ELSE stray \cup {i}
    BY <1>2 DEF PreviousWrites
  <2>3. /\ fs'.new = fs.new /\ disk'.new = disk.new /\ UNCHANGED <<anchored, loose>>
        /\ LeftNew(i)' = LeftNew(i)
        /\ fs'.old[i] \in Contents \ {Absent} /\ fs'.old[i] # {} /\ clock' \in fs'.old[i]
        /\ disk'.old[i] = {fs'.old[i]} /\ \A j \in Items : j # i => Untouched(j)
    BY <1>0, <1>2, <2>1, PreviousWritesDoes DEF LeftNew
  <2>4. Sound(i)'
    <3>1. Sound(i) /\ written'[i] = clock'
      BY <1>0, <2>1 DEF LayoutInv, WritesType
    <3>2. FilesHold(i)' /\ OnDisk(i)'
      BY <2>3, <3>1 DEF Sound, FilesHold, OnDisk
    <3>3. Safe(fs.old[i], fs.new[i], i)'
      BY <2>2, <2>3, <3>1 DEF Safe
    <3>4. SafeAfterCut(i)'
      <4>1. CASE fs.new[i] = Absent
        <5>1. i \notin loose /\ disk.new[i] = {Absent} /\ LeftNew(i) = {Absent}
          BY <3>1, <4>1 DEF Sound, OnDisk, LeftNew
        <5>. QED
          BY <2>3, <3>1, <5>1 DEF Safe, SafeAfterCut
      <4>2. CASE fs.new[i] # Absent
        BY <2>2, <4>2 DEF Safe, SafeAfterCut
      <4>. QED
        BY <4>1, <4>2
    <3>. QED
      BY <3>2, <3>3, <3>4 DEF Sound
  <2>. QED
    BY <1>0, <2>1, <2>2, <2>3, <2>4, WriteSafe
<1>3. CASE CurrentMakesLogs
  <2>1. /\ UNCHANGED <<platform, blocked, pc, step, failed, late, clock, written>> /\ NoFault
        /\ fs.new["logs"] = Absent /\ NewSettles("logs", {})
        /\ stray' = IF fs.old["logs"] = Absent THEN stray ELSE stray \cup {"logs"}
    BY <1>3 DEF CurrentMakesLogs, system, report
  <2>2. "logs" \in Items /\ {} \in Contents
    BY DEF Items, UserItems, Contents
  <2>3. /\ fs'.old = fs.old /\ fs'.new["logs"] = {} /\ LeftNew("logs")' = {{}}
        /\ disk'.old = disk.old /\ disk'.new["logs"] = {{}} /\ "logs" \notin loose'
        /\ \A j \in Items : j # "logs" => Untouched(j)
    BY <1>0, <2>1, <2>2, NewSettlesDoes
  <2>4. Sound("logs")'
    <3>1. Sound("logs")
      BY <2>2 DEF LayoutInv
    <3>2. "logs" \in stray' \/ written["logs"] = Absent
      BY <2>1, <3>1 DEF Sound, Safe
    <3>3. FilesHold("logs")' /\ OnDisk("logs")'
      BY <2>3, <3>1, NoContentAbsent DEF Sound, FilesHold, OnDisk
    <3>. QED
      BY <2>1, <2>3, <3>2, <3>3 DEF Sound, Safe, SafeAfterCut
  <2>5. \A i \in Items : Sound(i)'
    <3>. SUFFICES ASSUME NEW i \in Items, i # "logs" PROVE Sound(i)'
      BY <2>4
    <3>1. Sound(i) /\ written'[i] = written[i] /\ (i \in stray' <=> i \in stray)
      BY <2>1 DEF LayoutInv
    <3>. QED
      BY <2>3, <3>1, UntouchedSound
  <2>6. Current' = Current /\ Item' = Item /\ Steps' = Steps
    BY <2>1 DEF Current, Item, Steps
  <2>7. RenameSafe'
    <3>1. pc = "rename" => Item \in Items
      BY MovesItem DEF LayoutInv, KeptInv, SourceThere
    <3>2. stray \subseteq stray'
      BY <2>1
    <3>. QED
      BY <2>1, <2>3, <2>6, <3>1, <3>2 DEF LayoutInv, RenameSafe, Untouched
  <2>8. Handled'
    BY <2>1, <2>3, <2>6 DEF LayoutInv, Handled, Gone, Running
  <2>9. RestType'
    BY <2>1, <2>2, FaultsBounded DEF LayoutInv, RestType
  <2>. QED
    BY <1>0, <2>5, <2>7, <2>8, <2>9 DEF LayoutInv
<1>4. CASE Killed \/ PowerCut
  <2>1. /\ UNCHANGED <<platform, blocked, failed, late, clock, stray>> /\ Fault
        /\ pc' = "killed" /\ step' = 1
    BY <1>4 DEF Killed, PowerCut, system, report, history
  <2>2. RestType'
    BY <2>1, FaultsBounded DEF LayoutInv, RestType, Pcs
  <2>3. RenameSafe' /\ Handled'
    BY <2>1 DEF RenameSafe, Handled, Running
  <2>4. CASE Killed
    <3>1. UNCHANGED <<fs, disk, anchored, loose, written, stray>>
      BY <2>4 DEF Killed, files, history
    <3>. QED
      BY <1>0, <2>2, <2>3, <3>1, FilesStay DEF LayoutInv
  <2>5. CASE PowerCut
    <3>1. ASSUME NEW i \in Items PROVE Sound(i)'
      <4>1. CutLeaves(i) /\ Sound(i)
        BY <1>0, <2>5, PowerCutDoes DEF LayoutInv
      <4>2. fs'.old[i] \in disk.old[i] /\ (fs'.new[i] \in disk.new[i] \/ fs'.new[i] = Absent)
        BY <4>1 DEF CutLeaves, LeftNew
      <4>3. FilesHold(i)' /\ OnDisk(i)'
        BY <4>1, <4>2, NoContentAbsent DEF CutLeaves, Sound, FilesHold, OnDisk
      <4>4. Safe(fs.old[i], fs.new[i], i)'
        <5>1. CASE i \notin loose
          BY <2>1, <4>1, <5>1 DEF CutLeaves, Sound, SafeAfterCut, Safe
        <5>2. CASE i \in loose
          BY <2>1, <4>1, <4>2, <5>2 DEF CutLeaves, Sound, SafeAfterCut, Safe, There
        <5>. QED
          BY <5>1, <5>2
      <4>5. SafeAfterCut(i)'
        BY <4>1, <4>4 DEF CutLeaves, SafeAfterCut, Safe
      <4>. QED
        BY <4>3, <4>4, <4>5 DEF Sound
    <3>. QED
      BY <1>0, <2>2, <2>3, <3>1 DEF LayoutInv
  <2>. QED
    BY <1>4, <2>4, <2>5
<1>. QED
  BY <1>1, <1>2, <1>3, <1>4 DEF Environment

-----------------------------------------------------------------------------
LEMMA InitSafe == Init => LayoutInv
<1>. SUFFICES ASSUME Init PROVE LayoutInv
  OBVIOUS
<1>1. KeptInv /\ pc = "idle" /\ step = 1
  BY InitKept DEF Init
<1>2. ASSUME NEW i \in Items PROVE Sound(i)
  <2>1. FirstItem(i)
    BY InitFiles
  <2>2. FilesHold(i) /\ OnDisk(i)
    BY <2>1, NoContentAbsent DEF FirstItem, FilesHold, OnDisk
  <2>. QED
    BY <2>1, <2>2 DEF FirstItem, Sound, Safe, SafeAfterCut
<1>3. RenameSafe /\ Handled
  BY <1>1 DEF RenameSafe, Handled, Running
<1>4. blocked \subseteq Items
  BY FirstMoves DEF Init
<1>5. RestType
  BY <1>4, BoundsAssumption DEF Init, RestType, Pcs
<1>. QED
  BY <1>1, <1>2, <1>3, <1>5 DEF LayoutInv

LEMMA NextSafe == LayoutInv /\ [Next]_vars => LayoutInv'
<1>. SUFFICES ASSUME LayoutInv, [Next]_vars PROVE LayoutInv'
  OBVIOUS
<1>1. CASE Next
  BY <1>1, BeginSafe, LayoutStepSafe, EnvironmentSafe DEF Next
<1>2. CASE UNCHANGED vars
  <2>1. /\ UNCHANGED <<platform, blocked, fs, disk, anchored, loose, pc, step, failed, clock>>
        /\ UNCHANGED <<written, stray, late, faults>>
    BY <1>2 DEF vars, system, report, history, files
  <2>2. Current' = Current /\ Item' = Item /\ Steps' = Steps
    BY <2>1 DEF Item, Current, Steps
  <2>3. KeptInv' /\ \A i \in Items : Sound(i)'
    BY <1>2, <2>1, NextKeeps, FilesStay DEF LayoutInv
  <2>. QED
    BY <2>1, <2>2, <2>3 DEF LayoutInv, RestType, RenameSafe, Handled, Gone, Running
<1>. QED
  BY <1>1, <1>2

LEMMA LayoutHolds == SupportSpec => []LayoutInv
<1>1. SupportInit => LayoutInv
  BY InitSafe DEF SupportInit
<1>2. LayoutInv /\ [SupportNext]_all => LayoutInv'
  BY NextSafe, SupportStepsAreSteps
<1>. QED
  BY <1>1, <1>2, PTL DEF SupportSpec

\* move_step removes only the stale copy: whatever fails, is killed or loses power, the last
\* write of an item is in one of its two places, unless the previous release wrote where the
\* current one was already there or the current one between the check and the rename.
THEOREM LastWriteIsKept == SupportSpec => []LastWriteKept
<1>1. LayoutInv => LastWriteKept
  <2>. SUFFICES ASSUME LayoutInv, NEW i \in Items, written[i] # Absent /\ i \notin stray
       PROVE  \E content \in {fs.old[i], fs.new[i]} : content # Absent /\ written[i] \in content
    BY DEF LastWriteKept
  <2>1. Safe(fs.old[i], fs.new[i], i)
    BY DEF LayoutInv, Sound
  <2>. QED
    BY <2>1 DEF Safe
<1>. QED
  BY <1>1, LayoutHolds, PTL

\* The report that run collects is complete: what it does not list as failed is gone from its
\* old place when the run ends, its last write where the current release reads it, unless the
\* previous release has written it since the run began.
THEOREM FailuresAreListed == SupportSpec => FailuresListed
<1>. DEFINE Complete == Running /\ pc' = "idle" => \A i \in Here \ (failed' \cup late') :
          /\ fs'.old[i] = Absent
          /\ written[i] # Absent /\ i \notin stray =>
                fs'.new[i] # Absent /\ written[i] \in fs'.new[i]
<1>1. LayoutInv /\ [SupportNext]_all => [Complete]_vars
  <2>. SUFFICES ASSUME LayoutInv, Next, Running, pc' = "idle",
                       NEW i \in Here \ (failed' \cup late')
       PROVE  /\ fs'.old[i] = Absent
              /\ written[i] # Absent /\ i \notin stray =>
                    fs'.new[i] # Absent /\ written[i] \in fs'.new[i]
    BY SupportStepsAreSteps
  <2>1. LayoutStep
    BY DEF Next, Begin, Environment, CurrentWrites, PreviousWrites, Write, CurrentMakesLogs, Killed,
           PowerCut, Running
  <2>2. StepIsOver /\ GoneStaysGone /\ UNCHANGED <<written, stray>>
    BY <2>1, LayoutStepDoes DEF history, StepDoes
  <2>3. fs'.old[i] = Absent
    BY <2>2, RunHandled
  <2>4. LayoutInv' /\ i \in Items
    BY <2>1, LayoutStepSafe DEF Here, Platforms, Items, LayoutInv, KeptInv, StepType
  <2>5. Safe(fs.old[i], fs.new[i], i)'
    BY <2>4 DEF LayoutInv, Sound
  <2>. QED
    BY <2>2, <2>3, <2>5 DEF Safe
<1>. QED
  BY <1>1, LayoutHolds, PTL DEF SupportSpec, FailuresListed

-----------------------------------------------------------------------------
(* upload-log.                                                              *)

\* A log file has a last line to be read.
LEMMA UpdatesLogType ==
    ASSUME LayoutInv
    PROVE  UpdatesLog \in Nat \cup {None}
<1>. SUFFICES ASSUME platform = "macos", fs.new["updates.log"] # Absent
     PROVE  1 + (CHOOSE n \in fs.new["updates.log"] : TRUE) \in Nat
  BY DEF UpdatesLog
<1>1. "updates.log" \in Items \ {"logs"}
  BY DEF Items, SystemFiles
<1>2. fs.new["updates.log"] # {} /\ fs.new["updates.log"] \in Contents
  BY <1>1, FileParts DEF Sound, FilesHold, LayoutInv, KeptInv
<1>3. fs.new["updates.log"] \subseteq Nat
  BY <1>2, BoundsAssumption DEF Contents, Stamps
<1>. QED
  BY <1>2, <1>3

LEMMA AnnounceType ==
    ASSUME NEW b \in Bundles
    PROVE  U!Announce(b) \in Announcements
<1>1. U!Lines(b.migrate) \in Nat /\ U!Lines(b.updates) \in Nat
  BY DEF Bundles, U!Lines
<1>2. U!Size(b) \in Nat
  BY <1>1 DEF U!Size
<1>3. U!Head(b) \in Nat
  BY <1>2, SizesAssumption DEF U!Head
<1>. QED
  BY <1>2, <1>3 DEF U!Announce, Announcements

LEMMA LogGrows ==
    ASSUME UploadInv, UNCHANGED upload, U!LogGrows \/ UNCHANGED migrateLog
    PROVE  UploadInv'
<1>1. migrateLog \in 0 .. MaxLines /\ migrateLog' \in 0 .. MaxLines /\ migrateLog <= migrateLog'
  BY SizesAssumption DEF UploadInv, U!LogGrows
<1>2. upload.at = "read" => upload.began.migrate \in Nat
  BY DEF UploadInv, Beginnings
<1>. QED
  BY <1>1, <1>2 DEF UploadInv, UploadType, Bundled, Announced, U!Announce, U!Size, U!Head, U!Lines

LEMMA UploadSteps ==
    ASSUME UploadInv, LayoutInv, U!Next
    PROVE  UploadInv'
<1>. USE DEF UploadInv, UploadType, Bundled, Announced, U!At, U!Set, U!Ends, U!Schemes,
         U!UploaderSigned
<1>0. UpdatesLog \in Nat \cup {None} /\ migrateLog \in Nat /\ None \notin {"https", "http"}
  BY UpdatesLogType, SizesAssumption, NoneAssumption
<1>. HIDE DEF UpdatesLog
<1>1. ASSUME NEW api \in U!Schemes, U!Begin(api)
      PROVE  UploadInv'
  <2>. DEFINE b == [migrate |-> migrateLog, updates |-> UpdatesLog]
  <2>1. upload' = [at |-> "read", result |-> "none", api |-> api, url |-> None, began |-> b,
                   bundle |-> None, announced |-> None, stored |-> None, sends |-> "nothing",
                   headOn |-> {}, bundleOn |-> {}, redirected |-> {}]
        /\ UNCHANGED migrateLog
    BY <1>1 DEF U!Begin, U!Idle, U!Bundle
  <2>2. b \in Beginnings /\ b.migrate = migrateLog
    BY <1>0 DEF Beginnings
  <2>. HIDE DEF b
  <2>. QED
    BY <1>0, <2>1, <2>2
<1>2. CASE U!WriteBundle
  <2>. PICK m \in {migrateLog, None}, u \in {UpdatesLog, None} :
         U!Set([upload EXCEPT !.at = "post", !.bundle = [migrate |-> m, updates |-> u]])
    BY <1>2 DEF U!WriteBundle
  <2>. DEFINE b == [migrate |-> m, updates |-> u]
  <2>1. upload' = [upload EXCEPT !.at = "post", !.bundle = b] /\ UNCHANGED migrateLog
    OBVIOUS
  <2>2. b \in Bundles /\ b.migrate = m
    BY <1>0 DEF Bundles
  <2>3. upload.at = "read" /\ upload.began \in Beginnings /\ upload.began.migrate \in Nat
    BY <1>2 DEF U!WriteBundle, Beginnings
  <2>. HIDE DEF b
  <2>. QED
    BY <1>0, <2>1, <2>2, <2>3, ZenonT(30)
<1>3. CASE U!WriteBundleFails \/ U!PostFails \/ U!PutFails \/ U!Killed \/ U!Timeout
  <2>1. PICK result \in {"Failed", "Killed"} :
           upload' = [upload EXCEPT !.at = "idle", !.result = result, !.sends = "nothing"]
           /\ UNCHANGED migrateLog
    BY <1>3 DEF U!WriteBundleFails, U!PostFails, U!PutFails, U!Killed, U!Timeout
  <2>2. /\ upload'.at = "idle" /\ upload'.result = result /\ upload'.sends = "nothing"
        /\ upload'.api = upload.api /\ upload'.url = upload.url /\ upload'.began = upload.began
        /\ upload'.bundle = upload.bundle /\ upload'.announced = upload.announced
        /\ upload'.stored = upload.stored /\ upload'.headOn = upload.headOn
        /\ upload'.bundleOn = upload.bundleOn /\ upload'.redirected = upload.redirected
    BY <2>1
  <2>3. UploadType'
    BY <2>1
  <2>. QED
    BY <2>1, <2>2, <2>3, ZenonT(30)
<1>4. CASE U!PostHead
  BY <1>4 DEF U!PostHead
<1>5. ASSUME NEW url \in U!Schemes, U!UploaderSigns(url)
      PROVE  UploadInv'
  BY <1>5, AnnounceType DEF U!UploaderSigns
<1>6. ASSUME U!AcceptSigned, upload.api = "https", upload.url # "https"
      PROVE  UploadInv'
  <2>1. upload' = [upload EXCEPT !.at = "idle", !.result = "Failed", !.sends = "nothing"]
        /\ UNCHANGED migrateLog /\ upload.at = "announcing"
    BY <1>6 DEF U!AcceptSigned
  <2>. QED
    BY <2>1
<1>11. ASSUME U!AcceptSigned, ~(upload.api = "https" /\ upload.url # "https")
       PROVE  UploadInv'
  <2>1. upload' = [upload EXCEPT !.at = "put", !.sends = "nothing"]
        /\ UNCHANGED migrateLog /\ upload.at = "announcing" /\ upload.announced # None
    BY <1>11 DEF U!AcceptSigned
  <2>. QED
    BY <1>11, <2>1
<1>7. CASE U!PutBundle
  <2>1. upload' = [upload EXCEPT !.at = "storing", !.sends = "body", !.bundleOn = {upload.url},
                                 !.bundle = upload.bundle]
        /\ UNCHANGED migrateLog /\ upload.at = "put"
    BY <1>7 DEF U!PutBundle, U!Put
  <2>2. upload.bundle \in Bundles /\ Announced(upload) /\ Bundled(upload)
        /\ upload.stored = None /\ upload.result # "Uploaded" /\ upload.url \in U!Schemes
    BY <2>1
  <2>3. /\ upload'.at = "storing" /\ upload'.result = upload.result /\ upload'.sends = "body"
        /\ upload'.api = upload.api /\ upload'.url = upload.url /\ upload'.began = upload.began
        /\ upload'.bundle = upload.bundle /\ upload'.announced = upload.announced
        /\ upload'.stored = upload.stored /\ upload'.headOn = upload.headOn
        /\ upload'.bundleOn = {upload.url} /\ upload'.redirected = upload.redirected
    BY <2>1
  <2>4. UploadType'
    BY <2>1, <2>2
  <2>5. Bundled(upload)' /\ Announced(upload)'
    BY <2>2, <2>3
  <2>. QED
    BY <2>1, <2>2, <2>3, <2>4, <2>5
<1>8. CASE U!StorageStores
  BY <1>8 DEF U!StorageStores
<1>9. CASE U!PutSucceeds
  BY <1>9 DEF U!PutSucceeds
<1>10. ASSUME NEW url \in U!Schemes, NEW keeps \in BOOLEAN,
              U!RedirectPost(url, keeps) \/ U!RedirectPut(url, keeps)
       PROVE  UploadInv'
  <2>1. CASE U!RedirectPost(url, keeps)
    <3>. DEFINE over == U!Redirected(url, keeps, upload.headOn)
    <3>. DEFINE sends == IF keeps THEN upload.sends ELSE "nothing"
    <3>. DEFINE r == upload.redirected \cup {url}
    <3>1. /\ upload' = [upload EXCEPT !.sends = sends, !.headOn = over, !.redirected = r]
          /\ UNCHANGED migrateLog /\ upload.at = "announcing"
          /\ over \in SUBSET U!Schemes /\ sends \in {"nothing", "body"}
          /\ r \in SUBSET U!Schemes
          /\ "http" \in upload.redirected => "http" \in r
      BY <2>1 DEF U!RedirectPost, U!Redirected
    <3>2. "http" \in over => "http" \in upload.headOn \/ "http" \in r
      BY <3>1 DEF U!Redirected
    <3>. HIDE DEF over, sends, r
    <3>. QED
      BY <3>1, <3>2
  <2>2. CASE U!RedirectPut(url, keeps)
    <3>. DEFINE over == U!Redirected(url, keeps, upload.bundleOn)
    <3>. DEFINE sends == IF keeps THEN upload.sends ELSE "nothing"
    <3>. DEFINE r == upload.redirected \cup {url}
    <3>1. /\ upload' = [upload EXCEPT !.sends = sends, !.bundleOn = over, !.redirected = r]
          /\ UNCHANGED migrateLog /\ upload.at = "storing"
          /\ over \in SUBSET U!Schemes /\ sends \in {"nothing", "body"}
          /\ r \in SUBSET U!Schemes
          /\ "http" \in upload.redirected => "http" \in r
      BY <2>2 DEF U!RedirectPut, U!Redirected
    <3>2. "http" \in over => "http" \in upload.bundleOn \/ "http" \in r
      BY <3>1 DEF U!Redirected
    <3>. HIDE DEF over, sends, r
    <3>. QED
      BY <3>1, <3>2
  <2>. QED
    BY <1>10, <2>1, <2>2
<1>. QED
  BY <1>1, <1>2, <1>3, <1>4, <1>5, <1>6, <1>7, <1>8, <1>9, <1>10, <1>11 DEF U!Next, U!Client

LEMMA UploadHolds == SupportSpec => [](LayoutInv /\ UploadInv)
<1>1. SupportInit => UploadInv
  <2>. SUFFICES ASSUME U!Init PROVE UploadInv
    BY DEF SupportInit
  <2>. QED
    BY SizesAssumption
       DEF U!Init, U!Idle, UploadInv, UploadType, Bundled, Announced, U!Schemes
<1>2. LayoutInv /\ UploadInv /\ [SupportNext]_all => UploadInv'
  <2>. SUFFICES ASSUME LayoutInv, UploadInv, [SupportNext]_all PROVE UploadInv'
    OBVIOUS
  <2>1. CASE LayoutBegins
    <3>1. upload' = U!Idle("none") /\ UNCHANGED migrateLog
      BY <2>1 DEF LayoutBegins
    <3>. QED
      BY <3>1 DEF U!Idle, UploadInv, UploadType, Bundled, Announced, U!Schemes
  <2>2. CASE UploadLog
    BY <2>2, UploadSteps DEF UploadLog
  <2>3. CASE UNCHANGED upload /\ (U!LogGrows \/ UNCHANGED migrateLog)
    BY <2>3, LogGrows
  <2>. QED
    BY <2>1, <2>2, <2>3 DEF SupportNext, Layout, Others, all
<1>. QED
  BY <1>1, <1>2, LayoutHolds, PTL DEF SupportSpec

\* Every state of the two commands has its type; updates.log always has a last line.
THEOREM SupportTyped == SupportSpec => []SupportTypeOK
<1>1. LayoutInv => TypeOK
  BY DEF LayoutInv, KeptInv, StepType, FsType, WritesType, RestType, Pcs, TypeOK
<1>2. LayoutInv /\ UploadInv => U!TypeOK
  <2>. SUFFICES ASSUME LayoutInv, UploadInv PROVE U!TypeOK
    OBVIOUS
  <2>1. UpdatesLog \in U!Logs
    BY UpdatesLogType DEF U!Logs
  <2>2. [k \in {"at", "result", "api", "url", "sends", "headOn", "bundleOn", "redirected"} |->
            upload[k]] \in U!Uploads
    BY DEF UploadInv, UploadType, U!Uploads
  <2>. QED
    BY <2>1, <2>2 DEF U!TypeOK, UploadInv
<1>. QED
  BY <1>1, <1>2, UploadHolds, PTL DEF SupportTypeOK

\* The reference that send prints names a stored object, which is the whole bundle that
\* write_bundle made, with everything a log that could be opened held when the command began.
THEOREM WholeBundleIsQuoted == SupportSpec => []QuotedIsStored
<1>1. UploadInv => QuotedIsStored
  BY DEF UploadInv, Bundled, QuotedIsStored, U!QuotedIsStored
<1>. QED
  BY <1>1, UploadHolds, PTL

\* What send puts to the signed URL is what it announced, however much layout and the services
\* have logged since.
THEOREM AnnouncedIsStored == SupportSpec => []StoredAsAnnounced
<1>1. UploadInv => StoredAsAnnounced
  BY DEF UploadInv, Announced, StoredAsAnnounced, U!StoredAsAnnounced
<1>. QED
  BY <1>1, UploadHolds, PTL

\* reject_transport_downgrade: with an https uploader, what goes over plain http, head or bundle,
\* goes there by a redirect of one of the two servers and never by the URL that was signed.
THEOREM PlainIsRedirected == SupportSpec => []PlainOnlyByRedirect
<1>1. UploadInv => PlainOnlyByRedirect
  BY DEF UploadInv, PlainOnlyByRedirect, U!PlainOnlyByRedirect
<1>. QED
  BY <1>1, UploadHolds, PTL
=============================================================================
