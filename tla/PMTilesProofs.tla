---------------------------- MODULE PMTilesProofs ----------------------------
(* What the reader of an archive promises for any file: where it reads, how  *)
(* deep it descends, how many tiles it delivers, and which: the tiles the     *)
(* directory tree spells out, by identifiers that number them.  Of the header *)
(* and the directories it is assumed only that they are made of words.        *)
EXTENDS PMTiles, TLAPS, SequenceTheorems, WellFoundedInduction

StackOK == stack \in Seq([entries : Seq(Entries), next : Nat \ {0}])

\* Only a scan has a run under way, which the budget allows, or delivers tiles.
RunOK ==
  /\ run.left + run.step <= remaining
  /\ pc # "scan" => run = NoRun
  /\ pc \in {"open", "inspect"} => visited = <<>>
  /\ \E S : visited \in Seq(S)

ArchiveInv == file \in Archive /\ TypeOK /\ StackOK /\ RunOK

-----------------------------------------------------------------------------
(* Files and directories                                                     *)

LEMMA FileFacts ==
  ASSUME file \in Archive
  PROVE  /\ file \in ArchiveType /\ Word \in Nat \ {0} /\ 0 \in Uint64
         /\ file.size \in Nat /\ Budget(file) \in Nat
         /\ \A s \in {file.root, file.leaf, file.data} : s.offset \in Uint64 /\ s.length \in Uint64
         /\ MaxLeafDepth \in Nat
<1>1. file \in ArchiveType /\ Word \in Nat /\ Word > 0 /\ MaxLeafDepth \in Nat /\ MaxAddressed \in Nat
  BY PMTilesAssumption
<1>2. file.size \in Uint64 /\ file.addressed \in Uint64
  BY <1>1 DEF ArchiveType
<1>3. /\ file.root \in Section /\ file.leaf \in Section /\ file.data \in Section
  BY <1>1 DEF ArchiveType
<1> QED BY <1>1, <1>2, <1>3 DEF Uint64, Section, Budget

LEMMA ElementType ==
  ASSUME NEW S, NEW s \in Seq(S)
  PROVE  /\ \A i \in DOMAIN s : s[i] \in S
         /\ s # <<>> => Len(s) \in Nat \ {0} /\ Len(s) \in DOMAIN s /\ s[Len(s)] \in S
OBVIOUS

LEMMA DecodeType ==
  ASSUME NEW f \in Archive, NEW d \in f.directories, Decodes(d.entries)
  PROVE  Decode(d.entries) \in Seq(Entries) /\ d.offset \in Uint64 /\ d.length \in Uint64
<1>1. f \in ArchiveType
  BY PMTilesAssumption
<1>2. f.directories \in SUBSET [offset : Uint64, length : Uint64, entries : RawDirectory]
  BY <1>1 DEF ArchiveType
<1>3. d \in [offset : Uint64, length : Uint64, entries : RawDirectory]
  BY <1>2
<1> DEFINE raw == d.entries
<1>4. raw \in Seq([delta : Uint64, run : Uint64, length : Uint64, value : Uint64])
  BY <1>3 DEF RawDirectory
<1>5. \A i \in DOMAIN raw : TileIds(raw)[i] \in Uint64 /\ Offsets(raw)[i] \in Uint64
  BY DEF Decodes
<1>6. \A i \in DOMAIN raw : raw[i].run \in Uint64 /\ raw[i].length \in Uint64
  <2>1. \A i \in DOMAIN raw : raw[i] \in [delta : Uint64, run : Uint64, length : Uint64, value : Uint64]
    BY <1>4, ElementType
  <2> QED BY <2>1
<1> DEFINE entry(i) == [id |-> TileIds(raw)[i], run |-> raw[i].run,
                        offset |-> Offsets(raw)[i], length |-> raw[i].length]
<1>7. \A i \in DOMAIN raw : entry(i) \in Entries
  BY <1>5, <1>6 DEF Entries
<1>8. Decode(raw) = [i \in DOMAIN raw |-> entry(i)]
  BY DEF Decode
<1>9. DOMAIN raw = 1..Len(raw) /\ Len(raw) \in Nat
  BY <1>4
<1>10. Decode(raw) \in Seq(Entries)
  <2> HIDE DEF entry, raw
  <2> QED BY <1>7, <1>8, <1>9
<1> QED BY <1>3, <1>10

LEMMA DirectoryFacts ==
  ASSUME file \in Archive, NEW offset, NEW length, NEW limit,
         NEW d \in DirectoryAt(file, offset, length, limit)
  PROVE  /\ Decode(d.entries) \in Seq(Entries)
         /\ d.offset = offset /\ d.length = length /\ offset \in Uint64 /\ length \in Uint64
         /\ InFile(file, offset, length)
<1>1. /\ d \in file.directories /\ d.offset = offset /\ d.length = length
      /\ InFile(file, offset, length) /\ Decodes(d.entries)
  BY DEF DirectoryAt
<1> QED BY <1>1, DecodeType

\* The entry that is looked at.
LEMMA EntryFacts ==
  ASSUME ArchiveInv, AtEntry
  PROVE  /\ Entry \in Entries /\ stack # <<>> /\ run = NoRun
         /\ Advanced \in Seq([entries : Seq(Entries), next : Nat \ {0}])
         /\ Len(Advanced) = Len(stack) /\ Len(stack) \in Nat
<1> DEFINE Frame == [entries : Seq(Entries), next : Nat \ {0}]
<1>1. stack \in Seq(Frame) /\ stack # <<>> /\ run = NoRun /\ Top.next <= Len(Top.entries)
  BY DEF ArchiveInv, StackOK, AtEntry
<1>2. Len(stack) \in 1..Len(stack) /\ Top \in Frame
  <2> HIDE DEF Frame
  <2> QED BY <1>1, ElementType DEF Top
<1>3. Top.entries \in Seq(Entries) /\ Top.next \in 1..Len(Top.entries)
  BY <1>1, <1>2
<1>4. Entry \in Entries
  BY <1>3 DEF Entry
<1>5. [stack[Len(stack)] EXCEPT !.next = @ + 1] \in Frame
  BY <1>2 DEF Top
<1>6. Advanced = [stack EXCEPT ![Len(stack)] = [stack[Len(stack)] EXCEPT !.next = @ + 1]]
  BY DEF Advanced
<1>7. Advanced \in Seq(Frame) /\ Len(Advanced) = Len(stack)
  <2> DEFINE top == [stack[Len(stack)] EXCEPT !.next = @ + 1]
  <2> HIDE DEF top, Frame
  <2> QED BY <1>1, <1>2, <1>5, <1>6
<1> QED BY <1>1, <1>4, <1>7

-----------------------------------------------------------------------------
(* The invariant                                                             *)

FrameSeq == Seq([entries : Seq(Entries), next : Nat \ {0}])

RunType == [id : Uint64, length : Uint64, offset : Uint64, left : Nat, step : Nat]

LEMMA NoRunType ==
  ASSUME file \in Archive
  PROVE  NoRun \in RunType /\ NoRun.left = 0 /\ NoRun.step = 0
BY FileFacts DEF NoRun, RunType

LEMMA Begins ==
  ASSUME file \in Archive, NEW phase, BeginWalk(phase)
  PROVE  /\ pc' = phase /\ run' = NoRun /\ remaining' = Budget(file)
         /\ stack' \in FrameSeq /\ Len(stack') = 1
         /\ read'.section = "root"
         /\ read'.offset = file.root.offset /\ read'.length = file.root.length
         /\ read'.offset \in Uint64 /\ read'.length \in Uint64
         /\ InFile(file, file.root.offset, file.root.length)
<1>1. PICK d \in RootDirectory(file) :
        /\ pc' = phase /\ run' = NoRun /\ remaining' = Budget(file)
        /\ stack' = <<[entries |-> Decode(d.entries), next |-> 1]>>
        /\ read' = [section |-> "root", offset |-> d.offset, length |-> d.length]
  BY DEF BeginWalk
<1>2. /\ Decode(d.entries) \in Seq(Entries)
      /\ d.offset = file.root.offset /\ d.length = file.root.length
      /\ file.root.offset \in Uint64 /\ file.root.length \in Uint64
      /\ InFile(file, file.root.offset, file.root.length)
  BY <1>1, DirectoryFacts DEF RootDirectory
<1> DEFINE top == [entries |-> Decode(d.entries), next |-> 1]
<1>3. top \in [entries : Seq(Entries), next : Nat \ {0}]
  BY <1>2
<1>4. stack' \in FrameSeq /\ Len(stack') = 1
  <2>1. stack' = <<top>>
    BY <1>1
  <2> HIDE DEF top
  <2> QED BY <2>1, <1>3 DEF FrameSeq
<1> QED BY <1>1, <1>2, <1>4

LEMMA InitArchive == Init => ArchiveInv
<1> SUFFICES ASSUME Init PROVE ArchiveInv
  OBVIOUS
<1>1. file \in Archive
  BY DEF Init
<1>2. NoRun \in RunType /\ NoRun.left = 0 /\ NoRun.step = 0 /\ 0 \in Uint64 /\ MaxLeafDepth \in Nat
  BY <1>1, FileFacts, NoRunType
<1>3. TypeOK
  <2>1. stats \in [tiles : Uint64, bytes : Uint64, max : Uint64] /\ read.offset \in Uint64 /\ read.length \in Uint64
    BY <1>2 DEF Init, NoStats, NoRead
  <2>2. Len(stack) <= MaxLeafDepth + 1
    BY <1>2 DEF Init
  <2> QED BY <1>2, <2>1, <2>2 DEF Init, TypeOK, RunType
<1>4. StackOK
  BY DEF Init, StackOK
<1>5. RunOK
  <2>1. \E S : visited \in Seq(S)
    <3>1. visited \in Seq({})
      BY DEF Init
    <3> QED BY <3>1
  <2>2. run = NoRun /\ remaining = 0 /\ visited = <<>>
    BY DEF Init
  <2> QED BY <1>2, <2>1, <2>2 DEF RunOK
<1> QED BY <1>1, <1>3, <1>4, <1>5 DEF ArchiveInv

LEMMA BeginsInv ==
  ASSUME ArchiveInv, NEW phase \in {"inspect", "scan"}, BeginWalk(phase),
         pc \in {"open", "inspect"}, UNCHANGED <<envVars, stats, outVars, canceled, failure>>
  PROVE  ArchiveInv'
<1>1. /\ pc' = phase /\ run' = NoRun /\ remaining' = Budget(file)
      /\ stack' \in FrameSeq /\ Len(stack') = 1 /\ read'.offset \in Uint64 /\ read'.length \in Uint64
      /\ file' = file /\ visited' = visited /\ visited = <<>>
  BY Begins DEF ArchiveInv, RunOK, envVars, outVars
<1>2. Budget(file) \in Nat /\ MaxLeafDepth \in Nat /\ NoRun \in RunType /\ NoRun.left = 0 /\ NoRun.step = 0
  BY FileFacts, NoRunType DEF ArchiveInv
<1>3. TypeOK'
  BY <1>1, <1>2 DEF ArchiveInv, TypeOK, envVars, RunType
<1>4. StackOK'
  BY <1>1 DEF StackOK, FrameSeq
<1>5. RunOK'
  BY <1>1, <1>2 DEF ArchiveInv, RunOK
<1> QED BY <1>1, <1>3, <1>4, <1>5 DEF ArchiveInv

LEMMA AbortInv ==
  ASSUME ArchiveInv, Abort, failure' \in BOOLEAN
  PROVE  ArchiveInv'
<1>1. /\ pc' = "failed" /\ stack' = <<>> /\ run' = NoRun /\ remaining' = remaining
      /\ file' = file /\ visited' = visited /\ job' = job /\ stats' = stats /\ read' = read
      /\ canceled' = canceled
  BY DEF Abort, envVars
<1>2. NoRun \in RunType /\ NoRun.left = 0 /\ NoRun.step = 0 /\ MaxLeafDepth \in Nat
  BY FileFacts, NoRunType DEF ArchiveInv
<1>3. TypeOK'
  BY <1>1, <1>2 DEF ArchiveInv, TypeOK, RunType
<1>4. StackOK'
  BY <1>1 DEF StackOK
<1>5. RunOK'
  BY <1>1, <1>2 DEF ArchiveInv, RunOK, TypeOK
<1> QED BY <1>1, <1>3, <1>4, <1>5 DEF ArchiveInv

LEMMA EnterLeafFacts ==
  ASSUME ArchiveInv, EnterLeaf
  PROVE  /\ stack' \in FrameSeq /\ Len(stack') <= MaxLeafDepth + 1
         /\ read'.section = "leaf" /\ read'.offset \in Uint64 /\ read'.length \in Uint64
         /\ \E e \in Entries : /\ read'.offset = file.leaf.offset + e.offset /\ read'.length = e.length
                               /\ Within(e, file.leaf) /\ InFile(file, read'.offset, read'.length)
<1> DEFINE Frame == [entries : Seq(Entries), next : Nat \ {0}]
<1>1. /\ AtEntry /\ LeafAccepted(Entry)
      /\ Entry \in Entries /\ Advanced \in Seq(Frame) /\ Len(Advanced) = Len(stack) /\ Len(stack) \in Nat
  BY EntryFacts DEF EnterLeaf
<1>2. PICK d \in LeafDirectory(Entry) :
        /\ stack' = Append(Advanced, [entries |-> Decode(d.entries), next |-> 1])
        /\ read' = [section |-> "leaf", offset |-> d.offset, length |-> d.length]
  BY DEF EnterLeaf
<1>3. /\ Decode(d.entries) \in Seq(Entries)
      /\ d.offset = file.leaf.offset + Entry.offset /\ d.length = Entry.length
      /\ d.offset \in Uint64 /\ d.length \in Uint64
      /\ InFile(file, d.offset, d.length)
  BY <1>2, DirectoryFacts DEF LeafDirectory, ArchiveInv
<1> DEFINE top == [entries |-> Decode(d.entries), next |-> 1]
<1>4. top \in Frame
  BY <1>3
<1>5. stack' \in Seq(Frame) /\ Len(stack') = Len(stack) + 1
  <2>1. stack' = Append(Advanced, top)
    BY <1>2
  <2> HIDE DEF top, Frame
  <2> QED BY <2>1, <1>1, <1>4
<1>6. Len(stack) <= MaxLeafDepth /\ Within(Entry, file.leaf)
  BY <1>1 DEF LeafAccepted, ValidEntry
<1>7. MaxLeafDepth \in Nat
  BY FileFacts DEF ArchiveInv
<1>8. Len(stack') <= MaxLeafDepth + 1
  BY <1>1, <1>5, <1>6, <1>7
<1> QED BY <1>1, <1>2, <1>3, <1>5, <1>6, <1>8 DEF FrameSeq

LEMMA EnterLeafInv ==
  ASSUME ArchiveInv, EnterLeaf
  PROVE  ArchiveInv'
<1>1. UNCHANGED <<file, job, pc, remaining, run, stats, visited, canceled, failure>>
  BY DEF EnterLeaf, envVars, outVars
<1> QED BY <1>1, EnterLeafFacts DEF ArchiveInv, TypeOK, StackOK, RunOK, FrameSeq

LEMMA AdvancedStack ==
  ASSUME ArchiveInv, AtEntry, stack' = Advanced
  PROVE  StackOK' /\ Len(stack') = Len(stack)
BY EntryFacts DEF StackOK

LEMMA InspectRunInv ==
  ASSUME ArchiveInv, InspectRun
  PROVE  ArchiveInv'
<1>1. /\ pc = "inspect" /\ AtEntry /\ RunAccepted(Entry) /\ CanCount(Entry) /\ stack' = Advanced
      /\ remaining' = remaining - Entry.run
      /\ UNCHANGED <<file, job, pc, run, read, visited, canceled, failure>>
  BY DEF InspectRun, envVars, outVars
<1>2. /\ Entry \in Entries /\ run = NoRun /\ NoRun.left = 0 /\ NoRun.step = 0 /\ Word \in Nat
  BY <1>1, EntryFacts, FileFacts, NoRunType DEF ArchiveInv
<1>3. Entry.run \in Nat /\ Entry.length \in Uint64 /\ Entry.length \in Nat /\ Entry.run <= remaining
  BY <1>1, <1>2 DEF Entries, Uint64, RunAccepted
<1>4. stats' \in [tiles : Uint64, bytes : Uint64, max : Uint64]
  <2>1. stats.tiles \in Nat /\ stats.bytes \in Nat /\ stats.max \in Uint64
    BY DEF ArchiveInv, TypeOK, Uint64
  <2>2. Entry.run * Entry.length \in Nat
    BY <1>3
  <2> DEFINE bytes == Entry.run * Entry.length
             tiles == stats.tiles + Entry.run
             max == IF Entry.length > stats.max THEN Entry.length ELSE stats.max
  <2>3. stats' = [tiles |-> tiles, bytes |-> stats.bytes + bytes, max |-> max]
    BY DEF InspectRun
  <2>4. stats.bytes + bytes < Word /\ tiles < Word
    BY <1>1 DEF CanCount
  <2>5. tiles \in Uint64 /\ max \in Uint64
    BY <2>1, <2>4, <1>2, <1>3 DEF Uint64
  <2>6. stats.bytes + bytes \in Uint64
    <3> HIDE DEF tiles, max
    <3>1. bytes \in Nat
      BY <2>2
    <3> HIDE DEF bytes
    <3> QED BY <3>1, <2>1, <2>4, <1>2 DEF Uint64
  <2> HIDE DEF bytes, tiles, max
  <2> QED BY <2>3, <2>5, <2>6
<1>5. remaining' \in Nat
  BY <1>1, <1>3 DEF ArchiveInv, TypeOK
<1>6. StackOK' /\ Len(stack') = Len(stack)
  BY <1>1, AdvancedStack
<1>7. TypeOK'
  BY <1>1, <1>4, <1>5, <1>6 DEF ArchiveInv, TypeOK
<1>8. RunOK'
  BY <1>1, <1>2, <1>5 DEF ArchiveInv, RunOK
<1> QED BY <1>1, <1>6, <1>7, <1>8 DEF ArchiveInv

LEMMA ReadRunFacts ==
  ASSUME ArchiveInv, ReadRun
  PROVE  /\ run' \in RunType /\ run'.left <= remaining /\ run'.step = 0
         /\ read'.section = "data" /\ read'.offset \in Uint64 /\ read'.length \in Uint64
         /\ read'.length > 0 => InFile(file, read'.offset, read'.length)
         /\ \E e \in Entries : /\ read'.offset = file.data.offset + e.offset /\ read'.length = e.length
                               /\ Within(e, file.data)
<1>1. /\ AtEntry /\ RunAccepted(Entry) /\ CanRead(Entry)
      /\ read' = [section |-> "data", offset |-> file.data.offset + Entry.offset, length |-> Entry.length]
      /\ run' = [id |-> Entry.id, length |-> Entry.length, offset |-> Entry.offset, left |-> Entry.run, step |-> 0]
  BY DEF ReadRun
<1>2. Entry \in Entries /\ Word \in Nat /\ file.data.offset \in Uint64
  BY <1>1, EntryFacts, FileFacts DEF ArchiveInv
<1>3. file.data.offset + Entry.offset \in Uint64
  BY <1>1, <1>2 DEF CanRead, Adds, Entries, Uint64
<1>4. run' \in RunType /\ run'.left = Entry.run /\ run'.step = 0
  BY <1>1, <1>2 DEF RunType, Entries, Uint64
<1>5. Within(Entry, file.data) /\ Entry.run <= remaining
  <2>1. Entry.run > 0 /\ ValidEntry(Entry) /\ Entry.run <= remaining
    BY <1>1 DEF RunAccepted
  <2> QED BY <2>1 DEF ValidEntry
<1>6. Entry.length > 0 => InFile(file, file.data.offset + Entry.offset, Entry.length)
  BY <1>1 DEF CanRead
<1>7. Entry.length \in Uint64
  BY <1>2 DEF Entries
<1>8. read'.section = "data" /\ read'.offset = file.data.offset + Entry.offset /\ read'.length = Entry.length
  BY <1>1
<1> QED BY <1>2, <1>3, <1>4, <1>5, <1>6, <1>7, <1>8

LEMMA ReadRunInv ==
  ASSUME ArchiveInv, ReadRun
  PROVE  ArchiveInv'
<1>1. /\ pc = "scan" /\ AtEntry /\ stack' = Advanced
      /\ UNCHANGED <<file, job, pc, remaining, stats, visited, canceled, failure>>
  BY DEF ReadRun, envVars, outVars
<1>2. StackOK' /\ Len(stack') = Len(stack)
  BY <1>1, AdvancedStack
<1>3. TypeOK'
  BY <1>1, <1>2, ReadRunFacts DEF ArchiveInv, TypeOK, RunType
<1>4. RunOK'
  BY <1>1, ReadRunFacts DEF ArchiveInv, RunOK, RunType
<1> QED BY <1>1, <1>2, <1>3, <1>4 DEF ArchiveInv

LEMMA AppendOne ==
  ASSUME NEW S, NEW s \in Seq(S), NEW e
  PROVE  Len(Append(s, e)) = Len(s) + 1 /\ Len(s) \in Nat /\ \E T : Append(s, e) \in Seq(T)
<1>1. s \in Seq(S \cup {e})
  OBVIOUS
<1>2. Append(s, e) \in Seq(S \cup {e})
  BY <1>1
<1> QED BY <1>2

LEMMA VisitFacts ==
  ASSUME ArchiveInv, Visit
  PROVE  /\ run' \in RunType /\ run'.step = run.step + 1 /\ run'.left = run.left - 1
         /\ pc = "scan" /\ run \in RunType
         /\ Len(visited') = Len(visited) + 1 /\ Len(visited) \in Nat
         /\ \E S : visited' \in Seq(S)
<1>1. /\ run # NoRun /\ run.left > 0 /\ visited' = Append(visited, VisitedTile)
      /\ run' = [run EXCEPT !.left = @ - 1, !.step = @ + 1]
  BY DEF Visit
<1>2. run \in RunType /\ pc = "scan"
  BY <1>1 DEF ArchiveInv, TypeOK, RunType, RunOK
<1>3. run' \in RunType /\ run'.step = run.step + 1 /\ run'.left = run.left - 1
  <2>1. run.left - 1 \in Nat /\ run.step + 1 \in Nat
    BY <1>1, <1>2 DEF RunType
  <2>2. run' = [id |-> run.id, length |-> run.length, offset |-> run.offset,
                left |-> run.left - 1, step |-> run.step + 1]
    BY <1>1, <1>2 DEF RunType
  <2> QED BY <1>2, <2>1, <2>2 DEF RunType
<1>4. PICK S : visited \in Seq(S)
  BY DEF ArchiveInv, RunOK
<1> QED BY <1>1, <1>2, <1>3, <1>4, AppendOne

LEMMA VisitInv ==
  ASSUME ArchiveInv, Visit
  PROVE  ArchiveInv'
<1>1. UNCHANGED <<file, job, pc, stack, remaining, stats, read, canceled, failure>>
  BY DEF Visit, envVars
<1>2. TypeOK'
  BY <1>1, VisitFacts DEF ArchiveInv, TypeOK, RunType
<1>3. RunOK'
  <2>1. run.left + run.step <= remaining
    BY DEF ArchiveInv, RunOK
  <2>2. run'.left + run'.step <= remaining
    BY <2>1, VisitFacts DEF RunType
  <2> QED BY <1>1, <2>2, VisitFacts DEF RunOK
<1> QED BY <1>1, <1>2, <1>3 DEF ArchiveInv, StackOK

LEMMA FinishRunInv ==
  ASSUME ArchiveInv, FinishRun
  PROVE  ArchiveInv'
<1>1. /\ run # NoRun /\ run.left = 0 /\ remaining' = remaining - run.step /\ run' = NoRun
      /\ UNCHANGED <<file, job, pc, stack, stats, read, visited, canceled, failure>>
  BY DEF FinishRun, envVars, outVars
<1>2. NoRun \in RunType /\ NoRun.left = 0 /\ NoRun.step = 0
  BY NoRunType DEF ArchiveInv
<1>3. remaining' \in Nat
  BY <1>1 DEF ArchiveInv, TypeOK, RunOK
<1>4. TypeOK'
  BY <1>1, <1>2, <1>3 DEF ArchiveInv, TypeOK, RunType
<1>5. RunOK'
  BY <1>1, <1>2, <1>3 DEF ArchiveInv, RunOK
<1> QED BY <1>1, <1>4, <1>5 DEF ArchiveInv, StackOK

LEMMA LeaveDirectoryInv ==
  ASSUME ArchiveInv, LeaveDirectory
  PROVE  ArchiveInv'
<1>1. /\ stack # <<>> /\ stack' = SubSeq(stack, 1, Len(stack) - 1)
      /\ UNCHANGED <<file, job, pc, remaining, run, stats, read, visited, canceled, failure>>
  BY DEF LeaveDirectory, envVars, outVars
<1> DEFINE Frame == [entries : Seq(Entries), next : Nat \ {0}]
<1>2. stack \in Seq(Frame)
  BY DEF ArchiveInv, StackOK
<1>3. stack' \in Seq(Frame) /\ Len(stack') <= Len(stack)
  <2>1. Len(stack) \in Nat \ {0}
    <3> HIDE DEF Frame
    <3> QED BY <1>1, <1>2, ElementType
  <2> HIDE DEF Frame
  <2> QED BY <1>1, <1>2, <2>1
<1>4. TypeOK'
  <2>1. Len(stack) \in Nat /\ Len(stack') \in Nat /\ MaxLeafDepth \in Nat
    <3> HIDE DEF Frame
    <3> QED BY <1>2, <1>3, FileFacts DEF ArchiveInv
  <2> QED BY <1>1, <1>3, <2>1 DEF ArchiveInv, TypeOK
<1>5. StackOK' /\ RunOK'
  BY <1>1, <1>3 DEF ArchiveInv, StackOK, RunOK
<1> QED BY <1>1, <1>4, <1>5 DEF ArchiveInv

\* A scan that ends well.
LEMMA EndsInv ==
  ASSUME ArchiveInv, DirectScanned \/ StageIndexed
  PROVE  ArchiveInv'
<1>1. /\ pc = "scan" /\ WalkEnds /\ pc' = "done"
      /\ UNCHANGED <<file, job, stack, remaining, run, stats, read, visited, canceled, failure>>
  BY DEF DirectScanned, StageIndexed, envVars, walkVars, outVars
<1> QED BY <1>1 DEF ArchiveInv, TypeOK, StackOK, RunOK, WalkEnds

LEMMA NextArchive == ArchiveInv /\ [Next]_vars => ArchiveInv'
<1> SUFFICES ASSUME ArchiveInv, [Next]_vars PROVE ArchiveInv'
  OBVIOUS
<1>0. failure \in BOOLEAN
  BY DEF ArchiveInv, TypeOK
<1>1. CASE Open
  <2>1. BeginWalk(IF job = "direct" THEN "inspect" ELSE "scan") /\ pc = "open"
    BY <1>1 DEF Open
  <2> QED BY <1>1, <2>1, BeginsInv DEF Open
<1>2. CASE Inspected
  BY <1>2, BeginsInv DEF Inspected
<1>3. CASE RejectArchive \/ RejectEntry \/ VisitCanceled \/ RejectCount \/ Fail
  <2>1. Abort /\ failure' \in BOOLEAN
    BY <1>0, <1>3 DEF RejectArchive, RejectEntry, VisitCanceled, RejectCount, Fail
  <2> QED BY <2>1, AbortInv
<1>4. CASE EnterLeaf
  BY <1>4, EnterLeafInv
<1>5. CASE InspectRun
  BY <1>5, InspectRunInv
<1>6. CASE ReadRun
  BY <1>6, ReadRunInv
<1>7. CASE Visit
  BY <1>7, VisitInv
<1>8. CASE FinishRun
  BY <1>8, FinishRunInv
<1>9. CASE LeaveDirectory
  BY <1>9, LeaveDirectoryInv
<1>10. CASE DirectScanned \/ StageIndexed
  BY <1>10, EndsInv
<1>11. CASE Cancel \/ UNCHANGED vars
  BY <1>11 DEF Cancel, vars, envVars, walkVars, outVars, ArchiveInv, TypeOK, StackOK, RunOK
<1> QED BY <1>1, <1>2, <1>3, <1>4, <1>5, <1>6, <1>7, <1>8, <1>9, <1>10, <1>11 DEF Next, Step

\* The stack of directories is bounded, also for an archive whose directories
\* name each other, the budget never runs below zero and no sum leaves its word.
THEOREM ArchiveCorrect == Spec => [](TypeOK /\ RunOK)
<1>1. ArchiveInv => TypeOK /\ RunOK
  BY DEF ArchiveInv
<1> QED BY <1>1, InitArchive, NextArchive, PTL DEF Spec

-----------------------------------------------------------------------------
(* Where it reads                                                            *)

LEMMA ExtentFits ==
  ASSUME file \in Archive, NEW s, s.offset \in Nat, s.length \in Nat,
         NEW offset \in Nat, NEW length \in Nat,
         offset <= s.length, length <= s.length - offset,
         InFile(file, s.offset + offset, length)
  PROVE  /\ s.offset <= s.offset + offset
         /\ s.offset + offset + length <= s.offset + s.length
         /\ s.offset + offset + length <= file.size
BY FileFacts DEF InFile

LEMMA NextReads == ArchiveInv /\ ReadsInside /\ [Next]_vars => ReadsInside'
<1> SUFFICES ASSUME ArchiveInv, ReadsInside, [Next]_vars PROVE ReadsInside'
  OBVIOUS
<1>0. /\ file \in Archive /\ file.size \in Nat /\ Word \in Nat
      /\ \A s \in {file.root, file.leaf, file.data} : s.offset \in Nat /\ s.length \in Nat
  BY FileFacts DEF ArchiveInv, Uint64
<1>1. CASE Open \/ Inspected
  <2>1. \E phase : BeginWalk(phase)
    BY <1>1 DEF Open, Inspected
  <2>2. file' = file
    BY <1>1 DEF Open, Inspected, envVars
  <2>3. /\ read'.section = "root" /\ read'.offset = file.root.offset /\ read'.length = file.root.length
        /\ InFile(file, file.root.offset, file.root.length)
    BY <1>0, <2>1, Begins
  <2>4. file.root.offset + file.root.length <= file.size
    BY <1>0, <2>3 DEF InFile
  <2> QED BY <1>0, <2>2, <2>3, <2>4 DEF ReadsInside, SectionOf
<1>2. CASE EnterLeaf
  <2>1. file' = file /\ read'.section = "leaf"
    BY <1>2, EnterLeafFacts DEF EnterLeaf, envVars
  <2>2. PICK e \in Entries : /\ read'.offset = file.leaf.offset + e.offset /\ read'.length = e.length
                               /\ Within(e, file.leaf) /\ InFile(file, read'.offset, read'.length)
    BY <1>2, EnterLeafFacts
  <2>3. e.offset \in Nat /\ e.length \in Nat
    BY DEF Entries, Uint64
  <2>4. /\ file.leaf.offset <= read'.offset
        /\ read'.offset + read'.length <= file.leaf.offset + file.leaf.length
        /\ read'.offset + read'.length <= file.size
    BY <1>0, <2>2, <2>3, ExtentFits DEF Within
  <2> QED BY <2>1, <2>4 DEF ReadsInside, SectionOf
<1>3. CASE ReadRun
  <2>1. file' = file /\ read'.section = "data"
    BY <1>3, ReadRunFacts DEF ReadRun, envVars
  <2>2. PICK e \in Entries : /\ read'.offset = file.data.offset + e.offset /\ read'.length = e.length
                               /\ Within(e, file.data)
    BY <1>3, ReadRunFacts
  <2>3. e.offset \in Nat /\ e.length \in Nat
    BY DEF Entries, Uint64
  <2>4. read'.length > 0 =>
          /\ file.data.offset <= read'.offset
          /\ read'.offset + read'.length <= file.data.offset + file.data.length
          /\ read'.offset + read'.length <= file.size
    <3>1. read'.length > 0 => InFile(file, read'.offset, read'.length)
      BY <1>3, ReadRunFacts
    <3> QED BY <1>0, <2>2, <2>3, <3>1, ExtentFits DEF Within
  <2> QED BY <2>1, <2>4 DEF ReadsInside, SectionOf
<1>4. CASE ~(Open \/ Inspected \/ EnterLeaf \/ ReadRun)
  <2>1. file' = file /\ read' = read
    BY <1>4 DEF Next, Step, vars, envVars, RejectArchive, InspectRun, RejectEntry, Visit, VisitCanceled,
                FinishRun, LeaveDirectory, DirectScanned, StageIndexed, RejectCount, Fail, Cancel, Abort
  <2> QED BY <2>1 DEF ReadsInside, SectionOf
<1> QED BY <1>1, <1>2, <1>3, <1>4

\* Whatever the words of a file are, every read stays in the section of its
\* entry and in the file.
THEOREM ReadsStayInside == Spec => []ReadsInside
<1>1. Init => ReadsInside
  BY DEF Init, ReadsInside, NoRead
<1> QED BY <1>1, InitArchive, NextArchive, NextReads, PTL DEF Spec

-----------------------------------------------------------------------------
(* How much it delivers                                                      *)

LEMMA NextBudget == ArchiveInv /\ BudgetIsExact /\ [Next]_vars => BudgetIsExact'
<1> SUFFICES ASSUME ArchiveInv, BudgetIsExact, [Next]_vars, pc' = "scan"
             PROVE  Len(visited') + remaining' = Budget(file') + run'.step
  BY DEF BudgetIsExact, Budget
<1>0. /\ NoRun.step = 0 /\ Budget(file) \in Nat /\ remaining \in Nat /\ run \in RunType
  BY FileFacts, NoRunType DEF ArchiveInv, TypeOK, RunType
<1>1. PICK S : visited \in Seq(S)
  BY DEF ArchiveInv, RunOK
<1>2. Len(visited) \in Nat
  BY <1>1
<1>3. CASE Open \/ Inspected
  <2>1. PICK phase : BeginWalk(phase)
    BY <1>3 DEF Open, Inspected
  <2>2. run' = NoRun /\ remaining' = Budget(file)
    BY <2>1, Begins DEF ArchiveInv
  <2>3. file' = file /\ visited' = visited /\ visited = <<>>
    BY <1>3 DEF Open, Inspected, envVars, outVars, ArchiveInv, RunOK
  <2> QED BY <1>0, <2>2, <2>3
<1>4. CASE ReadRun
  <2>1. UNCHANGED <<file, remaining, visited>> /\ pc = "scan" /\ run = NoRun /\ run'.step = 0
    BY <1>4, ReadRunFacts DEF ReadRun, AtEntry, envVars, outVars
  <2> QED BY <1>0, <2>1 DEF BudgetIsExact
<1>5. CASE Visit
  <2>1. UNCHANGED <<file, remaining>>
    BY <1>5 DEF Visit, envVars
  <2>2. run.step \in Nat
    BY <1>0 DEF RunType
  <2> QED BY <1>0, <1>5, <2>1, <2>2, VisitFacts DEF BudgetIsExact
<1>6. CASE FinishRun
  <2>1. UNCHANGED <<file, pc, visited>> /\ remaining' = remaining - run.step /\ run' = NoRun
    BY <1>6 DEF FinishRun, envVars, outVars
  <2>2. run.step \in Nat
    BY <1>0 DEF RunType
  <2> QED BY <1>0, <1>2, <2>1, <2>2 DEF BudgetIsExact
<1>7. CASE RejectArchive \/ RejectEntry \/ VisitCanceled \/ RejectCount \/ Fail \/ InspectRun
  BY <1>7 DEF RejectArchive, RejectEntry, VisitCanceled, RejectCount, Fail, Abort, InspectRun
<1>8. CASE EnterLeaf \/ LeaveDirectory \/ DirectScanned \/ StageIndexed \/ Cancel \/ UNCHANGED vars
  <2>1. UNCHANGED <<file, pc, remaining, run, visited>>
    BY <1>8 DEF EnterLeaf, LeaveDirectory, DirectScanned, StageIndexed, Cancel, vars, envVars, walkVars, outVars
  <2> QED BY <2>1 DEF BudgetIsExact
<1> QED BY <1>3, <1>4, <1>5, <1>6, <1>7, <1>8 DEF Next, Step

\* The tiles a visitor has been given and those it may still be given are what
\* the header declares, for any nesting of directories and lengths of runs.
THEOREM BudgetAlwaysExact == Spec => []BudgetIsExact
<1>1. Init => BudgetIsExact
  BY DEF Init, BudgetIsExact
<1> QED BY <1>1, InitArchive, NextArchive, NextBudget, PTL DEF Spec
-----------------------------------------------------------------------------
(* The inspection and the scan take the same walk                            *)

Frames == [entries : Seq(Entries), next : Nat \ {0}]

\* A place in the walk: the directories under way, and what lies behind it.
Place == [stack : Seq(Frames), tiles : Nat, bytes : Nat, max : Nat]

PlaceTop(s) == s[Len(s)]

PlaceEntry(s) == PlaceTop(s).entries[PlaceTop(s).next]

Past(s) == [s EXCEPT ![Len(s)].next = @ + 1]

AtPlaceEntry(s) == s # <<>> /\ PlaceTop(s).next <= Len(PlaceTop(s).entries)

Leaves(t, u) ==
  /\ t.stack # <<>> /\ PlaceTop(t.stack).next > Len(PlaceTop(t.stack).entries)
  /\ u.stack = SubSeq(t.stack, 1, Len(t.stack) - 1)
  /\ u.tiles = t.tiles /\ u.bytes = t.bytes /\ u.max = t.max

LeafAllowed(s, e) ==
  /\ e.run = 0 /\ ValidEntry(e) /\ Len(s) <= MaxLeafDepth
  /\ Adds(file.leaf.offset, e.offset) /\ LeafDirectory(e) # {}

Descends(t, u) ==
  /\ AtPlaceEntry(t.stack) /\ LeafAllowed(t.stack, PlaceEntry(t.stack))
  /\ \E d \in LeafDirectory(PlaceEntry(t.stack)) :
       u.stack = Append(Past(t.stack), [entries |-> Decode(d.entries), next |-> 1])
  /\ u.tiles = t.tiles /\ u.bytes = t.bytes /\ u.max = t.max

RunAllowed(tiles, e) ==
  e.run > 0 /\ ValidEntry(e) /\ e.run <= Budget(file) - tiles /\ e.length <= MaxTileBytes

Larger(m, n) == IF n > m THEN n ELSE m

Passes(t, u) ==
  /\ AtPlaceEntry(t.stack) /\ RunAllowed(t.tiles, PlaceEntry(t.stack))
  /\ u.stack = Past(t.stack)
  /\ u.tiles = t.tiles + PlaceEntry(t.stack).run
  /\ u.bytes = t.bytes + PlaceEntry(t.stack).run * PlaceEntry(t.stack).length
  /\ u.max = Larger(t.max, PlaceEntry(t.stack).length)

WalkStep(t, u) == Leaves(t, u) \/ Descends(t, u) \/ Passes(t, u)

Starts(t) ==
  /\ \E d \in RootDirectory(file) : t.stack = <<[entries |-> Decode(d.entries), next |-> 1]>>
  /\ t.tiles = 0 /\ t.bytes = 0 /\ t.max = 0

\* A walk of n steps from the root directory.
IsWalk(p, n) ==
  /\ p \in [0..n -> Place] /\ Starts(p[0])
  /\ \A i \in 1..n : WalkStep(p[i - 1], p[i])

Counted(t) == t.tiles = stats.tiles /\ t.bytes = stats.bytes /\ t.max = stats.max

\* What the visitor has been given.
IsBytes(b, tiles) ==
  \E f \in [0..Len(tiles) -> Nat] :
    f[0] = 0 /\ f[Len(tiles)] = b /\ \A i \in 1..Len(tiles) : f[i] = f[i - 1] + tiles[i].blob[2]

IsLargest(m, tiles) ==
  LET lengths == {0} \cup {tiles[i].blob[2] : i \in 1..Len(tiles)}
  IN  m \in lengths /\ \A length \in lengths : length <= m

Delivered(tiles, bytes, max) ==
  Len(visited) = tiles /\ IsBytes(bytes, visited) /\ IsLargest(max, visited)

Blobs == visited \in Seq([z : {IDToZxy(i).z : i \in Nat}, x : {IDToZxy(i).x : i \in Nat},
                          y : {TMSRow(IDToZxy(i)) : i \in Nat}, blob : Uint64 \X Uint64])

\* The scan is at t, or between t and u in the run that lies there.
AtPlace(t) ==
  /\ run = NoRun /\ remaining = Budget(file) - t.tiles
  /\ Delivered(t.tiles, t.bytes, t.max)

InRun(t, u) ==
  /\ run # NoRun /\ remaining = Budget(file) - t.tiles
  /\ run.left + run.step > 0
  /\ u.tiles = t.tiles + (run.left + run.step)
  /\ u.bytes = t.bytes + (run.left + run.step) * run.length
  /\ u.max = Larger(t.max, run.length)
  /\ Delivered(t.tiles + run.step, t.bytes + run.step * run.length,
               IF run.step = 0 THEN t.max ELSE u.max)

Replays(p, m) == p[m].stack = stack /\ (AtPlace(p[m]) \/ (m > 0 /\ InRun(p[m - 1], p[m])))

\* The inspection has taken a walk; the scan is somewhere on the walk that the
\* inspection took to its end.
InspectsWalk ==
  pc = "inspect" =>
    /\ job = "direct" /\ remaining = Budget(file) - stats.tiles
    /\ \E n \in Nat : \E p : IsWalk(p, n) /\ p[n].stack = stack /\ Counted(p[n])

ScansWalk ==
  pc = "scan" /\ job = "direct" =>
    /\ file.addressed = 0 \/ stats.tiles = Budget(file)
    /\ \E n \in Nat : \E p :
         /\ IsWalk(p, n) /\ p[n].stack = <<>> /\ Counted(p[n])
         /\ \E m \in 0..n : Replays(p, m)

WalkInv ==
  /\ Blobs
  /\ pc \in {"inspect", "scan"} => ValidSections(file)
  /\ pc = "open" => stats = NoStats
  /\ stack # <<>> => pc \in {"inspect", "scan"}
  /\ InspectsWalk /\ ScansWalk

-----------------------------------------------------------------------------
(* Steps of a walk                                                           *)

\* A walk depends on the file alone.
LEMMA StepOfFile ==
  ASSUME file' = file, NEW CONSTANT t, NEW CONSTANT u
  PROVE  WalkStep(t, u)' <=> WalkStep(t, u)
<1>1. Descends(t, u)' <=> Descends(t, u)
  BY DEF Descends, LeafAllowed, LeafDirectory, ValidEntry
<1>2. Passes(t, u)' <=> Passes(t, u)
  BY DEF Passes, RunAllowed, ValidEntry, Budget
<1>3. Leaves(t, u)' <=> Leaves(t, u)
  BY DEF Leaves
<1> QED BY <1>1, <1>2, <1>3 DEF WalkStep

LEMMA WalkOfFile ==
  ASSUME file' = file, NEW CONSTANT p, NEW CONSTANT n, IsWalk(p, n)
  PROVE  IsWalk(p, n)'
<1>1. Starts(p[0])' <=> Starts(p[0])
  BY DEF Starts, RootDirectory
<1>2. \A i \in 1..n : WalkStep(p[i - 1], p[i])'
  <2> SUFFICES ASSUME NEW CONSTANT i \in 1..n PROVE WalkStep(p[i - 1], p[i])'
    OBVIOUS
  <2> QED BY StepOfFile DEF IsWalk
<1> QED BY <1>1, <1>2 DEF IsWalk

\* The directory of an entry is the one that lies there.
LEMMA OneDirectory ==
  ASSUME file \in Archive, NEW offset, NEW length, NEW limit,
         NEW d \in DirectoryAt(file, offset, length, limit),
         NEW e \in DirectoryAt(file, offset, length, limit)
  PROVE  d = e
BY PMTilesAssumption DEF DirectoryAt

\* The place of the reader.
LEMMA Here ==
  /\ PlaceTop(stack) = Top /\ PlaceEntry(stack) = Entry /\ Past(stack) = Advanced
  /\ AtEntry => AtPlaceEntry(stack)
BY DEF PlaceTop, PlaceEntry, Top, Entry, Past, Advanced, AtEntry, AtPlaceEntry

\* A step on the walk is the step of the place reached.
LEMMA NextPlace ==
  ASSUME NEW p, NEW n \in Nat, IsWalk(p, n), p[n].stack = <<>>,
         NEW m \in 0..n, p[m].stack # <<>>
  PROVE  m + 1 \in 1..n /\ WalkStep(p[m], p[m + 1]) /\ p[m] \in Place /\ p[m + 1] \in Place
<1>1. m # n
  OBVIOUS
<1>2. m + 1 \in 1..n /\ (m + 1) - 1 = m
  BY <1>1
<1> QED BY <1>2 DEF IsWalk

\* A walk that has not ended can be prolonged.
LEMMA Prolonged ==
  ASSUME NEW p, NEW n \in Nat, IsWalk(p, n), NEW u \in Place, WalkStep(p[n], u)
  PROVE  \E q : IsWalk(q, n + 1) /\ q[n + 1] = u
<1> DEFINE q == [i \in 0..(n + 1) |-> IF i <= n THEN p[i] ELSE u]
<1>1. q \in [0..(n + 1) -> Place] /\ q[n + 1] = u /\ q[0] = p[0]
  BY DEF IsWalk
<1>2. ASSUME NEW i \in 1..(n + 1) PROVE WalkStep(q[i - 1], q[i])
  <2>1. CASE i <= n
    <3>1. q[i] = p[i] /\ q[i - 1] = p[i - 1] /\ i \in 1..n
      BY <2>1
    <3> QED BY <3>1 DEF IsWalk
  <2>2. CASE i = n + 1
    <3>1. q[i] = u /\ q[i - 1] = p[n]
      BY <2>2
    <3> QED BY <3>1
  <2> QED BY <2>1, <2>2
<1>3. IsWalk(q, n + 1)
  <2> HIDE DEF q
  <2> QED BY <1>1, <1>2 DEF IsWalk
<1> QED BY <1>1, <1>3

-----------------------------------------------------------------------------
(* The inspection makes the walk                                             *)

LEMMA InspectMoves ==
  ASSUME ArchiveInv, pc = "inspect", remaining = Budget(file) - stats.tiles,
         NEW CONSTANT t \in Place, t.stack = stack, Counted(t),
         EnterLeaf \/ InspectRun \/ LeaveDirectory
  PROVE  /\ \E u \in Place : WalkStep(t, u) /\ u.stack = stack' /\ u.tiles = stats'.tiles /\ u.bytes = stats'.bytes /\ u.max = stats'.max
         /\ remaining' = Budget(file) - stats'.tiles
<1>0. /\ stack' \in Seq(Frames) /\ remaining \in Nat /\ stats.tiles \in Nat /\ stats.bytes \in Nat
      /\ stats.max \in Nat /\ Budget(file) \in Nat
  <2>1. ArchiveInv'
    BY EnterLeafInv, InspectRunInv, LeaveDirectoryInv
  <2> QED BY <2>1, FileFacts DEF ArchiveInv, StackOK, TypeOK, Frames, Uint64
<1>1. CASE EnterLeaf
  <2>1. /\ AtEntry /\ LeafAccepted(Entry) /\ UNCHANGED <<stats, remaining>>
    BY <1>1 DEF EnterLeaf
  <2>2. PICK d \in LeafDirectory(Entry) : stack' = Append(Advanced, [entries |-> Decode(d.entries), next |-> 1])
    BY <1>1 DEF EnterLeaf
  <2> DEFINE u == [stack |-> stack', tiles |-> t.tiles, bytes |-> t.bytes, max |-> t.max]
  <2>3. u \in Place
    BY <1>0 DEF Place
  <2>4. Descends(t, u)
    BY <2>1, <2>2, Here DEF Descends, LeafAllowed, LeafAccepted
  <2>5. u.tiles = stats'.tiles /\ u.bytes = stats'.bytes /\ u.max = stats'.max
    BY <2>1 DEF Counted
  <2> QED BY <2>1, <2>3, <2>4, <2>5 DEF WalkStep
<1>2. CASE InspectRun
  <2>1. /\ AtEntry /\ RunAccepted(Entry) /\ stack' = Advanced /\ remaining' = remaining - Entry.run
        /\ stats' = [tiles |-> stats.tiles + Entry.run, bytes |-> stats.bytes + Entry.run * Entry.length,
                     max |-> IF Entry.length > stats.max THEN Entry.length ELSE stats.max]
    BY <1>2 DEF InspectRun
  <2>2. Entry.run \in Nat /\ Entry.length \in Nat /\ Entry.run * Entry.length \in Nat
    <3>1. Entry \in Entries /\ Word \in Nat
      BY <2>1, EntryFacts, FileFacts DEF ArchiveInv
    <3> QED BY <3>1 DEF Entries, Uint64
  <2> DEFINE area == Entry.run * Entry.length
             u == [stack |-> stack', tiles |-> t.tiles + Entry.run, bytes |-> t.bytes + area,
                   max |-> Larger(t.max, Entry.length)]
  <2>3. u \in Place
    <3>1. area \in Nat
      BY <2>2
    <3> HIDE DEF area
    <3>2. t.tiles \in Nat /\ t.bytes \in Nat /\ t.max \in Nat
      BY DEF Place
    <3>3. t.tiles + Entry.run \in Nat /\ t.bytes + area \in Nat /\ Larger(t.max, Entry.length) \in Nat
      BY <2>2, <3>1, <3>2 DEF Larger
    <3> QED BY <1>0, <3>3 DEF Place
  <2>4. Passes(t, u)
    <3>1. RunAllowed(t.tiles, Entry)
      BY <2>1 DEF RunAllowed, RunAccepted, Counted
    <3> QED BY <2>1, <3>1, Here DEF Passes
  <2>5. u.tiles = stats'.tiles /\ u.bytes = stats'.bytes /\ u.max = stats'.max
    BY <2>1 DEF Counted, Larger
  <2>6. remaining' = Budget(file) - stats'.tiles
    BY <1>0, <2>1, <2>2
  <2> HIDE DEF u
  <2>7. u.stack = stack'
    BY DEF u
  <2> QED BY <2>3, <2>4, <2>5, <2>6, <2>7 DEF WalkStep
<1>3. CASE LeaveDirectory
  <2>1. /\ stack # <<>> /\ Top.next > Len(Top.entries) /\ stack' = SubSeq(stack, 1, Len(stack) - 1)
        /\ UNCHANGED <<stats, remaining>>
    BY <1>3 DEF LeaveDirectory
  <2> DEFINE u == [stack |-> stack', tiles |-> t.tiles, bytes |-> t.bytes, max |-> t.max]
  <2>2. u \in Place
    BY <1>0 DEF Place
  <2>3. Leaves(t, u)
    BY <2>1, Here DEF Leaves
  <2>4. u.tiles = stats'.tiles /\ u.bytes = stats'.bytes /\ u.max = stats'.max
    BY <2>1 DEF Counted
  <2> QED BY <2>1, <2>2, <2>3, <2>4 DEF WalkStep
<1> QED BY <1>1, <1>2, <1>3

\* The first place of every walk, and of both traversals.
LEMMA StartsHere ==
  ASSUME file \in Archive, NEW phase, BeginWalk(phase), NEW t, Starts(t)
  PROVE  t.stack = stack'
BY OneDirectory DEF BeginWalk, Starts, RootDirectory

LEMMA BeginsPlace ==
  ASSUME ArchiveInv, NEW phase, BeginWalk(phase)
  PROVE  \E t \in Place : Starts(t) /\ t.stack = stack' /\ t.tiles = 0 /\ t.bytes = 0 /\ t.max = 0
<1>1. stack' \in Seq(Frames)
  BY Begins DEF ArchiveInv, FrameSeq, Frames
<1> DEFINE t == [stack |-> stack', tiles |-> 0, bytes |-> 0, max |-> 0]
<1>2. t \in Place
  BY <1>1 DEF Place
<1>3. Starts(t)
  BY DEF Starts, BeginWalk
<1> QED BY <1>2, <1>3

-----------------------------------------------------------------------------
(* The scan repeats it                                                       *)

LEMMA TopFacts ==
  ASSUME ArchiveInv, stack # <<>>
  PROVE  /\ Top.next \in Nat /\ Len(Top.entries) \in Nat
         /\ AtEntry => Entry.run \in Nat /\ Entry.length \in Nat /\ Entry.length \in Uint64
<1>1. Top \in Frames
  <2>1. stack \in Seq(Frames)
    BY DEF ArchiveInv, StackOK, Frames
  <2> QED BY <2>1, ElementType DEF Top
<1>2. AtEntry => Entry \in Entries
  BY EntryFacts
<1>3. Word \in Nat
  BY FileFacts DEF ArchiveInv
<1> QED BY <1>1, <1>2, <1>3 DEF Frames, Entries, Uint64

LEMMA ScanMoves ==
  ASSUME ArchiveInv, pc = "scan", NEW CONSTANT t \in Place, NEW CONSTANT u \in Place,
         WalkStep(t, u), t.stack = stack, AtPlace(t)
  PROVE  /\ EnterLeaf => u.stack = stack' /\ AtPlace(u)'
         /\ LeaveDirectory => u.stack = stack' /\ AtPlace(u)'
         /\ ReadRun => u.stack = stack' /\ InRun(t, u)'
<1>0. t.tiles \in Nat /\ t.bytes \in Nat /\ t.max \in Nat /\ stack # <<>>
  BY DEF Place, WalkStep, Leaves, Descends, Passes, AtPlaceEntry
<1>1. CASE EnterLeaf
  <2>1. AtEntry /\ Entry.run = 0 /\ UNCHANGED <<file, remaining, run, visited>>
    BY <1>1 DEF EnterLeaf, LeafAccepted, envVars, outVars
  <2>2. Descends(t, u)
    BY <1>0, <2>1, TopFacts, Here DEF WalkStep, Leaves, Passes, RunAllowed, AtEntry
  <2>3. PICK d \in LeafDirectory(Entry) : u.stack = Append(Advanced, [entries |-> Decode(d.entries), next |-> 1])
    BY <2>2, Here DEF Descends
  <2>4. PICK e \in LeafDirectory(Entry) : stack' = Append(Advanced, [entries |-> Decode(e.entries), next |-> 1])
    BY <1>1 DEF EnterLeaf
  <2>5. d = e
    BY OneDirectory DEF LeafDirectory, ArchiveInv
  <2>6. u.tiles = t.tiles /\ u.bytes = t.bytes /\ u.max = t.max
    BY <2>2 DEF Descends
  <2>7. AtPlace(u)'
    BY <2>1, <2>6 DEF AtPlace, Delivered, Budget
  <2> QED BY <1>1, <2>3, <2>4, <2>5, <2>7 DEF LeaveDirectory, ReadRun, LeafAccepted, RunAccepted, EnterLeaf, AtEntry
<1>2. CASE LeaveDirectory
  <2>1. /\ Top.next > Len(Top.entries) /\ stack' = SubSeq(stack, 1, Len(stack) - 1) /\ ~AtEntry
        /\ UNCHANGED <<file, remaining, run, visited>>
    BY <1>0, <1>2, TopFacts DEF LeaveDirectory, envVars, outVars, AtEntry
  <2>2. Leaves(t, u)
    BY <1>0, <2>1, TopFacts, Here DEF WalkStep, Descends, Passes, AtPlaceEntry
  <2>3. u.tiles = t.tiles /\ u.bytes = t.bytes /\ u.max = t.max /\ u.stack = stack'
    BY <2>1, <2>2 DEF Leaves
  <2>4. AtPlace(u)'
    BY <2>1, <2>3 DEF AtPlace, Delivered, Budget
  <2> QED BY <2>1, <2>3, <2>4 DEF EnterLeaf, ReadRun
<1>3. CASE ReadRun
  <2>1. /\ AtEntry /\ Entry.run > 0 /\ stack' = Advanced /\ UNCHANGED <<file, remaining, visited>>
        /\ run' = [id |-> Entry.id, length |-> Entry.length, offset |-> Entry.offset, left |-> Entry.run, step |-> 0]
    BY <1>3 DEF ReadRun, RunAccepted, envVars, outVars
  <2>2. Entry.run \in Nat /\ Entry.length \in Nat /\ NoRun.left = 0
    BY <1>0, <2>1, TopFacts, NoRunType DEF ArchiveInv
  <2>3. Passes(t, u)
    BY <1>0, <2>1, <2>2, TopFacts, Here DEF WalkStep, Leaves, Descends, LeafAllowed, AtEntry
  <2>4. /\ u.tiles = t.tiles + Entry.run /\ u.bytes = t.bytes + Entry.run * Entry.length
        /\ u.max = Larger(t.max, Entry.length) /\ u.stack = stack'
    BY <2>1, <2>3, Here DEF Passes
  <2>5. /\ run'.left = Entry.run /\ run'.step = 0 /\ run'.length = Entry.length /\ run' # NoRun
        /\ run'.left + run'.step = Entry.run /\ run'.left + run'.step > 0
    BY <2>1, <2>2
  <2>6. Delivered(t.tiles, t.bytes, t.max)'
    BY <2>1 DEF AtPlace, Delivered
  <2>7. t.tiles + run'.step = t.tiles /\ t.bytes + run'.step * run'.length = t.bytes
    BY <1>0, <2>2, <2>5
  <2>8. Delivered(t.tiles + run.step, t.bytes + run.step * run.length, IF run.step = 0 THEN t.max ELSE u.max)'
    BY <2>5, <2>6, <2>7
  <2>9. (remaining = Budget(file) - t.tiles)'
    BY <2>1 DEF AtPlace, Budget
  <2>10. InRun(t, u)'
    BY <2>4, <2>5, <2>8, <2>9 DEF InRun
  <2> QED BY <2>1, <2>2, <2>4, <2>10 DEF EnterLeaf, LeafAccepted, LeaveDirectory, AtEntry
<1> QED BY <1>1, <1>2, <1>3

LEMMA LengthsAreNumbers ==
  ASSUME ArchiveInv, Blobs
  PROVE  \A i \in 1..Len(visited) : visited[i].blob[2] \in Nat
<1> DEFINE T == [z : {IDToZxy(i).z : i \in Nat}, x : {IDToZxy(i).x : i \in Nat},
                 y : {TMSRow(IDToZxy(i)) : i \in Nat}, blob : Uint64 \X Uint64]
<1>1. visited \in Seq(T)
  BY DEF Blobs
<1>2. \A e \in T : e.blob \in Uint64 \X Uint64
  OBVIOUS
<1>3. \A i \in 1..Len(visited) : visited[i] \in T
  <2> HIDE DEF T
  <2> QED BY <1>1
<1>4. Word \in Nat
  BY FileFacts DEF ArchiveInv
<1> QED BY <1>2, <1>3, <1>4 DEF Uint64

LEMMA VisitMoves ==
  ASSUME ArchiveInv, Blobs, Visit, NEW CONSTANT t \in Place, NEW CONSTANT u \in Place, InRun(t, u)
  PROVE  InRun(t, u)'
<1>1. /\ run # NoRun /\ run.left > 0 /\ visited' = Append(visited, VisitedTile)
      /\ run' = [run EXCEPT !.left = @ - 1, !.step = @ + 1]
      /\ UNCHANGED <<file, remaining>>
  BY DEF Visit, envVars
<1>2. /\ run \in RunType /\ run.left \in Nat /\ run.step \in Nat /\ run.length \in Nat
  <2>1. run \in RunType /\ Word \in Nat
    BY FileFacts DEF ArchiveInv, TypeOK, RunType
  <2> QED BY <2>1 DEF RunType, Uint64
<1>3. /\ run'.left = run.left - 1 /\ run'.step = run.step + 1 /\ run'.length = run.length
      /\ run'.left + run'.step = run.left + run.step
  BY <1>1, <1>2 DEF RunType
<1>4. run' # NoRun
  <2>1. NoRun.step = 0
    BY DEF NoRun
  <2> QED BY <1>2, <1>3, <2>1
<1>5. PICK tiles, bytes, max : /\ tiles = t.tiles + run.step /\ bytes = t.bytes + run.step * run.length
                               /\ max = (IF run.step = 0 THEN t.max ELSE u.max)
                               /\ Delivered(tiles, bytes, max)
  BY DEF InRun
<1>6. VisitedTile.blob[2] = run.length
  BY DEF VisitedTile
<1>7. Len(visited) \in Nat /\ Len(visited') = Len(visited) + 1
      /\ visited'[Len(visited) + 1] = VisitedTile /\ \A i \in 1..Len(visited) : visited'[i] = visited[i]
  BY <1>1 DEF Blobs
<1>8. IsBytes(bytes + run.length, visited')
  <2>1. PICK f \in [0..Len(visited) -> Nat] :
          f[0] = 0 /\ f[Len(visited)] = bytes /\ \A i \in 1..Len(visited) : f[i] = f[i - 1] + visited[i].blob[2]
    BY <1>5 DEF Delivered, IsBytes
  <2> DEFINE g == [i \in 0..Len(visited') |-> IF i <= Len(visited) THEN f[i] ELSE bytes + run.length]
  <2>2. bytes \in Nat
    BY <1>7, <2>1
  <2>3. g \in [0..Len(visited') -> Nat] /\ g[0] = 0 /\ g[Len(visited')] = bytes + run.length
    BY <1>2, <1>7, <2>1, <2>2
  <2>4. ASSUME NEW i \in 1..Len(visited') PROVE g[i] = g[i - 1] + visited'[i].blob[2]
    <3>1. CASE i <= Len(visited)
      <4>1. g[i] = f[i] /\ g[i - 1] = f[i - 1] /\ i \in 1..Len(visited)
        BY <1>7, <3>1
      <4> QED BY <1>7, <2>1, <4>1
    <3>2. CASE i = Len(visited) + 1
      <4>1. g[i] = bytes + run.length /\ g[i - 1] = bytes /\ visited'[i].blob[2] = run.length
        BY <1>6, <1>7, <2>1, <3>2
      <4> QED BY <4>1
    <3> QED BY <1>7, <3>1, <3>2
  <2> HIDE DEF g
  <2> QED BY <2>3, <2>4 DEF IsBytes
<1>9. IsLargest(Larger(max, run.length), visited')
  <2> DEFINE old == {0} \cup {visited[i].blob[2] : i \in 1..Len(visited)}
             new == {0} \cup {visited'[i].blob[2] : i \in 1..Len(visited')}
  <2>1. max \in old /\ \A length \in old : length <= max
    BY <1>5 DEF Delivered, IsLargest
  <2>2. new = old \cup {run.length}
    <3>1. 1..Len(visited') = 1..Len(visited) \cup {Len(visited) + 1}
      BY <1>7
    <3> QED BY <1>6, <1>7, <3>1
  <2>3. old \subseteq Nat
    <3>1. \A i \in 1..Len(visited) : visited[i].blob[2] \in Nat
      BY LengthsAreNumbers
    <3> QED BY <3>1
  <2> HIDE DEF old, new
  <2>4. Larger(max, run.length) \in new /\ \A length \in new : length <= Larger(max, run.length)
    BY <1>2, <2>1, <2>2, <2>3 DEF Larger
  <2> QED BY <2>4 DEF IsLargest, new
<1>10. tiles + 1 = t.tiles + run'.step /\ bytes + run.length = t.bytes + run'.step * run'.length
  <2>1. (run.step + 1) * run.length = run.step * run.length + run.length /\ run.step * run.length \in Nat
    BY <1>2
  <2> DEFINE area == run.step * run.length
  <2>2. run'.step * run'.length = area + run.length
    BY <1>3, <2>1
  <2>3. area \in Nat /\ t.bytes \in Nat /\ t.tiles \in Nat /\ bytes = t.bytes + area
    BY <1>5, <2>1 DEF Place
  <2> HIDE DEF area
  <2> QED BY <1>2, <1>3, <1>5, <2>2, <2>3
<1>11. Larger(max, run.length) = (IF run'.step = 0 THEN t.max ELSE u.max)
  <2>1. u.max = Larger(t.max, run.length) /\ t.max \in Nat
    BY DEF InRun, Place
  <2> QED BY <1>2, <1>3, <1>5, <2>1 DEF Larger
<1>12. Len(visited') = t.tiles + run'.step
  BY <1>5, <1>7, <1>10 DEF Delivered
<1>13. Delivered(t.tiles + run.step, t.bytes + run.step * run.length, IF run.step = 0 THEN t.max ELSE u.max)'
  BY <1>8, <1>9, <1>10, <1>11, <1>12 DEF Delivered
<1> QED BY <1>1, <1>3, <1>4, <1>13 DEF InRun, Budget

LEMMA FinishMoves ==
  ASSUME ArchiveInv, FinishRun, NEW CONSTANT t \in Place, NEW CONSTANT u \in Place, InRun(t, u)
  PROVE  AtPlace(u)'
<1>1. /\ run.left = 0 /\ remaining' = remaining - run.step /\ run' = NoRun
      /\ UNCHANGED <<file, visited>>
  BY DEF FinishRun, envVars, outVars
<1>2. run.step \in Nat /\ run.step # 0 /\ run.left + run.step = run.step
  BY <1>1 DEF InRun, ArchiveInv, TypeOK
<1>3. u.tiles = t.tiles + run.step /\ u.bytes = t.bytes + run.step * run.length
  BY <1>2 DEF InRun
<1>4. Delivered(u.tiles, u.bytes, u.max)
  BY <1>2, <1>3 DEF InRun
<1>5. Budget(file) \in Nat /\ t.tiles \in Nat
  BY FileFacts DEF ArchiveInv, Place
<1>6. (remaining = Budget(file) - u.tiles)'
  BY <1>1, <1>2, <1>3, <1>5 DEF InRun, Budget
<1> QED BY <1>1, <1>4, <1>6 DEF AtPlace, Delivered

-----------------------------------------------------------------------------
(* What the inspection foretells                                             *)

LEMMA InitWalk == Init => WalkInv
<1> SUFFICES ASSUME Init PROVE WalkInv
  OBVIOUS
<1>1. Blobs
  BY DEF Init, Blobs
<1> QED BY <1>1 DEF Init, WalkInv, InspectsWalk, ScansWalk

LEMMA AppendType ==
  ASSUME NEW T, NEW s \in Seq(T), NEW e \in T
  PROVE  Append(s, e) \in Seq(T)
OBVIOUS

LEMMA NextBlobs == ArchiveInv /\ Blobs /\ [Next]_vars => Blobs'
<1> SUFFICES ASSUME ArchiveInv, Blobs, [Next]_vars PROVE Blobs'
  OBVIOUS
<1>1. CASE Visit
  <2> DEFINE T == [z : {IDToZxy(i).z : i \in Nat}, x : {IDToZxy(i).x : i \in Nat},
                   y : {TMSRow(IDToZxy(i)) : i \in Nat}, blob : Uint64 \X Uint64]
  <2>1. run.id \in Uint64 /\ run.step \in Nat /\ run.offset \in Uint64 /\ run.length \in Uint64 /\ Word \in Nat
    <3>1. run \in RunType /\ Word \in Nat
      BY FileFacts DEF ArchiveInv, TypeOK, RunType
    <3> QED BY <3>1 DEF RunType
  <2>2. run.id + run.step \in Nat
    BY <2>1 DEF Uint64
  <2>3. VisitedTile \in T
    BY <2>1, <2>2 DEF VisitedTile
  <2>4. visited \in Seq(T) /\ visited' = Append(visited, VisitedTile)
    BY <1>1 DEF Blobs, Visit
  <2>5. visited' \in Seq(T)
    <3> HIDE DEF T
    <3> QED BY <2>3, <2>4, AppendType
  <2> QED BY <2>5 DEF Blobs
<1>2. CASE ~Visit
  <2>1. visited' = visited
    BY <1>2 DEF Next, Step, vars, envVars, outVars, Open, RejectArchive, EnterLeaf, InspectRun, ReadRun,
                RejectEntry, VisitCanceled, FinishRun, LeaveDirectory, Inspected, DirectScanned,
                StageIndexed, RejectCount, Fail, Cancel, Abort
  <2> QED BY <2>1 DEF Blobs
<1> QED BY <1>1, <1>2

LEMMA NoneDelivered ==
  ASSUME visited = <<>>
  PROVE  Delivered(0, 0, 0)
<1>1. IsBytes(0, <<>>)
  <2> DEFINE f == [i \in 0..0 |-> 0]
  <2>1. Len(<<>>) = 0 /\ 1..0 = {}
    OBVIOUS
  <2>2. f \in [0..Len(<<>>) -> Nat] /\ f[0] = 0 /\ f[Len(<<>>)] = 0
    BY <2>1
  <2> HIDE DEF f
  <2> QED BY <2>1, <2>2 DEF IsBytes
<1>2. IsLargest(0, <<>>)
  BY DEF IsLargest
<1> QED BY <1>1, <1>2 DEF Delivered

\* The inspection begins.
LEMMA OpenWalk == ArchiveInv /\ WalkInv /\ Open => InspectsWalk' /\ ScansWalk'
<1> SUFFICES ASSUME ArchiveInv, WalkInv, Open PROVE InspectsWalk' /\ ScansWalk'
  OBVIOUS
<1>1. /\ BeginWalk(IF job = "direct" THEN "inspect" ELSE "scan") /\ file' = file /\ job' = job
      /\ stats' = stats /\ stats = NoStats
  BY DEF Open, envVars, WalkInv
<1>2. ASSUME job # "direct" PROVE InspectsWalk' /\ ScansWalk'
  BY <1>1, <1>2 DEF InspectsWalk, ScansWalk, BeginWalk
<1>3. ASSUME job = "direct" PROVE InspectsWalk' /\ ScansWalk'
  <2>1. BeginWalk("inspect") /\ pc' = "inspect" /\ remaining' = Budget(file)
    BY <1>1, <1>3 DEF BeginWalk
  <2>2. PICK t \in Place : Starts(t) /\ t.stack = stack' /\ t.tiles = 0 /\ t.bytes = 0 /\ t.max = 0
    BY <2>1, BeginsPlace
  <2> DEFINE p == [i \in 0..0 |-> t]
  <2>3. IsWalk(p, 0) /\ p[0] = t
    BY <2>2 DEF IsWalk
  <2> HIDE DEF p
  <2>4. IsWalk(p, 0)'
    BY <1>1, <2>3, WalkOfFile
  <2>5. stats'.tiles = 0 /\ stats'.bytes = 0 /\ stats'.max = 0
    BY <1>1 DEF NoStats
  <2>6. Counted(p[0])'
    BY <2>2, <2>3, <2>5 DEF Counted
  <2>7. Budget(file') = Budget(file) /\ Budget(file) \in Nat
    BY <1>1, FileFacts DEF ArchiveInv
  <2>8. InspectsWalk'
    BY <1>1, <1>3, <2>1, <2>2, <2>3, <2>4, <2>5, <2>6, <2>7 DEF InspectsWalk
  <2> QED BY <2>1, <2>8 DEF ScansWalk
<1> QED BY <1>2, <1>3

\* The inspection goes on.
LEMMA InspectWalk ==
  ArchiveInv /\ WalkInv /\ pc = "inspect" /\ (EnterLeaf \/ InspectRun \/ LeaveDirectory)
    => InspectsWalk' /\ ScansWalk'
<1> SUFFICES ASSUME ArchiveInv, WalkInv, pc = "inspect", EnterLeaf \/ InspectRun \/ LeaveDirectory
             PROVE  InspectsWalk' /\ ScansWalk'
  OBVIOUS
<1>1. UNCHANGED <<file, job, pc>>
  BY DEF EnterLeaf, InspectRun, LeaveDirectory, envVars
<1>2. /\ job = "direct" /\ remaining = Budget(file) - stats.tiles
      /\ \E n \in Nat : \E p : IsWalk(p, n) /\ p[n].stack = stack /\ Counted(p[n])
  BY DEF WalkInv, InspectsWalk
<1>w. PICK n \in Nat : \E p : IsWalk(p, n) /\ p[n].stack = stack /\ Counted(p[n])
  BY <1>2
<1>3. PICK p : IsWalk(p, n) /\ p[n].stack = stack /\ Counted(p[n])
  BY <1>w
<1>4. p[n] \in Place
  BY <1>3 DEF IsWalk
<1>5. PICK u \in Place : /\ WalkStep(p[n], u) /\ u.stack = stack'
                         /\ u.tiles = stats'.tiles /\ u.bytes = stats'.bytes /\ u.max = stats'.max
  BY <1>2, <1>3, <1>4, InspectMoves
<1>6. remaining' = Budget(file) - stats'.tiles
  BY <1>2, <1>3, <1>4, InspectMoves
<1>7. PICK q : IsWalk(q, n + 1) /\ q[n + 1] = u
  BY <1>3, <1>5, Prolonged
<1>8. IsWalk(q, n + 1)'
  BY <1>1, <1>7, WalkOfFile
<1>9. Counted(q[n + 1])' /\ q[n + 1].stack = stack'
  BY <1>5, <1>7 DEF Counted
<1>10. n + 1 \in Nat
  OBVIOUS
<1>11. Budget(file') = Budget(file)
  BY <1>1
<1> QED BY <1>1, <1>2, <1>6, <1>8, <1>9, <1>10, <1>11 DEF InspectsWalk, ScansWalk

\* The scan begins where the inspection began.
LEMMA InspectedWalk == ArchiveInv /\ WalkInv /\ Inspected => InspectsWalk' /\ ScansWalk'
<1> SUFFICES ASSUME ArchiveInv, WalkInv, Inspected PROVE InspectsWalk' /\ ScansWalk'
  OBVIOUS
<1>1. /\ pc = "inspect" /\ stack = <<>> /\ CountsMatch /\ BeginWalk("scan") /\ visited = <<>>
      /\ UNCHANGED <<file, job, stats, visited>>
  BY DEF Inspected, WalkEnds, envVars, outVars, ArchiveInv, RunOK
<1>2. /\ job = "direct" /\ remaining = Budget(file) - stats.tiles
      /\ \E n \in Nat : \E p : IsWalk(p, n) /\ p[n].stack = stack /\ Counted(p[n])
  BY <1>1 DEF WalkInv, InspectsWalk
<1>w. PICK n \in Nat : \E p : IsWalk(p, n) /\ p[n].stack = <<>> /\ Counted(p[n])
  BY <1>1, <1>2
<1>3. PICK p : IsWalk(p, n) /\ p[n].stack = <<>> /\ Counted(p[n])
  BY <1>w
<1>4. /\ pc' = "scan" /\ run' = NoRun /\ remaining' = Budget(file)
  BY <1>1 DEF BeginWalk
<1>5. Budget(file) \in Nat /\ stats.tiles \in Nat
  BY FileFacts DEF ArchiveInv, TypeOK, Uint64
<1>6. file.addressed = 0 \/ stats.tiles = Budget(file)
  BY <1>1, <1>2, <1>5 DEF CountsMatch
<1>7. p[0].stack = stack' /\ p[0].tiles = 0 /\ p[0].bytes = 0 /\ p[0].max = 0
  BY <1>1, <1>3, StartsHere DEF IsWalk, Starts, ArchiveInv
<1>8. Delivered(0, 0, 0)'
  <2>1. Delivered(0, 0, 0)
    BY <1>1, NoneDelivered
  <2> QED BY <1>1, <2>1 DEF Delivered
<1>9. Replays(p, 0)'
  <2>1. (remaining = Budget(file) - p[0].tiles)'
    BY <1>1, <1>4, <1>5, <1>7
  <2> QED BY <1>4, <1>7, <1>8, <2>1 DEF Replays, AtPlace
<1>10. IsWalk(p, n)' /\ Counted(p[n])'
  BY <1>1, <1>3, WalkOfFile DEF Counted
<1>11. 0 \in 0..n
  OBVIOUS
<1>12. (file.addressed = 0 \/ stats.tiles = Budget(file))'
  BY <1>1, <1>6
<1>13. ScansWalk'
  BY <1>3, <1>9, <1>10, <1>11, <1>12 DEF ScansWalk
<1> QED BY <1>4, <1>13 DEF InspectsWalk

\* The scan goes on.
LEMMA ScanWalk ==
  ArchiveInv /\ WalkInv /\ pc = "scan" /\ (EnterLeaf \/ LeaveDirectory \/ ReadRun \/ Visit \/ FinishRun)
    => InspectsWalk' /\ ScansWalk'
<1> SUFFICES ASSUME ArchiveInv, WalkInv, pc = "scan", job = "direct",
                    EnterLeaf \/ LeaveDirectory \/ ReadRun \/ Visit \/ FinishRun
             PROVE  ScansWalk'
  BY DEF EnterLeaf, LeaveDirectory, ReadRun, Visit, FinishRun, envVars, InspectsWalk, ScansWalk
<1>1. UNCHANGED <<file, job, pc, stats>>
  BY DEF EnterLeaf, LeaveDirectory, ReadRun, Visit, FinishRun, envVars
<1>2. /\ file.addressed = 0 \/ stats.tiles = Budget(file)
      /\ \E n \in Nat : \E p :
         /\ IsWalk(p, n) /\ p[n].stack = <<>> /\ Counted(p[n])
         /\ \E m \in 0..n : Replays(p, m)
  BY DEF WalkInv, ScansWalk
<1>w. PICK n \in Nat : \E p : IsWalk(p, n) /\ p[n].stack = <<>> /\ Counted(p[n]) /\ \E m \in 0..n : Replays(p, m)
  BY <1>2
<1>3. PICK p : IsWalk(p, n) /\ p[n].stack = <<>> /\ Counted(p[n]) /\ \E m \in 0..n : Replays(p, m)
  BY <1>w
<1>4. PICK m \in 0..n : Replays(p, m)
  BY <1>3
<1>5. \E k \in 0..n : Replays(p, k)'
  <2>1. CASE EnterLeaf \/ LeaveDirectory \/ ReadRun
    <3>1. stack # <<>> /\ run = NoRun
      BY <2>1 DEF EnterLeaf, LeaveDirectory, ReadRun, AtEntry
    <3>2. p[m].stack = stack /\ AtPlace(p[m])
      BY <1>4, <3>1 DEF Replays, InRun
    <3>3. m + 1 \in 1..n /\ WalkStep(p[m], p[m + 1]) /\ p[m] \in Place /\ p[m + 1] \in Place
      BY <1>3, <3>1, <3>2, NextPlace
    <3>4. p[m + 1].stack = stack' /\ (AtPlace(p[m + 1])' \/ InRun(p[m], p[m + 1])')
      BY <2>1, <3>2, <3>3, ScanMoves
    <3>5. m + 1 > 0 /\ (m + 1) - 1 = m /\ m + 1 \in 0..n
      BY <3>3
    <3>6. Replays(p, m + 1)'
      BY <3>4, <3>5 DEF Replays
    <3> QED BY <3>5, <3>6
  <2>2. CASE Visit \/ FinishRun
    <3>1. run # NoRun /\ stack' = stack
      BY <2>2 DEF Visit, FinishRun
    <3>2. p[m].stack = stack /\ m > 0 /\ InRun(p[m - 1], p[m])
      BY <1>4, <3>1 DEF Replays, AtPlace
    <3>3. p[m - 1] \in Place /\ p[m] \in Place
      BY <1>3, <3>2 DEF IsWalk
    <3>4. AtPlace(p[m])' \/ InRun(p[m - 1], p[m])'
      BY <2>2, <3>2, <3>3, VisitMoves, FinishMoves DEF WalkInv
    <3>5. Replays(p, m)'
      BY <3>1, <3>2, <3>4 DEF Replays
    <3> QED BY <3>5
  <2> QED BY <2>1, <2>2
<1>6. IsWalk(p, n)' /\ Counted(p[n])'
  BY <1>1, <1>3, WalkOfFile DEF Counted
<1>7. (file.addressed = 0 \/ stats.tiles = Budget(file))'
  BY <1>1, <1>2
<1> QED BY <1>3, <1>5, <1>6, <1>7 DEF ScansWalk

\* A cancellation, and steps that leave everything alone.
LEMMA StillWalk ==
  ArchiveInv /\ WalkInv /\ (Cancel \/ UNCHANGED vars) => InspectsWalk' /\ ScansWalk'
<1> SUFFICES ASSUME ArchiveInv, WalkInv, Cancel \/ UNCHANGED vars PROVE InspectsWalk' /\ ScansWalk'
  OBVIOUS
<1>1. UNCHANGED <<file, job, pc, stack, remaining, run, stats, visited>>
  BY DEF Cancel, vars, envVars, walkVars, outVars
<1>2. InspectsWalk'
  <2> SUFFICES ASSUME pc = "inspect" PROVE InspectsWalk'
    BY <1>1 DEF InspectsWalk
  <2>w. PICK n \in Nat : \E p : IsWalk(p, n) /\ p[n].stack = stack /\ Counted(p[n])
    BY DEF WalkInv, InspectsWalk
  <2>1. PICK p : IsWalk(p, n) /\ p[n].stack = stack /\ Counted(p[n])
    BY <2>w
  <2>2. IsWalk(p, n)' /\ Counted(p[n])' /\ p[n].stack = stack'
    BY <1>1, <2>1, WalkOfFile DEF Counted
  <2>3. (job = "direct" /\ remaining = Budget(file) - stats.tiles)'
    BY <1>1 DEF WalkInv, InspectsWalk
  <2> QED BY <2>2, <2>3 DEF InspectsWalk
<1>3. ScansWalk'
  <2> SUFFICES ASSUME pc = "scan", job = "direct" PROVE ScansWalk'
    BY <1>1 DEF ScansWalk
  <2>w. PICK n \in Nat : \E p : IsWalk(p, n) /\ p[n].stack = <<>> /\ Counted(p[n]) /\ \E m \in 0..n : Replays(p, m)
    BY DEF WalkInv, ScansWalk
  <2>1. PICK p : IsWalk(p, n) /\ p[n].stack = <<>> /\ Counted(p[n]) /\ \E m \in 0..n : Replays(p, m)
    BY <2>w
  <2>2. IsWalk(p, n)' /\ Counted(p[n])'
    BY <1>1, <2>1, WalkOfFile DEF Counted
  <2>3. \E m \in 0..n : Replays(p, m)'
    <3>1. PICK m \in 0..n : Replays(p, m)
      BY <2>1
    <3>2. Replays(p, m)'
      BY <1>1, <3>1 DEF Replays, AtPlace, InRun, Delivered
    <3> QED BY <3>2
  <2>4. (file.addressed = 0 \/ stats.tiles = Budget(file))'
    BY <1>1 DEF WalkInv, ScansWalk
  <2> QED BY <2>1, <2>2, <2>3, <2>4 DEF ScansWalk
<1> QED BY <1>2, <1>3

LEMMA WalkEnters ==
  ASSUME ArchiveInv, WalkInv
  PROVE  /\ EnterLeaf \/ LeaveDirectory => pc \in {"inspect", "scan"}
         /\ InspectRun => pc = "inspect"
         /\ ReadRun \/ Visit \/ FinishRun => pc = "scan"
BY DEF WalkInv, ArchiveInv, RunOK, EnterLeaf, InspectRun, LeaveDirectory, ReadRun, Visit, FinishRun, AtEntry

LEMMA NextWalk == ArchiveInv /\ WalkInv /\ [Next]_vars => WalkInv'
<1> SUFFICES ASSUME ArchiveInv, WalkInv, [Next]_vars PROVE WalkInv'
  OBVIOUS
<1>1. Blobs'
  BY NextBlobs DEF WalkInv
<1>2. /\ (pc \in {"inspect", "scan"} => ValidSections(file))' /\ (pc = "open" => stats = NoStats)'
      /\ (stack # <<>> => pc \in {"inspect", "scan"})'
  <2>1. CASE Open \/ Inspected
    <3>1. file' = file /\ ValidSections(file) /\ pc' \in {"inspect", "scan"}
      BY <2>1 DEF Open, Inspected, BeginWalk, CanOpen, envVars, WalkInv
    <3> QED BY <3>1
  <2>2. CASE RejectArchive \/ RejectEntry \/ VisitCanceled \/ RejectCount \/ Fail
    BY <2>2 DEF RejectArchive, RejectEntry, VisitCanceled, RejectCount, Fail, Abort
  <2>3. CASE EnterLeaf \/ InspectRun \/ ReadRun \/ Visit \/ FinishRun \/ LeaveDirectory
    <3>1. file' = file /\ pc' = pc /\ pc \in {"inspect", "scan"}
      BY <2>3, WalkEnters DEF EnterLeaf, InspectRun, ReadRun, Visit, FinishRun, LeaveDirectory, envVars
    <3> QED BY <3>1 DEF WalkInv
  <2>4. CASE DirectScanned \/ StageIndexed \/ Cancel \/ UNCHANGED vars
    BY <2>4 DEF DirectScanned, StageIndexed, Cancel, vars, envVars, walkVars, WalkInv, WalkEnds
  <2> QED BY <2>1, <2>2, <2>3, <2>4 DEF Next, Step
<1>3. InspectsWalk' /\ ScansWalk'
  <2>1. CASE Open \/ Inspected
    BY <2>1, OpenWalk, InspectedWalk
  <2>2. CASE pc = "inspect" /\ (EnterLeaf \/ InspectRun \/ LeaveDirectory)
    BY <2>2, InspectWalk
  <2>3. CASE pc = "scan" /\ (EnterLeaf \/ LeaveDirectory \/ ReadRun \/ Visit \/ FinishRun)
    BY <2>3, ScanWalk
  <2>4. CASE Cancel \/ UNCHANGED vars
    BY <2>4, StillWalk
  <2>5. CASE RejectArchive \/ RejectEntry \/ VisitCanceled \/ RejectCount \/ Fail \/ DirectScanned \/ StageIndexed
    BY <2>5 DEF RejectArchive, RejectEntry, VisitCanceled, RejectCount, Fail, DirectScanned, StageIndexed,
                Abort, InspectsWalk, ScansWalk
  <2> QED BY <2>1, <2>2, <2>3, <2>4, <2>5, WalkEnters DEF Next, Step
<1> QED BY <1>1, <1>2, <1>3 DEF WalkInv

\* The entry at which a scan is has been accepted by the inspection, and a
\* section that is not empty can be read wherever an entry may lie.
LEMMA ReadAccepted ==
  ASSUME file \in Archive, ValidSections(file), file.data.length # 0,
         NEW e, e.offset \in Nat, e.length \in Nat, e.run > 0, ValidEntry(e)
  PROVE  CanRead(e)
<1>1. /\ file.size \in Nat /\ file.data.offset \in Nat /\ file.data.length \in Nat /\ Word \in Nat
      /\ 2 * file.size < Word
  BY FileFacts, PMTilesAssumption DEF Uint64
<1>2. file.data.offset <= file.size /\ file.data.length <= file.size - file.data.offset
  BY DEF ValidSections, InFile
<1>3. e.offset <= file.data.length /\ e.length <= file.data.length - e.offset
  BY DEF ValidEntry, Within
<1>4. file.data.offset + e.offset \in Nat /\ file.data.offset + e.offset <= file.size
  BY <1>1, <1>2, <1>3
<1>5. e.length <= file.size - (file.data.offset + e.offset)
  BY <1>1, <1>2, <1>3
<1> QED BY <1>1, <1>4, <1>5 DEF CanRead, Adds, InFile

LEMMA EntryOfWalk ==
  ASSUME ArchiveInv, WalkInv, AtEntry, pc = "scan", job = "direct", file.data.length # 0
  PROVE  EntryAccepted(Entry)
<1>w. PICK n \in Nat : \E p : IsWalk(p, n) /\ p[n].stack = <<>> /\ \E m \in 0..n : Replays(p, m)
  BY DEF WalkInv, ScansWalk
<1>1. PICK p : IsWalk(p, n) /\ p[n].stack = <<>> /\ \E m \in 0..n : Replays(p, m)
  BY <1>w
<1>2. PICK m \in 0..n : Replays(p, m)
  BY <1>1
<1>3. stack # <<>> /\ run = NoRun /\ p[m].stack = stack /\ remaining = Budget(file) - p[m].tiles
  BY <1>2 DEF Replays, InRun, AtPlace, AtEntry
<1>4. WalkStep(p[m], p[m + 1])
  BY <1>1, <1>3, NextPlace
<1>5. Top.next <= Len(Top.entries) /\ Top.next \in Nat /\ Len(Top.entries) \in Nat
  BY <1>3, TopFacts DEF AtEntry
<1>6. ~Leaves(p[m], p[m + 1])
  BY <1>3, <1>5, Here DEF Leaves
<1>7. CASE Descends(p[m], p[m + 1])
  BY <1>3, <1>7, Here DEF Descends, LeafAllowed, EntryAccepted, LeafAccepted
<1>8. CASE Passes(p[m], p[m + 1])
  <2>1. RunAccepted(Entry)
    BY <1>3, <1>8, Here DEF Passes, RunAllowed, RunAccepted
  <2>2. Entry.offset \in Nat /\ Entry.length \in Nat
    <3>1. Entry \in Entries /\ Word \in Nat
      BY EntryFacts, FileFacts DEF ArchiveInv
    <3> QED BY <3>1 DEF Entries, Uint64
  <2>3. CanRead(Entry)
    BY <2>1, <2>2, ReadAccepted DEF RunAccepted, ArchiveInv, WalkInv
  <2> QED BY <2>1, <2>3 DEF EntryAccepted
<1> QED BY <1>4, <1>6, <1>7, <1>8 DEF WalkStep

\* The sum of the model, by its equations.
LEMMA Induction ==
  ASSUME NEW S, 0 \in S, \A n \in Nat \cap S : n + 1 \in S
  PROVE  \A n \in Nat : n \in S
<1> SUFFICES ASSUME Nat \ S # {} PROVE FALSE
  OBVIOUS
<1>1. IsWellFoundedOn(OpToRel(<, Nat), Nat)
  BY NatLessThanWellFounded
<1>2. PICK n \in Nat \ S : \A m \in Nat \ S : <<m, n>> \notin OpToRel(<, Nat)
  BY <1>1, WFMin
<1>3. n \in Nat /\ n # 0
  BY <1>2
<1>4. n - 1 \in Nat /\ n - 1 < n /\ n = (n - 1) + 1
  BY <1>3
<1>5. n - 1 \notin Nat \ S
  BY <1>2, <1>4 DEF OpToRel
<1> QED BY <1>2, <1>4, <1>5

LEMMA BytesAre ==
  ASSUME NEW b, NEW tiles, Len(tiles) \in Nat, IsBytes(b, tiles)
  PROVE  Bytes(tiles) = b
<1> DEFINE n == Len(tiles)
           Rec(g) == g = [i \in 0..n |-> IF i = 0 THEN 0 ELSE g[i - 1] + tiles[i].blob[2]]
           sum == CHOOSE g : Rec(g)
<1>1. PICK f \in [0..n -> Nat] : f[0] = 0 /\ f[n] = b /\ \A i \in 1..n : f[i] = f[i - 1] + tiles[i].blob[2]
  BY DEF IsBytes
<1>2. Rec(f)
  BY <1>1
<1>3. Rec(sum)
  BY <1>2
<1> HIDE DEF sum
<1> DEFINE S == {i \in Nat : i <= n => sum[i] = f[i]}
<1>4. \A i \in 0..n : sum[i] = IF i = 0 THEN 0 ELSE sum[i - 1] + tiles[i].blob[2]
  BY <1>3
<1>5. 0 \in S
  BY <1>1, <1>4
<1>6. ASSUME NEW i \in Nat \cap S PROVE i + 1 \in S
  BY <1>1, <1>4
<1>7. \A i \in Nat : i \in S
  <2> HIDE DEF S
  <2> QED BY <1>5, <1>6, Induction
<1>8. sum[n] = f[n]
  BY <1>7
<1>9. Bytes(tiles) = sum[n]
  BY DEF Bytes, sum
<1> QED BY <1>1, <1>8, <1>9

LEMMA LargestIs ==
  ASSUME NEW m, NEW tiles, Len(tiles) \in Nat, DOMAIN tiles = 1..Len(tiles),
         \A i \in 1..Len(tiles) : tiles[i].blob[2] \in Nat, IsLargest(m, tiles)
  PROVE  Largest(tiles) = m
<1> DEFINE L == {0} \cup {tiles[i].blob[2] : i \in 1..Len(tiles)}
<1>1. m \in L /\ \A k \in L : k <= m
  BY DEF IsLargest
<1>2. L \subseteq Nat
  OBVIOUS
<1>3. Largest(tiles) = Max(L)
  BY DEF Largest
<1> HIDE DEF L
<1> QED BY <1>1, <1>2, <1>3 DEF Max

LEMMA EndOfWalk ==
  ASSUME ArchiveInv, WalkInv, WalkEnds, pc = "scan", job = "direct"
  PROVE  /\ Delivered(stats.tiles, stats.bytes, stats.max)
         /\ remaining = Budget(file) - stats.tiles
<1>1. stack = <<>> /\ run = NoRun
  BY DEF WalkEnds
<1>w. PICK n \in Nat : \E p : /\ IsWalk(p, n) /\ p[n].stack = <<>> /\ Counted(p[n])
                              /\ \E m \in 0..n : Replays(p, m)
  BY <1>1 DEF WalkInv, ScansWalk
<1>2. PICK p : /\ IsWalk(p, n) /\ p[n].stack = <<>> /\ Counted(p[n])
               /\ \E m \in 0..n : Replays(p, m)
  BY <1>w
<1>3. PICK m \in 0..n : Replays(p, m)
  BY <1>2
<1>4. m = n
  <2> SUFFICES ASSUME m # n PROVE FALSE
    OBVIOUS
  <2>1. m + 1 \in 1..n /\ (m + 1) - 1 = m
    OBVIOUS
  <2>2. WalkStep(p[m], p[m + 1])
    BY <1>2, <2>1 DEF IsWalk
  <2>3. p[m].stack # <<>>
    BY <2>2 DEF WalkStep, Leaves, Descends, Passes, AtPlaceEntry
  <2> QED BY <1>1, <1>3, <2>3 DEF Replays
<1> QED BY <1>1, <1>2, <1>3, <1>4 DEF Replays, AtPlace, InRun, Counted

LEMMA ScanForetold ==
  ASSUME ArchiveInv, WalkInv, DirectScanned
  PROVE  stats = [tiles |-> Len(visited), bytes |-> Bytes(visited), max |-> Largest(visited)]
<1>1. Len(visited) = stats.tiles /\ IsBytes(stats.bytes, visited) /\ IsLargest(stats.max, visited)
  BY EndOfWalk DEF DirectScanned, Delivered
<1>2. Len(visited) \in Nat /\ DOMAIN visited = 1..Len(visited)
  BY DEF WalkInv, Blobs
<1>3. Bytes(visited) = stats.bytes
  BY <1>1, <1>2, BytesAre
<1>4. Largest(visited) = stats.max
  BY <1>1, <1>2, LargestIs, LengthsAreNumbers DEF WalkInv
<1>5. stats \in [tiles : Uint64, bytes : Uint64, max : Uint64]
  BY DEF ArchiveInv, TypeOK
<1> QED BY <1>1, <1>3, <1>4, <1>5

LEMMA CountForetold ==
  ASSUME ArchiveInv, WalkInv, WalkEnds, pc = "scan", job = "direct"
  PROVE  CountsMatch
<1>1. stats.tiles \in Nat /\ Budget(file) \in Nat
  BY FileFacts DEF ArchiveInv, TypeOK, Uint64
<1> QED BY <1>1, EndOfWalk DEF CountsMatch, WalkInv, ScansWalk

\* The scan of an inspected archive delivers exactly the tiles, the bytes and
\* the largest tile that the inspection summed up from the directories, and it
\* is refused only for a failure, a cancellation or an empty data section: no
\* limit is checked in one of the two traversals only.
THEOREM InspectionIsForecast == Spec => InspectionForetellsScan
<1>1. ASSUME ArchiveInv, WalkInv, [Next]_vars, job = "direct", pc = "scan"
      PROVE  /\ pc' = "done" =>
                  stats = [tiles |-> Len(visited), bytes |-> Bytes(visited), max |-> Largest(visited)]
             /\ pc' = "failed" => failure' \/ canceled \/ file.data.length = 0
  <2>1. CASE DirectScanned
    BY <2>1, <1>1, ScanForetold DEF DirectScanned
  <2>2. CASE RejectEntry
    BY <2>2, <1>1, EntryOfWalk DEF RejectEntry, Abort
  <2>3. CASE RejectCount
    BY <2>3, <1>1, CountForetold DEF RejectCount
  <2>4. CASE VisitCanceled \/ Fail
    BY <2>4 DEF VisitCanceled, Fail, Abort
  <2>5. CASE ~(DirectScanned \/ RejectEntry \/ RejectCount \/ VisitCanceled \/ Fail)
    BY <2>5, <1>1 DEF Next, Step, vars, envVars, Open, RejectArchive, EnterLeaf, InspectRun, ReadRun, Visit,
                FinishRun, LeaveDirectory, Inspected, StageIndexed, Cancel
  <2> QED BY <2>1, <2>2, <2>3, <2>4, <2>5
<1>2. ArchiveInv /\ WalkInv /\ [Next]_vars =>
        [job = "direct" /\ pc = "scan" =>
           /\ pc' = "done" =>
                stats = [tiles |-> Len(visited), bytes |-> Bytes(visited), max |-> Largest(visited)]
           /\ pc' = "failed" => failure' \/ canceled \/ file.data.length = 0]_vars
  BY <1>1
<1> QED BY <1>2, InitArchive, NextArchive, InitWalk, NextWalk, PTL DEF Spec, InspectionForetellsScan

-----------------------------------------------------------------------------
(* Powers of two and remainders                                              *)

LEMMA Pow2Exists ==
  \A n \in Nat : \E f \in [0..n -> Nat] : f[0] = 1 /\ \A i \in 1..n : f[i] = 2 * f[i - 1]
<1> DEFINE D == {n \in Nat : \E f \in [0..n -> Nat] : f[0] = 1 /\ \A i \in 1..n : f[i] = 2 * f[i - 1]}
<1>1. 0 \in D
  <2> DEFINE f == [i \in 0..0 |-> 1]
  <2>1. f \in [0..0 -> Nat] /\ f[0] = 1 /\ \A i \in 1..0 : f[i] = 2 * f[i - 1]
    OBVIOUS
  <2> QED BY <2>1
<1>2. ASSUME NEW n \in Nat \cap D PROVE n + 1 \in D
  <2>1. PICK f \in [0..n -> Nat] : f[0] = 1 /\ \A i \in 1..n : f[i] = 2 * f[i - 1]
    OBVIOUS
  <2> DEFINE g == [i \in 0..(n + 1) |-> IF i <= n THEN f[i] ELSE 2 * f[n]]
  <2>2. g \in [0..(n + 1) -> Nat] /\ g[0] = 1
    BY <2>1
  <2>3. ASSUME NEW i \in 1..(n + 1) PROVE g[i] = 2 * g[i - 1]
    <3>1. CASE i <= n
      <4>1. g[i] = f[i] /\ g[i - 1] = f[i - 1] /\ i \in 1..n
        BY <3>1
      <4> QED BY <2>1, <4>1
    <3>2. CASE i = n + 1
      BY <3>2
    <3> QED BY <3>1, <3>2
  <2> HIDE DEF g
  <2>4. \E h \in [0..(n + 1) -> Nat] : h[0] = 1 /\ \A i \in 1..(n + 1) : h[i] = 2 * h[i - 1]
    BY <2>2, <2>3
  <2>5. n + 1 \in Nat
    OBVIOUS
  <2> QED BY <2>4, <2>5
<1>3. \A n \in Nat : n \in D
  <2> HIDE DEF D
  <2> QED BY <1>1, <1>2, Induction
<1> QED BY <1>3

LEMMA Pow2Is ==
  Pow2[0] = 1 /\ \A n \in Nat : Pow2[n + 1] = 2 * Pow2[n]
<1> DEFINE Is(n, f) == f \in [0..n -> Nat] /\ f[0] = 1 /\ \A i \in 1..n : f[i] = 2 * f[i - 1]
           Table(n) == CHOOSE f : Is(n, f)
           p == [n \in Nat |-> Table(n)[n]]
<1>1. ASSUME NEW n \in Nat PROVE Is(n, Table(n))
  <2>1. \E f : Is(n, f)
    BY Pow2Exists
  <2> QED BY <2>1
<1>2. ASSUME NEW n \in Nat, NEW f, NEW g, Is(n, f), Is(n + 1, g) PROVE f[n] = g[n]
  <2> DEFINE D == {k \in Nat : k <= n => f[k] = g[k]}
  <2>1. 0 \in D
    BY <1>2
  <2>2. ASSUME NEW k \in Nat \cap D PROVE k + 1 \in D
    <3> SUFFICES ASSUME k + 1 <= n PROVE f[k + 1] = g[k + 1]
      OBVIOUS
    <3>1. k + 1 \in 1..n /\ k + 1 \in 1..(n + 1) /\ (k + 1) - 1 = k /\ f[k] = g[k]
      OBVIOUS
    <3> QED BY <1>2, <3>1
  <2>3. \A k \in Nat : k \in D
    <3> HIDE DEF D
    <3> QED BY <2>1, <2>2, Induction
  <2> QED BY <2>3
<1>3. ASSUME NEW n \in Nat PROVE p[n + 1] = 2 * p[n]
  <2> DEFINE f == Table(n)
             g == Table(n + 1)
  <2>1. Is(n, f) /\ Is(n + 1, g)
    <3> HIDE DEF Is, Table
    <3> QED BY <1>1
  <2>2. p[n] = f[n] /\ p[n + 1] = g[n + 1]
    <3> HIDE DEF Table
    <3> QED OBVIOUS
  <2> HIDE DEF f, g, p, Table
  <2>3. f[n] = g[n]
    BY <1>2, <2>1
  <2>4. n + 1 \in 1..(n + 1) /\ (n + 1) - 1 = n
    OBVIOUS
  <2> QED BY <2>1, <2>2, <2>3, <2>4
<1>4. p[0] = 1
  BY <1>1
<1>5. p = [n \in Nat |-> IF n = 0 THEN 1 ELSE 2 * p[n - 1]]
  <2>1. ASSUME NEW n \in Nat PROVE p[n] = IF n = 0 THEN 1 ELSE 2 * p[n - 1]
    <3>1. CASE n = 0
      BY <1>4, <3>1
    <3>2. CASE n # 0
      <4>1. n - 1 \in Nat /\ (n - 1) + 1 = n
        BY <3>2
      <4> HIDE DEF p
      <4> QED BY <1>3, <3>2, <4>1
    <3> QED BY <3>1, <3>2
  <2>2. p = [n \in Nat |-> p[n]]
    <3> HIDE DEF Table, Is
    <3> QED OBVIOUS
  <2> HIDE DEF p
  <2> QED BY <2>1, <2>2
<1>6. Pow2 = [n \in Nat |-> IF n = 0 THEN 1 ELSE 2 * Pow2[n - 1]]
  <2> HIDE DEF p
  <2> QED BY <1>5 DEF Pow2
<1>7. ASSUME NEW n \in Nat PROVE Pow2[n + 1] = 2 * Pow2[n]
  <2>1. n + 1 \in Nat /\ n + 1 # 0 /\ (n + 1) - 1 = n
    OBVIOUS
  <2> QED BY <1>6, <2>1
<1> QED BY <1>6, <1>7

LEMMA Pow2Type == \A n \in Nat : Pow2[n] \in Nat \ {0}
<1> DEFINE D == {n \in Nat : Pow2[n] \in Nat \ {0}}
<1>1. 0 \in D
  BY Pow2Is
<1>2. ASSUME NEW n \in Nat \cap D PROVE n + 1 \in D
  BY Pow2Is
<1>3. \A n \in Nat : n \in D
  <2> HIDE DEF D
  <2> QED BY <1>1, <1>2, Induction
<1> QED BY <1>3

\* 2^(2n) is (2^n)^2.
LEMMA Pow2Square == \A n \in Nat : Pow2[2 * n] = Pow2[n] * Pow2[n]
<1> DEFINE D == {n \in Nat : Pow2[2 * n] = Pow2[n] * Pow2[n]}
<1>1. 0 \in D
  BY Pow2Is
<1>2. ASSUME NEW n \in Nat \cap D PROVE n + 1 \in D
  <2>1. 2 * n \in Nat /\ 2 * (n + 1) = (2 * n + 1) + 1 /\ 2 * n + 1 \in Nat
    OBVIOUS
  <2>2. Pow2[2 * (n + 1)] = 2 * (2 * Pow2[2 * n])
    BY <2>1, Pow2Is
  <2> DEFINE p == Pow2[n]
  <2>3. p \in Nat /\ Pow2[n + 1] = 2 * p /\ Pow2[2 * n] = p * p
    BY Pow2Type, Pow2Is
  <2> HIDE DEF p
  <2>4. (2 * p) * (2 * p) = 2 * (2 * (p * p))
    BY <2>3
  <2> QED BY <2>2, <2>3, <2>4
<1>3. \A n \in Nat : n \in D
  <2> HIDE DEF D
  <2> QED BY <1>1, <1>2, Induction
<1> QED BY <1>3

\* A power divides the later ones.
LEMMA Pow2Divides ==
  ASSUME NEW m \in Nat, NEW n \in Nat, m <= n
  PROVE  \E k \in Nat \ {0} : Pow2[n] = k * Pow2[m]
<1> DEFINE D == {d \in Nat : \E k \in Nat \ {0} : Pow2[m + d] = k * Pow2[m]}
<1>1. 0 \in D
  BY Pow2Type
<1>2. ASSUME NEW d \in Nat \cap D PROVE d + 1 \in D
  <2>1. PICK k \in Nat \ {0} : Pow2[m + d] = k * Pow2[m]
    OBVIOUS
  <2>2. m + d \in Nat /\ m + (d + 1) = (m + d) + 1
    OBVIOUS
  <2>3. Pow2[m + (d + 1)] = 2 * Pow2[m + d]
    BY <2>2, Pow2Is
  <2>4. 2 * k \in Nat \ {0} /\ 2 * (k * Pow2[m]) = (2 * k) * Pow2[m]
    BY Pow2Type
  <2> QED BY <2>1, <2>3, <2>4
<1>3. \A d \in Nat : d \in D
  <2> HIDE DEF D
  <2> QED BY <1>1, <1>2, Induction
<1>4. n - m \in Nat /\ m + (n - m) = n
  OBVIOUS
<1> QED BY <1>3, <1>4

LEMMA Pow2Grows ==
  ASSUME NEW m \in Nat, NEW n \in Nat, m <= n
  PROVE  Pow2[m] <= Pow2[n]
<1>1. PICK k \in Nat \ {0} : Pow2[n] = k * Pow2[m]
  BY Pow2Divides
<1>2. Pow2[m] \in Nat
  BY Pow2Type
<1> DEFINE p == Pow2[m]
<1>3. k * p >= p
  BY <1>2
<1> QED BY <1>1, <1>3

LEMMA DivisionIsUnique ==
  ASSUME NEW d \in Nat \ {0}, NEW q \in Int, NEW r \in 0..(d - 1)
  PROVE  (d * q + r) \div d = q /\ (d * q + r) % d = r
<1> DEFINE n == d * q + r
           q1 == n \div d
           r1 == n % d
<1>1. n \in Int /\ q1 \in Int /\ r1 \in 0..(d - 1) /\ n = d * q1 + r1
  OBVIOUS
<1>2. n = d * q + r
  OBVIOUS
<1> HIDE DEF n, q1, r1
<1>3. d * (q1 - q) = r - r1
  BY <1>1, <1>2
<1>4. q1 - q \in Int /\ r - r1 < d /\ r - r1 > -d
  BY <1>1
<1>5. q1 - q < 1
  <2> SUFFICES ASSUME q1 - q >= 1 PROVE FALSE
    BY <1>4
  <2>1. d * (q1 - q) >= d
    BY <1>4
  <2> QED BY <1>3, <1>4, <2>1
<1>6. q1 - q > -1
  <2> SUFFICES ASSUME q1 - q <= -1 PROVE FALSE
    BY <1>4
  <2>1. d * (q1 - q) <= -d
    BY <1>4
  <2> QED BY <1>3, <1>4, <2>1
<1>7. q1 = q
  BY <1>1, <1>5, <1>6
<1> QED BY <1>1, <1>2, <1>7 DEF q1, r1, n

LEMMA DivisionIs ==
  ASSUME NEW d \in Nat \ {0}, NEW n \in Int
  PROVE  n \div d \in Int /\ n % d \in 0..(d - 1) /\ n = d * (n \div d) + (n % d)
OBVIOUS

\* The remainder of n by twice s: the bit of s, and the remainder by s.
LEMMA BitAbove ==
  ASSUME NEW s \in Nat \ {0}, NEW n \in Int
  PROVE  /\ (n \div s) % 2 \in {0, 1}
         /\ n % (2 * s) = ((n \div s) % 2) * s + (n % s)
<1> DEFINE q == n \div s
           b == q % 2
           h == q \div 2
           r == n % s
<1>1. q \in Int /\ r \in 0..(s - 1) /\ n = s * q + r
  BY DivisionIs
<1>2. b \in {0, 1} /\ h \in Int /\ q = 2 * h + b
  BY <1>1
<1> HIDE DEF q, b, h, r
<1>3. s * q = (2 * s) * h + b * s
  <2>1. CASE b = 0
    BY <1>2, <2>1
  <2>2. CASE b = 1
    BY <1>2, <2>2
  <2> QED BY <1>2, <2>1, <2>2
<1>4. b * s + r \in 0..(2 * s - 1)
  <2>1. CASE b = 0
    BY <1>1, <2>1
  <2>2. CASE b = 1
    BY <1>1, <2>2
  <2> QED BY <1>2, <2>1, <2>2
<1>5. n = (2 * s) * h + (b * s + r)
  BY <1>1, <1>2, <1>3, <1>4
<1>6. n % (2 * s) = b * s + r
  <2> DEFINE d == 2 * s
  <2>1. d \in Nat \ {0}
    OBVIOUS
  <2>2. b * s + r \in 0..(d - 1) /\ n = d * h + (b * s + r)
    BY <1>4, <1>5
  <2> HIDE DEF d
  <2>3. n % d = b * s + r
    BY <1>2, <2>1, <2>2, DivisionIsUnique
  <2> QED BY <2>3 DEF d
<1> QED BY <1>2, <1>6 DEF b, r, q

\* Higher bits do not matter.
LEMMA RemainderOfRemainder ==
  ASSUME NEW s \in Nat \ {0}, NEW k \in Nat \ {0}, NEW n \in Int
  PROVE  (n % (k * s)) % s = n % s
<1> DEFINE U == k * s
           Q == n \div U
           R == n % U
           q == R \div s
           r == R % s
<1>0. U \in Nat \ {0}
  OBVIOUS
<1>1. U = k * s
  OBVIOUS
<1> HIDE DEF U
<1>2. Q \in Int /\ R \in Int /\ n = U * Q + R
  BY <1>0
<1>3. q \in Int /\ r \in 0..(s - 1) /\ R = s * q + r
  BY <1>2, DivisionIs
<1> HIDE DEF Q, R, q, r
<1>5. U * Q = s * (k * Q)
  BY <1>1, <1>2
<1> DEFINE kq == k * Q
<1>6. kq \in Int
  BY <1>2
<1> HIDE DEF kq
<1>7. s * kq + s * q = s * (kq + q)
  BY <1>3, <1>6
<1>8. n = s * (kq + q) + r
  <2>1. U * Q = s * kq
    BY <1>5 DEF kq
  <2>2. n = s * kq + (s * q + r)
    BY <1>2, <1>3, <2>1
  <2> DEFINE a == s * kq
             b == s * q
  <2>3. a \in Int /\ b \in Int /\ a + b = s * (kq + q) /\ n = a + (b + r)
    BY <1>3, <1>6, <1>7, <2>2
  <2> HIDE DEF a, b
  <2>4. n = (a + b) + r
    BY <1>3, <2>3
  <2> QED BY <2>3, <2>4
<1>9. n % s = r
  BY <1>3, <1>6, <1>8, DivisionIsUnique
<1> QED BY <1>9 DEF r, R, U

LEMMA RemainderOfMirror ==
  ASSUME NEW s \in Nat \ {0}, NEW n \in Int
  PROVE  (s - 1 - n) % s = s - 1 - (n % s)
<1> DEFINE q == n \div s
           r == n % s
<1>1. q \in Int /\ r \in 0..(s - 1) /\ n = s * q + r
  BY DivisionIs
<1> HIDE DEF q, r
<1>2. s - 1 - n = s * (-q) + (s - 1 - r)
  BY <1>1
<1>3. (s - 1 - n) % s = s - 1 - r
  BY <1>1, <1>2, DivisionIsUnique
<1> QED BY <1>3 DEF r

LEMMA SmallRemainder ==
  ASSUME NEW d \in Nat \ {0}, NEW n \in 0..(d - 1)
  PROVE  n % d = n
<1>1. n = d * 0 + n
  OBVIOUS
<1>2. (d * 0 + n) % d = n
  BY DivisionIsUnique
<1> QED BY <1>1, <1>2

-----------------------------------------------------------------------------
(* The curve of a zoom                                                       *)

Bits == {0, 1}

\* A quadrant turned, of coordinates inside it.
Turn(s, x, y, rx, ry) ==
  IF ry # 0 THEN <<x, y>> ELSE IF rx # 0 THEN <<s - 1 - y, s - 1 - x>> ELSE <<y, x>>

\* A place on the curve of side s, as a place in a quadrant of the next one: its
\* number and its coordinates.
Upwards(s, c, rx, ry) ==
  <<Digit(rx, ry) * (s * s) + c[1],
    Turn(s, c[2], c[3], rx, ry)[1] + rx * s, Turn(s, c[2], c[3], rx, ry)[2] + ry * s>>

OnCurve(a, c) ==
  \E f \in [0..a -> Nat \X Nat \X Nat] :
    /\ f[0] = <<0, 0, 0>> /\ f[a] = c
    /\ \A i \in 1..a : \E rx, ry \in Bits : f[i] = Upwards(Pow2[i - 1], f[i - 1], rx, ry)

InSquare(s, c) == c \in Nat \X Nat \X Nat /\ c[1] < s * s /\ c[2] < s /\ c[3] < s

LEMMA TurnFacts ==
  ASSUME NEW s \in Nat \ {0}, NEW x \in 0..(s - 1), NEW y \in 0..(s - 1), NEW rx \in Bits, NEW ry \in Bits
  PROVE  /\ Turn(s, x, y, rx, ry) \in (0..(s - 1)) \X (0..(s - 1))
         /\ Turn(s, Turn(s, x, y, rx, ry)[1], Turn(s, x, y, rx, ry)[2], rx, ry) = <<x, y>>
<1>1. CASE ry # 0
  BY <1>1 DEF Turn
<1>2. CASE ry = 0 /\ rx # 0
  <2>1. s - 1 - y \in 0..(s - 1) /\ s - 1 - x \in 0..(s - 1)
    OBVIOUS
  <2>2. s - 1 - (s - 1 - x) = x /\ s - 1 - (s - 1 - y) = y
    OBVIOUS
  <2> QED BY <1>2, <2>1, <2>2 DEF Turn
<1>3. CASE ry = 0 /\ rx = 0
  BY <1>3 DEF Turn
<1> QED BY <1>1, <1>2, <1>3

LEMMA UpwardsInSquare ==
  ASSUME NEW s \in Nat \ {0}, NEW c, InSquare(s, c), NEW rx \in Bits, NEW ry \in Bits
  PROVE  InSquare(2 * s, Upwards(s, c, rx, ry))
<1> DEFINE d == Digit(rx, ry)
           t == Turn(s, c[2], c[3], rx, ry)
           p == s * s
<1>1. c[1] \in Nat /\ c[1] < p /\ c[2] \in 0..(s - 1) /\ c[3] \in 0..(s - 1) /\ p \in Nat
  BY DEF InSquare
<1>2. t \in (0..(s - 1)) \X (0..(s - 1))
  BY <1>1, TurnFacts
<1>3. d \in 0..3 /\ rx \in 0..1 /\ ry \in 0..1
  BY DEF Digit, Bits
<1>4. (2 * s) * (2 * s) = 4 * p
  OBVIOUS
<1>5. d * p + c[1] \in Nat /\ d * p + c[1] < 4 * p
  <2> HIDE DEF p, d
  <2>1. d = 0 \/ d = 1 \/ d = 2 \/ d = 3
    BY <1>3
  <2> QED BY <1>1, <2>1
<1>6. t[1] \in 0..(s - 1) /\ t[2] \in 0..(s - 1)
  BY <1>2
<1>7. /\ t[1] + rx * s \in Nat /\ t[1] + rx * s < 2 * s
      /\ t[2] + ry * s \in Nat /\ t[2] + ry * s < 2 * s
  <2> HIDE DEF t
  <2> QED BY <1>6 DEF Bits
<1>8. Upwards(s, c, rx, ry) = <<d * p + c[1], t[1] + rx * s, t[2] + ry * s>>
  BY DEF Upwards
<1> HIDE DEF d, t, p
<1> QED BY <1>4, <1>5, <1>7, <1>8 DEF InSquare

LEMMA CurveBegins == \A c : OnCurve(0, c) <=> c = <<0, 0, 0>>
<1> SUFFICES ASSUME NEW c PROVE OnCurve(0, c) <=> c = <<0, 0, 0>>
  OBVIOUS
<1>1. ASSUME c = <<0, 0, 0>> PROVE OnCurve(0, c)
  <2> DEFINE f == [i \in 0..0 |-> <<0, 0, 0>>]
  <2>1. f \in [0..0 -> Nat \X Nat \X Nat] /\ f[0] = <<0, 0, 0>>
    OBVIOUS
  <2> HIDE DEF f
  <2> QED BY <1>1, <2>1 DEF OnCurve
<1> QED BY <1>1 DEF OnCurve

LEMMA CurveDescends ==
  ASSUME NEW a \in Nat, NEW c, OnCurve(a + 1, c)
  PROVE  \E b : \E rx, ry \in Bits : OnCurve(a, b) /\ c = Upwards(Pow2[a], b, rx, ry)
<1>1. PICK f \in [0..(a + 1) -> Nat \X Nat \X Nat] :
        /\ f[0] = <<0, 0, 0>> /\ f[a + 1] = c
        /\ \A i \in 1..(a + 1) : \E rx, ry \in Bits : f[i] = Upwards(Pow2[i - 1], f[i - 1], rx, ry)
  BY DEF OnCurve
<1> DEFINE g == [i \in 0..a |-> f[i]]
<1>2. g \in [0..a -> Nat \X Nat \X Nat] /\ g[0] = <<0, 0, 0>> /\ g[a] = f[a]
  BY <1>1
<1>3. ASSUME NEW i \in 1..a PROVE \E rx, ry \in Bits : g[i] = Upwards(Pow2[i - 1], g[i - 1], rx, ry)
  <2>1. i \in 1..(a + 1) /\ g[i] = f[i] /\ g[i - 1] = f[i - 1]
    OBVIOUS
  <2> QED BY <1>1, <2>1
<1> HIDE DEF g
<1>4. OnCurve(a, f[a])
  BY <1>2, <1>3 DEF OnCurve
<1>5. a + 1 \in 1..(a + 1) /\ (a + 1) - 1 = a
  OBVIOUS
<1>6. PICK rx, ry \in Bits : f[a + 1] = Upwards(Pow2[(a + 1) - 1], f[(a + 1) - 1], rx, ry)
  BY <1>1, <1>5
<1>7. c = Upwards(Pow2[a], f[a], rx, ry)
  BY <1>1, <1>5, <1>6
<1> QED BY <1>4, <1>7

LEMMA CurveInSquare == \A a \in Nat : \A c : OnCurve(a, c) => InSquare(Pow2[a], c)
<1> DEFINE D == {a \in Nat : \A c : OnCurve(a, c) => InSquare(Pow2[a], c)}
<1>1. 0 \in D
  BY CurveBegins, Pow2Is DEF InSquare
<1>2. ASSUME NEW a \in Nat \cap D PROVE a + 1 \in D
  <2> SUFFICES ASSUME NEW c, OnCurve(a + 1, c) PROVE InSquare(Pow2[a + 1], c)
    OBVIOUS
  <2>1. PICK b : \E rx, ry \in Bits : OnCurve(a, b) /\ c = Upwards(Pow2[a], b, rx, ry)
    BY CurveDescends
  <2>2. PICK rx, ry \in Bits : OnCurve(a, b) /\ c = Upwards(Pow2[a], b, rx, ry)
    BY <2>1
  <2>3. InSquare(Pow2[a], b)
    BY <2>2
  <2>4. Pow2[a] \in Nat \ {0} /\ Pow2[a + 1] = 2 * Pow2[a]
    BY Pow2Type, Pow2Is
  <2> QED BY <2>2, <2>3, <2>4, UpwardsInSquare
<1>3. \A a \in Nat : a \in D
  <2> HIDE DEF D
  <2> QED BY <1>1, <1>2, Induction
<1> QED BY <1>3

LEMMA CurveAscends ==
  ASSUME NEW a \in Nat, NEW c, OnCurve(a, c), NEW rx \in Bits, NEW ry \in Bits
  PROVE  OnCurve(a + 1, Upwards(Pow2[a], c, rx, ry))
<1> DEFINE u == Upwards(Pow2[a], c, rx, ry)
<1>1. PICK f \in [0..a -> Nat \X Nat \X Nat] :
        /\ f[0] = <<0, 0, 0>> /\ f[a] = c
        /\ \A i \in 1..a : \E qx, qy \in Bits : f[i] = Upwards(Pow2[i - 1], f[i - 1], qx, qy)
  BY DEF OnCurve
<1>2. u \in Nat \X Nat \X Nat
  <2>1. InSquare(Pow2[a], c) /\ Pow2[a] \in Nat \ {0}
    BY CurveInSquare, Pow2Type
  <2> QED BY <2>1, UpwardsInSquare DEF InSquare
<1> HIDE DEF u
<1> DEFINE g == [i \in 0..(a + 1) |-> IF i <= a THEN f[i] ELSE u]
<1>3. g \in [0..(a + 1) -> Nat \X Nat \X Nat] /\ g[0] = <<0, 0, 0>> /\ g[a + 1] = u
  BY <1>1, <1>2
<1>4. ASSUME NEW i \in 1..(a + 1)
      PROVE  \E qx, qy \in Bits : g[i] = Upwards(Pow2[i - 1], g[i - 1], qx, qy)
  <2>1. CASE i <= a
    <3>1. i \in 1..a /\ g[i] = f[i] /\ g[i - 1] = f[i - 1]
      BY <2>1
    <3> QED BY <1>1, <3>1
  <2>2. CASE i = a + 1
    <3>1. g[i] = u /\ g[i - 1] = c /\ i - 1 = a
      BY <1>1, <2>2
    <3>2. u = Upwards(Pow2[a], c, rx, ry)
      BY DEF u
    <3> QED BY <3>1, <3>2
  <2>3. i <= a \/ i = a + 1
    OBVIOUS
  <2> HIDE DEF g
  <2> QED BY <2>1, <2>2, <2>3
<1> HIDE DEF g
<1>5. OnCurve(a + 1, u)
  BY <1>3, <1>4 DEF OnCurve
<1> QED BY <1>5 DEF u

\* A number and its quadrant, and coordinates and theirs.
LEMMA UpwardsIsUnique ==
  ASSUME NEW s \in Nat \ {0}, NEW b, NEW c, InSquare(s, b), InSquare(s, c),
         NEW px \in Bits, NEW py \in Bits, NEW qx \in Bits, NEW qy \in Bits,
         NEW u, NEW v, u = Upwards(s, b, px, py), v = Upwards(s, c, qx, qy)
  PROVE  /\ u[1] = v[1] => px = qx /\ py = qy /\ b[1] = c[1]
         /\ u[2] = v[2] /\ u[3] = v[3] => px = qx /\ py = qy /\ b[2] = c[2] /\ b[3] = c[3]
<1> DEFINE p == s * s
           d == Digit(px, py)
           e == Digit(qx, qy)
           t == Turn(s, b[2], b[3], px, py)
           w == Turn(s, c[2], c[3], qx, qy)
<1>1. /\ b[1] \in Nat /\ b[1] < p /\ b[2] \in 0..(s - 1) /\ b[3] \in 0..(s - 1) /\ p \in Nat
      /\ c[1] \in Nat /\ c[1] < p /\ c[2] \in 0..(s - 1) /\ c[3] \in 0..(s - 1)
  BY DEF InSquare
<1>2. /\ t[1] \in 0..(s - 1) /\ t[2] \in 0..(s - 1) /\ Turn(s, t[1], t[2], px, py) = <<b[2], b[3]>>
      /\ w[1] \in 0..(s - 1) /\ w[2] \in 0..(s - 1) /\ Turn(s, w[1], w[2], qx, qy) = <<c[2], c[3]>>
  <2>0. \A x, y \in 0..(s - 1) : \A rx, ry \in Bits :
          /\ Turn(s, x, y, rx, ry) \in (0..(s - 1)) \X (0..(s - 1))
          /\ Turn(s, Turn(s, x, y, rx, ry)[1], Turn(s, x, y, rx, ry)[2], rx, ry) = <<x, y>>
    BY TurnFacts
  <2>1. t \in (0..(s - 1)) \X (0..(s - 1)) /\ Turn(s, t[1], t[2], px, py) = <<b[2], b[3]>>
    BY <1>1, <2>0
  <2>2. w \in (0..(s - 1)) \X (0..(s - 1)) /\ Turn(s, w[1], w[2], qx, qy) = <<c[2], c[3]>>
    BY <1>1, <2>0
  <2> HIDE DEF t, w
  <2> QED BY <2>1, <2>2
<1>3. d \in 0..3 /\ e \in 0..3 /\ (d = e => px = qx /\ py = qy)
  BY DEF Digit, Bits
<1>4. /\ u = <<d * p + b[1], t[1] + px * s, t[2] + py * s>>
      /\ v = <<e * p + c[1], w[1] + qx * s, w[2] + qy * s>>
  BY DEF Upwards
<1> HIDE DEF p, d, e, t, w
<1>5. ASSUME u[1] = v[1] PROVE px = qx /\ py = qy /\ b[1] = c[1]
  <2>1. d * p + b[1] = e * p + c[1]
    BY <1>4, <1>5
  <2>2. (d = 0 \/ d = 1 \/ d = 2 \/ d = 3) /\ (e = 0 \/ e = 1 \/ e = 2 \/ e = 3)
    BY <1>3
  <2>3. d = e /\ b[1] = c[1]
    BY <1>1, <2>1, <2>2
  <2> QED BY <1>3, <2>3
<1>6. ASSUME u[2] = v[2], u[3] = v[3]
      PROVE  px = qx /\ py = qy /\ b[2] = c[2] /\ b[3] = c[3]
  <2>1. t[1] + px * s = w[1] + qx * s /\ t[2] + py * s = w[2] + qy * s
    BY <1>4, <1>6
  <2>2. px = qx /\ t[1] = w[1]
    BY <1>2, <2>1 DEF Bits
  <2>3. py = qy /\ t[2] = w[2]
    BY <1>2, <2>1 DEF Bits
  <2>4. <<b[2], b[3]>> = <<c[2], c[3]>>
    BY <1>2, <2>2, <2>3
  <2> QED BY <2>2, <2>3, <2>4
<1> QED BY <1>5, <1>6

\* The curve visits every tile of its zoom once.
LEMMA CurveIsUnique ==
  \A a \in Nat : \A c, d : OnCurve(a, c) /\ OnCurve(a, d) =>
    (c[1] = d[1] <=> c[2] = d[2] /\ c[3] = d[3])
<1> DEFINE Same(c, d) == c[1] = d[1] <=> c[2] = d[2] /\ c[3] = d[3]
           D == {a \in Nat : \A c, d : OnCurve(a, c) /\ OnCurve(a, d) => Same(c, d)}
<1>1. 0 \in D
  BY CurveBegins
<1>2. ASSUME NEW a \in Nat \cap D PROVE a + 1 \in D
  <2> SUFFICES ASSUME NEW u, NEW v, OnCurve(a + 1, u), OnCurve(a + 1, v) PROVE Same(u, v)
    OBVIOUS
  <2>1. PICK b : \E rx, ry \in Bits : OnCurve(a, b) /\ u = Upwards(Pow2[a], b, rx, ry)
    BY CurveDescends
  <2>2. PICK px, py \in Bits : OnCurve(a, b) /\ u = Upwards(Pow2[a], b, px, py)
    BY <2>1
  <2>3. PICK c : \E rx, ry \in Bits : OnCurve(a, c) /\ v = Upwards(Pow2[a], c, rx, ry)
    BY CurveDescends
  <2>4. PICK qx, qy \in Bits : OnCurve(a, c) /\ v = Upwards(Pow2[a], c, qx, qy)
    BY <2>3
  <2>5. InSquare(Pow2[a], b) /\ InSquare(Pow2[a], c) /\ Pow2[a] \in Nat \ {0}
    BY <2>2, <2>4, CurveInSquare, Pow2Type
  <2>6. Same(b, c)
    BY <2>2, <2>4
  <2> DEFINE s == Pow2[a]
  <2> HIDE DEF s, D
  <2>7. /\ u[1] = v[1] => px = qx /\ py = qy /\ b[1] = c[1]
        /\ u[2] = v[2] /\ u[3] = v[3] => px = qx /\ py = qy /\ b[2] = c[2] /\ b[3] = c[3]
    BY <2>2, <2>4, <2>5, UpwardsIsUnique
  <2>8. px = qx /\ py = qy /\ b[2] = c[2] /\ b[3] = c[3] => u[2] = v[2] /\ u[3] = v[3]
    BY <2>2, <2>4 DEF Upwards
  <2>9. px = qx /\ py = qy /\ b[1] = c[1] => u[1] = v[1]
    BY <2>2, <2>4 DEF Upwards
  <2> QED BY <2>6, <2>7, <2>8, <2>9
<1>3. \A a \in Nat : a \in D
  <2> HIDE DEF D
  <2> QED BY <1>1, <1>2, Induction
<1> QED BY <1>3

-----------------------------------------------------------------------------
(* Identifiers and tiles                                                     *)

\* A recursion over numbers has values; its steps are given as a function.
Recurs(T, b, n, G) == \E f \in [0..n -> T] : f[0] = b /\ \A i \in 1..n : f[i] = G[i][f[i - 1]]

LEMMA Recursion ==
  ASSUME NEW T, NEW b \in T, NEW n \in Nat, NEW G \in [1..n -> [T -> T]]
  PROVE  Recurs(T, b, n, G)
<1> DEFINE Fits(k, f) == f \in [0..k -> T] /\ f[0] = b /\ \A i \in 1..k : f[i] = G[i][f[i - 1]]
           D == {k \in Nat : k <= n => \E f : Fits(k, f)}
<1>1. 0 \in D
  <2> DEFINE f == [i \in 0..0 |-> b]
  <2>1. Fits(0, f)
    OBVIOUS
  <2> HIDE DEF Fits
  <2> QED BY <2>1
<1>2. ASSUME NEW k \in Nat \cap D PROVE k + 1 \in D
  <2> SUFFICES ASSUME k + 1 <= n PROVE \E f : Fits(k + 1, f)
    <3> HIDE DEF Fits
    <3> QED OBVIOUS
  <2>1. PICK f : Fits(k, f)
    <3> HIDE DEF Fits
    <3> QED OBVIOUS
  <2> DEFINE g == [i \in 0..(k + 1) |-> IF i <= k THEN f[i] ELSE G[k + 1][f[k]]]
  <2>2. k + 1 \in 1..n /\ f[k] \in T /\ G[k + 1][f[k]] \in T
    BY <2>1
  <2>3. g \in [0..(k + 1) -> T] /\ g[0] = b
    BY <2>1, <2>2
  <2>4. ASSUME NEW i \in 1..(k + 1) PROVE g[i] = G[i][g[i - 1]]
    <3>1. CASE i <= k
      <4>1. g[i] = f[i] /\ g[i - 1] = f[i - 1] /\ i \in 1..k
        BY <3>1
      <4> QED BY <2>1, <4>1
    <3>2. CASE i = k + 1
      <4>1. g[i] = G[k + 1][f[k]] /\ g[i - 1] = f[k]
        BY <3>2
      <4> QED BY <3>2, <4>1
    <3> QED BY <3>1, <3>2
  <2> HIDE DEF g
  <2>5. Fits(k + 1, g)
    BY <2>3, <2>4
  <2> HIDE DEF Fits
  <2> QED BY <2>5
<1>3. \A k \in Nat : k \in D
  <2> HIDE DEF D
  <2> QED BY <1>1, <1>2, Induction
<1>4. \E f : Fits(n, f)
  <2> HIDE DEF Fits
  <2> QED BY <1>3
<1> QED BY <1>4 DEF Recurs

LEMMA WrapType == \A n \in Int : Wrap(n) \in Nat
<1>1. Pow2[CoordinateBits] \in Nat \ {0}
  BY Pow2Type, TileIDAssumption
<1> QED BY <1>1 DEF Wrap

LEMMA RotateType ==
  ASSUME NEW s \in Nat \ {0}, NEW x \in Int, NEW y \in Int, NEW rx \in Bits, NEW ry \in Bits
  PROVE  /\ Rotate(s, x, y, rx, ry) \in Int \X Int
         /\ x \in Nat /\ y \in Nat => Rotate(s, x, y, rx, ry) \in Nat \X Nat
<1>1. s - 1 - x \in Int /\ s - 1 - y \in Int
  OBVIOUS
<1>2. Wrap(s - 1 - x) \in Nat /\ Wrap(s - 1 - y) \in Nat
  BY <1>1, WrapType
<1>3. CASE ry # 0
  BY <1>3 DEF Rotate
<1>4. CASE ry = 0 /\ rx # 0
  BY <1>2, <1>4 DEF Rotate
<1>5. CASE ry = 0 /\ rx = 0
  BY <1>5 DEF Rotate
<1> QED BY <1>3, <1>4, <1>5

LEMMA BitOf ==
  ASSUME NEW s \in Nat \ {0}, NEW n \in Int
  PROVE  (n \div s) % 2 \in Bits
BY BitAbove DEF Bits

\* What the loop of ZxyToID reads at side s.
LEMMA DeeperIs ==
  ASSUME NEW a \in Nat, a <= CoordinateBits,
         NEW up \in [id : Int, x : Int, y : Int]
  PROVE  LET s == Pow2[a]
             low == Deeper(s, up)
         IN  /\ low \in [id : Int, x : Int, y : Int]
             /\ \E rx, ry \in Bits :
                  /\ low.id = up.id + Digit(rx, ry) * (s * s)
                  /\ Turn(s, low.x % s, low.y % s, rx, ry) = <<up.x % s, up.y % s>>
                  /\ up.x % (2 * s) = rx * s + (up.x % s)
                  /\ up.y % (2 * s) = ry * s + (up.y % s)
<1> DEFINE s == Pow2[a]
           low == Deeper(s, up)
           rx == (up.x \div s) % 2
           ry == (up.y \div s) % 2
           at == Rotate(s, up.x, up.y, rx, ry)
<1>1. s \in Nat \ {0} /\ up.id \in Int /\ up.x \in Int /\ up.y \in Int
  BY Pow2Type
<1>2. PICK k \in Nat \ {0} : Pow2[CoordinateBits] = k * s
  BY Pow2Divides, TileIDAssumption
<1> HIDE DEF s
<1>3. rx \in Bits /\ ry \in Bits
  BY <1>1, BitOf
<1>4. up.x % (2 * s) = rx * s + (up.x % s) /\ up.y % (2 * s) = ry * s + (up.y % s)
  BY <1>1, BitAbove
<1>5. low = [id |-> up.id + Digit(rx, ry) * (s * s), x |-> at[1], y |-> at[2]]
  BY DEF Deeper
<1>6. at \in Int \X Int
  BY <1>1, <1>3, RotateType
<1>7. up.x % s \in 0..(s - 1) /\ up.y % s \in 0..(s - 1)
  BY <1>1, DivisionIs
<1> HIDE DEF rx, ry, low
<1>8. Digit(rx, ry) \in Nat /\ s * s \in Nat
  BY <1>1, <1>3 DEF Digit, Bits
<1>9. low \in [id : Int, x : Int, y : Int] /\ low.id = up.id + Digit(rx, ry) * (s * s)
      /\ low.x = at[1] /\ low.y = at[2]
  <2> DEFINE d == Digit(rx, ry) * (s * s)
  <2>1. d \in Nat
    BY <1>8
  <2> HIDE DEF d, at
  <2>2. low = [id |-> up.id + d, x |-> at[1], y |-> at[2]]
    BY <1>5 DEF d
  <2> QED BY <1>1, <1>6, <2>1, <2>2 DEF d
<1>10. Turn(s, low.x % s, low.y % s, rx, ry) = <<up.x % s, up.y % s>>
  <2>1. CASE ry # 0
    <3>1. low.x = up.x /\ low.y = up.y
      BY <1>9, <2>1 DEF Rotate
    <3> QED BY <2>1, <3>1 DEF Turn
  <2>2. CASE ry = 0 /\ rx = 0
    <3>1. low.x = up.y /\ low.y = up.x
      BY <1>9, <2>2 DEF Rotate
    <3> QED BY <2>2, <3>1 DEF Turn
  <2>3. CASE ry = 0 /\ rx # 0
    <3>1. low.x = (s - 1 - up.y) % (k * s) /\ low.y = (s - 1 - up.x) % (k * s)
      BY <1>2, <1>9, <2>3 DEF Rotate, Wrap
    <3>2. s - 1 - up.y \in Int /\ s - 1 - up.x \in Int
      BY <1>1
    <3>3. low.x % s = (s - 1 - up.y) % s /\ low.y % s = (s - 1 - up.x) % s
      BY <1>1, <3>1, <3>2, RemainderOfRemainder
    <3>4. low.x % s = s - 1 - (up.y % s) /\ low.y % s = s - 1 - (up.x % s)
      BY <1>1, <3>3, RemainderOfMirror
    <3> DEFINE X == up.x % s
               Y == up.y % s
    <3>5. Turn(s, s - 1 - Y, s - 1 - X, rx, ry) = <<s - 1 - (s - 1 - X), s - 1 - (s - 1 - Y)>>
      BY <2>3 DEF Turn
    <3>6. X \in Int /\ Y \in Int
      BY <1>7
    <3> HIDE DEF X, Y
    <3>7. s - 1 - (s - 1 - X) = X /\ s - 1 - (s - 1 - Y) = Y
      BY <1>1, <3>6
    <3> QED BY <3>4, <3>5, <3>7 DEF X, Y
  <2> QED BY <2>1, <2>2, <2>3
<1> HIDE DEF at
<1>11. \E qx, qy \in Bits :
         /\ low.id = up.id + Digit(qx, qy) * (s * s)
         /\ Turn(s, low.x % s, low.y % s, qx, qy) = <<up.x % s, up.y % s>>
         /\ up.x % (2 * s) = qx * s + (up.x % s)
         /\ up.y % (2 * s) = qy * s + (up.y % s)
  BY <1>3, <1>4, <1>9, <1>10
<1> QED BY <1>9, <1>11 DEF s, low

\* The number of a tile in its zoom is its place on the curve.
LEMMA NumberOfTile ==
  ASSUME NEW z \in 0..MaxZoom, NEW x \in 0..(Pow2[z] - 1), NEW y \in 0..(Pow2[z] - 1)
  PROVE  \E n \in Nat : ZxyToID(z, x, y) = FirstID(z) + n /\ OnCurve(z, <<n, x, y>>)
<1> DEFINE T == [id : Int, x : Int, y : Int]
           b == [id |-> FirstID(z), x |-> x, y |-> y]
           Rec(g) == g = [i \in 0..z |-> IF i = 0 THEN b ELSE Deeper(Pow2[z - i], g[i - 1])]
           level == CHOOSE g : Rec(g)
<1>1. z \in Nat /\ CoordinateBits \in Nat /\ z <= CoordinateBits /\ Pow2[z] \in Nat \ {0} /\ x \in Int /\ y \in Int
  BY Pow2Type, TileIDAssumption
<1>2. FirstID(z) \in Int
  <2>1. 2 * z \in Nat
    BY <1>1
  <2>2. Pow2[2 * z] \in Nat
    BY <2>1, Pow2Type
  <2> QED BY <2>2 DEF FirstID
<1>3. ASSUME NEW a \in 0..(z - 1), NEW up \in T PROVE Deeper(Pow2[a], up) \in T
  <2>1. a \in Nat /\ a <= CoordinateBits
    BY <1>1
  <2> QED BY <2>1, DeeperIs
<1>4. \E f \in [0..z -> T] : f[0] = b /\ \A i \in 1..z : f[i] = Deeper(Pow2[z - i], f[i - 1])
  <2> DEFINE G == [i \in 1..z |-> [up \in T |-> Deeper(Pow2[z - i], up)]]
  <2>1. \A i \in 1..z : z - i \in 0..(z - 1)
    BY <1>1
  <2>2. G \in [1..z -> [T -> T]]
    <3> HIDE DEF T
    <3> QED BY <1>3, <2>1
  <2>3. b \in T
    BY <1>1, <1>2
  <2> HIDE DEF T, b
  <2>4. \A i \in 1..z : \A up \in T : G[i][up] = Deeper(Pow2[z - i], up)
    OBVIOUS
  <2> HIDE DEF G
  <2>5. PICK f \in [0..z -> T] : f[0] = b /\ \A i \in 1..z : f[i] = G[i][f[i - 1]]
    BY <1>1, <2>2, <2>3, Recursion DEF Recurs
  <2>6. \A i \in 1..z : f[i - 1] \in T
    BY <1>1
  <2>7. \A i \in 1..z : f[i] = Deeper(Pow2[z - i], f[i - 1])
    BY <2>4, <2>5, <2>6
  <2> QED BY <2>5, <2>7
<1>5. PICK f \in [0..z -> T] : f[0] = b /\ \A i \in 1..z : f[i] = Deeper(Pow2[z - i], f[i - 1])
  BY <1>4
<1> HIDE DEF T
<1>6. Rec(f)
  <2> DEFINE body == [i \in 0..z |-> IF i = 0 THEN b ELSE Deeper(Pow2[z - i], f[i - 1])]
  <2>1. \A i \in 0..z : f[i] = body[i]
    <3> HIDE DEF b
    <3> QED BY <1>1, <1>5
  <2>2. f = body
    <3> HIDE DEF b
    <3>1. f = [i \in 0..z |-> f[i]] /\ body = [i \in 0..z |-> body[i]]
      OBVIOUS
    <3> HIDE DEF body
    <3> QED BY <2>1, <3>1
  <2> QED BY <2>2
<1>7. Rec(level)
  <2> HIDE DEF Rec
  <2> QED BY <1>6
<1> HIDE DEF level
<1>8. level[0] = b /\ \A i \in 1..z : level[i] = Deeper(Pow2[z - i], level[i - 1])
  <2> HIDE DEF b
  <2> QED BY <1>1, <1>7
<1>9. ZxyToID(z, x, y) = level[z].id
  BY DEF ZxyToID, level
<1> DEFINE N == level[z].id
           At(a) == <<N - level[z - a].id, level[z - a].x % Pow2[a], level[z - a].y % Pow2[a]>>
<1>10. ASSUME NEW i \in 0..z PROVE level[i] \in T
  <2> DEFINE D == {k \in Nat : k <= z => level[k] \in T}
  <2>1. 0 \in D
    BY <1>1, <1>2, <1>8 DEF T
  <2>2. ASSUME NEW k \in Nat \cap D PROVE k + 1 \in D
    <3> SUFFICES ASSUME k + 1 <= z PROVE level[k + 1] \in T
      OBVIOUS
    <3>1. k + 1 \in 1..z /\ (k + 1) - 1 = k /\ z - (k + 1) \in 0..(z - 1) /\ level[k] \in T
      BY <1>1
    <3> QED BY <1>3, <1>8, <3>1
  <2>3. \A k \in Nat : k \in D
    <3> HIDE DEF D
    <3> QED BY <2>1, <2>2, Induction
  <2> QED BY <2>3
<1> DEFINE D == {a \in Nat : a <= z => OnCurve(a, At(a))}
<1>11. 0 \in D
  <2>1. level[z] \in [id : Int, x : Int, y : Int] /\ z - 0 = z
    BY <1>1, <1>10 DEF T
  <2>2. level[z].id - level[z].id = 0 /\ level[z].x % 1 = 0 /\ level[z].y % 1 = 0
    BY <2>1
  <2>3. At(0) = <<0, 0, 0>>
    BY <2>1, <2>2, Pow2Is
  <2> HIDE DEF At
  <2> QED BY <2>3, CurveBegins
<1>12. ASSUME NEW a \in Nat \cap D PROVE a + 1 \in D
  <2> SUFFICES ASSUME a + 1 <= z PROVE OnCurve(a + 1, At(a + 1))
    <3> HIDE DEF At
    <3> QED OBVIOUS
  <2> DEFINE up == level[z - (a + 1)]
             low == level[z - a]
             s == Pow2[a]
  <2>1. /\ a \in Nat /\ a <= z /\ a <= CoordinateBits /\ z - a \in 1..z /\ z - a \in 0..z /\ z - (a + 1) \in 0..z
        /\ (z - a) - 1 = z - (a + 1) /\ z - (z - a) = a
    BY <1>1
  <2>2. low = Deeper(s, up)
    <3>1. level[z - a] = Deeper(Pow2[z - (z - a)], level[(z - a) - 1])
      BY <1>8, <2>1
    <3> QED BY <2>1, <3>1
  <2>3. up \in [id : Int, x : Int, y : Int] /\ level[z] \in [id : Int, x : Int, y : Int]
    <3>1. z \in 0..z
      BY <1>1
    <3>2. up \in T /\ level[z] \in T
      BY <1>10, <2>1, <3>1
    <3> QED BY <3>2 DEF T
  <2>4. OnCurve(a, At(a))
    <3> HIDE DEF At
    <3> QED BY <2>1
  <2>5. /\ low \in [id : Int, x : Int, y : Int]
        /\ \E rx, ry \in Bits :
                  /\ low.id = up.id + Digit(rx, ry) * (s * s)
                  /\ Turn(s, low.x % s, low.y % s, rx, ry) = <<up.x % s, up.y % s>>
                  /\ up.x % (2 * s) = rx * s + (up.x % s)
                  /\ up.y % (2 * s) = ry * s + (up.y % s)
    <3> HIDE DEF up, low
    <3> QED BY <2>1, <2>2, <2>3, DeeperIs
  <2>6. PICK rx, ry \in Bits :
                  /\ low.id = up.id + Digit(rx, ry) * (s * s)
                  /\ Turn(s, low.x % s, low.y % s, rx, ry) = <<up.x % s, up.y % s>>
                  /\ up.x % (2 * s) = rx * s + (up.x % s)
                  /\ up.y % (2 * s) = ry * s + (up.y % s)
    BY <2>5
  <2>7. At(a) = <<N - low.id, low.x % s, low.y % s>>
    OBVIOUS
  <2>8. At(a + 1) = <<N - up.id, up.x % (2 * s), up.y % (2 * s)>>
    BY <2>1, Pow2Is
  <2>9. s \in Nat \ {0}
    BY <2>1, Pow2Type
  <2>10. N \in Int
    BY <2>3
  <2> HIDE DEF N, At, up, low, s
  <2>11. Upwards(s, At(a), rx, ry) =
           <<Digit(rx, ry) * (s * s) + (N - low.id), (up.x % s) + rx * s, (up.y % s) + ry * s>>
    BY <2>6, <2>7 DEF Upwards
  <2>12. Digit(rx, ry) * (s * s) + (N - low.id) = N - up.id
    <3> DEFINE d == Digit(rx, ry) * (s * s)
    <3>1. d \in Int
      BY <2>9 DEF Digit, Bits
    <3>2. low.id = up.id + d /\ up.id \in Int
      BY <2>3, <2>6
    <3> HIDE DEF d
    <3>3. d + (N - low.id) = N - up.id
      BY <2>10, <3>1, <3>2
    <3> QED BY <3>3 DEF d
  <2>13. (up.x % s) + rx * s = rx * s + (up.x % s) /\ (up.y % s) + ry * s = ry * s + (up.y % s)
    <3>1. up.x % s \in Int /\ up.y % s \in Int /\ rx * s \in Int /\ ry * s \in Int
      BY <2>3, <2>9 DEF Bits
    <3> QED BY <3>1
  <2>14. Upwards(s, At(a), rx, ry) = At(a + 1)
    BY <2>6, <2>8, <2>11, <2>12, <2>13
  <2>15. OnCurve(a + 1, Upwards(s, At(a), rx, ry))
    BY <2>1, <2>4, CurveAscends DEF s
  <2> QED BY <2>14, <2>15
<1>13. \A a \in Nat : a \in D
  <2> HIDE DEF D
  <2> QED BY <1>11, <1>12, Induction
<1>14. OnCurve(z, At(z))
  <2> HIDE DEF At
  <2> QED BY <1>1, <1>13
<1>15. At(z) = <<N - FirstID(z), x, y>>
  <2>1. z - z = 0 /\ x % Pow2[z] = x /\ y % Pow2[z] = y
    <3> DEFINE d == Pow2[z]
    <3>1. d \in Nat \ {0} /\ x \in 0..(d - 1) /\ y \in 0..(d - 1)
      BY <1>1
    <3> HIDE DEF d
    <3>2. x % d = x /\ y % d = y
      BY <3>1, SmallRemainder
    <3> QED BY <1>1, <3>2 DEF d
  <2>2. level[z - z] = b
    BY <1>8, <2>1
  <2> QED BY <2>1, <2>2
<1>16. N \in Int
  BY <1>1, <1>10 DEF T
<1> HIDE DEF N, At
<1>17. InSquare(Pow2[z], <<N - FirstID(z), x, y>>)
  BY <1>1, <1>14, <1>15, CurveInSquare
<1>18. N - FirstID(z) \in Nat /\ N = FirstID(z) + (N - FirstID(z))
  BY <1>2, <1>16, <1>17 DEF InSquare
<1> QED BY <1>9, <1>14, <1>15, <1>18 DEF N

\* What the loop of IDToZxy makes at side s.
LEMMA HigherIs ==
  ASSUME NEW a \in Nat, a <= CoordinateBits,
         NEW low \in [t : Nat, x : Nat, y : Nat], low.x < Pow2[a], low.y < Pow2[a]
  PROVE  LET s == Pow2[a]
             up == Higher(s, low)
         IN  /\ up \in [t : Nat, x : Nat, y : Nat]
             /\ \E rx, ry \in Bits :
                  /\ low.t = 4 * up.t + Digit(rx, ry)
                  /\ up.x = Turn(s, low.x, low.y, rx, ry)[1] + rx * s
                  /\ up.y = Turn(s, low.x, low.y, rx, ry)[2] + ry * s
<1> DEFINE s == Pow2[a]
           up == Higher(s, low)
           rx == (low.t \div 2) % 2
           ry == (low.t + rx) % 2
           at == Rotate(s, low.x, low.y, rx, ry)
           turned == Turn(s, low.x, low.y, rx, ry)
<1>1. /\ s \in Nat \ {0} /\ low.t \in Nat /\ low.x \in 0..(s - 1) /\ low.y \in 0..(s - 1)
      /\ Pow2[CoordinateBits] \in Nat \ {0} /\ s <= Pow2[CoordinateBits]
  BY Pow2Type, Pow2Grows, TileIDAssumption
<1> HIDE DEF s
<1>2. /\ rx \in Bits /\ ry \in Bits /\ low.t \div 4 \in Nat
      /\ low.t = 4 * (low.t \div 4) + Digit(rx, ry)
  <2> DEFINE t == low.t
             q == t \div 4
             m == t % 4
  <2>1. t \in Nat /\ q \in Nat /\ m \in 0..3 /\ t = 4 * q + m
    BY <1>1
  <2>2. (t \div 2) % 2 = m \div 2
    BY <2>1
  <2>3. (t + rx) % 2 = (m + rx) % 2
    BY <2>1
  <2> HIDE DEF t, q, m
  <2>4. rx = m \div 2
    BY <2>2 DEF t
  <2>5. ry = (m + rx) % 2
    BY <2>3 DEF t
  <2> HIDE DEF rx, ry
  <2>6. m = 0 \/ m = 1 \/ m = 2 \/ m = 3
    BY <2>1
  <2>7. rx \in Bits /\ ry \in Bits /\ m = Digit(rx, ry)
    BY <2>4, <2>5, <2>6 DEF Bits, Digit
  <2> QED BY <2>1, <2>7 DEF t, q
<1>3. at = turned
  <2> HIDE DEF rx, ry
  <2>1. CASE ry # 0
    BY <2>1 DEF Turn, Rotate
  <2>2. CASE ry = 0 /\ rx = 0
    BY <2>2 DEF Turn, Rotate
  <2>3. CASE ry = 0 /\ rx # 0
    <3> DEFINE U == Pow2[CoordinateBits]
    <3>1. U \in Nat \ {0} /\ s - 1 - low.x \in 0..(U - 1) /\ s - 1 - low.y \in 0..(U - 1)
      BY <1>1
    <3> HIDE DEF U
    <3>2. (s - 1 - low.x) % U = s - 1 - low.x /\ (s - 1 - low.y) % U = s - 1 - low.y
      BY <3>1, SmallRemainder
    <3> QED BY <2>3, <3>2 DEF U, Turn, Rotate, Wrap
  <2> QED BY <2>1, <2>2, <2>3
<1>4. up = [t |-> low.t \div 4, x |-> turned[1] + rx * s, y |-> turned[2] + ry * s]
  <2> HIDE DEF turned
  <2>1. up = [t |-> low.t \div 4, x |-> at[1] + rx * s, y |-> at[2] + ry * s]
    BY DEF Higher
  <2> HIDE DEF at
  <2> QED BY <1>3, <2>1
<1> HIDE DEF at, rx, ry, up
<1>5. turned \in (0..(s - 1)) \X (0..(s - 1))
  BY <1>1, <1>2, TurnFacts
<1> HIDE DEF turned
<1>6. turned[1] \in Nat /\ turned[2] \in Nat /\ rx * s \in Nat /\ ry * s \in Nat
  BY <1>1, <1>2, <1>5 DEF Bits
<1>7. /\ up \in [t : Nat, x : Nat, y : Nat] /\ low.t = 4 * up.t + Digit(rx, ry)
      /\ up.x = turned[1] + rx * s /\ up.y = turned[2] + ry * s
  BY <1>2, <1>4, <1>6
<1>8. \E qx, qy \in Bits :
        /\ low.t = 4 * up.t + Digit(qx, qy)
        /\ up.x = Turn(s, low.x, low.y, qx, qy)[1] + qx * s
        /\ up.y = Turn(s, low.x, low.y, qx, qy)[2] + qy * s
  BY <1>2, <1>7 DEF turned
<1> QED BY <1>7, <1>8 DEF s, up

\* The place of a number on the curve of its zoom is its tile.
LEMMA TileOfNumber ==
  ASSUME NEW id \in Nat, NEW z \in 0..MaxZoom, ZoomOf(id) = z,
         id - FirstID(z) \in Nat, id - FirstID(z) < Pow2[2 * z]
  PROVE  \E x, y \in Nat : /\ IDToZxy(id) = [z |-> z, x |-> x, y |-> y]
                           /\ OnCurve(z, <<id - FirstID(z), x, y>>)
<1> DEFINE n == id - FirstID(z)
           T == [t : Nat, x : Nat, y : Nat]
           b == [t |-> n, x |-> 0, y |-> 0]
           Fits(f) == f = [i \in 0..z |-> f[i]] /\ f[0] = b /\ \A i \in 1..z : f[i] = Higher(Pow2[i - 1], f[i - 1])
           Rec(g) == g = [a \in 0..z |-> IF a = 0 THEN b ELSE Higher(Pow2[a - 1], g[a - 1])]
           level == CHOOSE g : Rec(g)
           \* The state a of the loop: the low digits are a place on the curve of side 2^a.
           At(a, v) == /\ v \in T
                       /\ \E r \in Nat : n = v.t * Pow2[2 * a] + r /\ OnCurve(a, <<r, v.x, v.y>>)
<1>1. z \in Nat /\ CoordinateBits \in Nat /\ z <= CoordinateBits
  BY TileIDAssumption
<1> HIDE DEF n
<1>2. n \in Nat /\ n < Pow2[2 * z]
  BY DEF n
<1>3. At(0, b)
  <2>1. n = n * Pow2[2 * 0] + 0
    BY <1>2, Pow2Is
  <2>2. OnCurve(0, <<0, 0, 0>>)
    BY CurveBegins
  <2> QED BY <1>2, <2>1, <2>2
<1>4. ASSUME NEW a \in Nat, a + 1 <= z, NEW low, At(a, low) PROVE At(a + 1, Higher(Pow2[a], low))
  <2> DEFINE s == Pow2[a]
             up == Higher(s, low)
  <2>1. PICK r \in Nat : n = low.t * Pow2[2 * a] + r /\ OnCurve(a, <<r, low.x, low.y>>)
    BY <1>4
  <2>2. a <= CoordinateBits /\ s \in Nat \ {0} /\ Pow2[2 * a] = s * s /\ Pow2[2 * (a + 1)] = 4 * (s * s)
    <3>1. 2 * a \in Nat /\ 2 * (a + 1) = ((2 * a) + 1) + 1 /\ (2 * a) + 1 \in Nat
      OBVIOUS
    <3> QED BY <1>1, <1>4, <3>1, Pow2Type, Pow2Square, Pow2Is
  <2>3. InSquare(s, <<r, low.x, low.y>>)
    BY <2>1, CurveInSquare
  <2>4. low \in T /\ low.x < s /\ low.y < s
    BY <1>4, <2>3 DEF InSquare
  <2>5. /\ up \in T
        /\ \E rx, ry \in Bits :
             /\ low.t = 4 * up.t + Digit(rx, ry)
             /\ up.x = Turn(s, low.x, low.y, rx, ry)[1] + rx * s
             /\ up.y = Turn(s, low.x, low.y, rx, ry)[2] + ry * s
    BY <2>2, <2>4, HigherIs
  <2>6. PICK rx, ry \in Bits : /\ low.t = 4 * up.t + Digit(rx, ry)
                               /\ up.x = Turn(s, low.x, low.y, rx, ry)[1] + rx * s
                               /\ up.y = Turn(s, low.x, low.y, rx, ry)[2] + ry * s
    BY <2>5
  <2> DEFINE p == s * s
             d == Digit(rx, ry)
  <2>7. OnCurve(a + 1, Upwards(s, <<r, low.x, low.y>>, rx, ry))
    BY <2>1, CurveAscends
  <2>8. Upwards(s, <<r, low.x, low.y>>, rx, ry) = <<d * p + r, up.x, up.y>>
    BY <2>6 DEF Upwards
  <2>9. d \in Nat /\ p \in Nat
    BY <2>2 DEF Digit, Bits
  <2> HIDE DEF s, up, d, p
  <2>t. up.t \in Nat
    BY <2>5
  <2>10. n = up.t * (4 * p) + (d * p + r) /\ d * p + r \in Nat
    <3>1. n = (4 * up.t + d) * p + r
      BY <2>1, <2>2, <2>6 DEF d, p
    <3>2. (4 * up.t + d) * p = up.t * (4 * p) + d * p
      BY <2>9, <2>t
    <3> DEFINE A == up.t * (4 * p)
               B == d * p
    <3>3. A \in Nat /\ B \in Nat
      BY <2>9, <2>t
    <3>4. n = (A + B) + r
      BY <3>1, <3>2
    <3> HIDE DEF A, B
    <3>5. n = A + (B + r) /\ B + r \in Nat
      BY <2>1, <3>3, <3>4
    <3> QED BY <3>5 DEF A, B
  <2>11. n = up.t * Pow2[2 * (a + 1)] + (d * p + r)
    BY <2>2, <2>10 DEF p
  <2>12. OnCurve(a + 1, <<d * p + r, up.x, up.y>>)
    BY <2>7, <2>8
  <2> DEFINE R == d * p + r
  <2>13. R \in Nat /\ n = up.t * Pow2[2 * (a + 1)] + R /\ OnCurve(a + 1, <<R, up.x, up.y>>)
    BY <2>10, <2>11, <2>12
  <2> HIDE DEF R
  <2> QED BY <2>5, <2>13 DEF up, s
<1> HIDE DEF T, At, b
<1>5. \A f : Fits(f) => \A a \in 0..z : At(a, f[a])
  <2> SUFFICES ASSUME NEW f, Fits(f) PROVE \A a \in 0..z : At(a, f[a])
    OBVIOUS
  <2> DEFINE D == {a \in Nat : a <= z => At(a, f[a])}
  <2>0. f[0] = b /\ \A i \in 1..z : f[i] = Higher(Pow2[i - 1], f[i - 1])
    OBVIOUS
  <2> HIDE DEF Fits
  <2>1. 0 \in D
    BY <1>3, <2>0
  <2>2. ASSUME NEW a \in Nat \cap D PROVE a + 1 \in D
    <3> SUFFICES ASSUME a + 1 <= z PROVE At(a + 1, f[a + 1])
      OBVIOUS
    <3>1. a + 1 \in 1..z /\ (a + 1) - 1 = a /\ At(a, f[a])
      BY <1>1
    <3>2. f[a + 1] = Higher(Pow2[a], f[a])
      BY <2>0, <3>1
    <3> QED BY <1>4, <3>1, <3>2
  <2>3. \A a \in Nat : a \in D
    <3> HIDE DEF D
    <3> QED BY <2>1, <2>2, Induction
  <2> QED BY <1>1, <2>3
\* The first k states of the loop.
<1> DEFINE Climbs(k, f) == f = [i \in 0..k |-> f[i]] /\ f[0] = b /\ \A i \in 1..k : f[i] = Higher(Pow2[i - 1], f[i - 1])
<1>6. \E f : Fits(f)
  <2> DEFINE D == {k \in Nat : \E f : Climbs(k, f)}
  <2>1. 0 \in D
    <3> DEFINE f == [i \in 0..0 |-> b]
    <3>1. Climbs(0, f)
      OBVIOUS
    <3> HIDE DEF Climbs
    <3> QED BY <3>1
  <2>2. ASSUME NEW k \in Nat \cap D PROVE k + 1 \in D
    <3>1. PICK f : Climbs(k, f)
      <4> HIDE DEF Climbs
      <4> QED OBVIOUS
    <3> DEFINE g == [i \in 0..(k + 1) |-> IF i <= k THEN f[i] ELSE Higher(Pow2[k], f[k])]
    <3>2. g = [i \in 0..(k + 1) |-> g[i]] /\ g[0] = b
      BY <3>1
    <3>3. ASSUME NEW i \in 1..(k + 1) PROVE g[i] = Higher(Pow2[i - 1], g[i - 1])
      <4>1. CASE i <= k
        <5>1. i \in 1..k /\ g[i] = f[i] /\ g[i - 1] = f[i - 1]
          BY <4>1
        <5> QED BY <3>1, <5>1
      <4>2. CASE i = k + 1
        <5>1. g[i] = Higher(Pow2[k], f[k]) /\ g[i - 1] = f[k] /\ i - 1 = k
          BY <4>2
        <5> QED BY <5>1
      <4> QED BY <4>1, <4>2
    <3> HIDE DEF g
    <3>4. Climbs(k + 1, g)
      BY <3>2, <3>3
    <3> HIDE DEF Climbs
    <3> QED BY <3>4
  <2>3. \A k \in Nat : k \in D
    <3> HIDE DEF D
    <3> QED BY <2>1, <2>2, Induction
  <2>4. \E f : Climbs(z, f)
    <3> HIDE DEF Climbs
    <3> QED BY <1>1, <2>3
  <2> QED BY <2>4
<1>7. PICK f : Fits(f)
  <2> HIDE DEF Fits
  <2> QED BY <1>6
<1>8. Rec(f)
  <2> DEFINE body == [a \in 0..z |-> IF a = 0 THEN b ELSE Higher(Pow2[a - 1], f[a - 1])]
  <2>0. f[0] = b /\ \A i \in 1..z : f[i] = Higher(Pow2[i - 1], f[i - 1])
    BY <1>7
  <2>2. f = [a \in 0..z |-> f[a]] /\ body = [a \in 0..z |-> body[a]]
    BY <1>7
  <2> HIDE DEF Fits
  <2>1. \A a \in 0..z : f[a] = body[a]
    BY <1>1, <2>0
  <2> HIDE DEF body
  <2>3. f = body
    BY <2>1, <2>2
  <2> QED BY <2>3 DEF body
<1>9. Rec(level)
  <2> HIDE DEF Rec
  <2> QED BY <1>8
<1>10. Fits(level)
  <2> HIDE DEF level
  <2> QED BY <1>1, <1>9
<1>11. At(z, level[z])
  <2> HIDE DEF Fits, level
  <2> QED BY <1>1, <1>5, <1>10
<1>12. IDToZxy(id) = [z |-> z, x |-> level[z].x, y |-> level[z].y]
  BY DEF IDToZxy, level, b, n
<1> HIDE DEF level
<1> DEFINE v == level[z]
<1>13. PICK r \in Nat : n = v.t * Pow2[2 * z] + r /\ OnCurve(z, <<r, v.x, v.y>>)
  BY <1>11 DEF At
<1>14. v.t \in Nat /\ v.x \in Nat /\ v.y \in Nat
  BY <1>11 DEF At, T
<1>15. r = n
  <2> DEFINE p == Pow2[2 * z]
  <2>1. p \in Nat \ {0}
    <3>1. 2 * z \in Nat
      BY <1>1
    <3> QED BY <3>1, Pow2Type
  <2>2. v.t * p + r < p
    BY <1>2, <1>13
  <2> HIDE DEF p, v
  <2>3. v.t = 0
    <3> SUFFICES ASSUME v.t >= 1 PROVE FALSE
      BY <1>14
    <3> DEFINE A == v.t * p
    <3>1. A \in Nat /\ A >= p
      BY <1>14, <2>1
    <3> HIDE DEF A
    <3>2. A + r < p
      BY <2>2 DEF A
    <3> QED BY <2>1, <3>1, <3>2
  <2> QED BY <1>13, <2>1, <2>3 DEF p
<1> QED BY <1>12, <1>13, <1>14, <1>15 DEF n

LEMMA FirstIDs ==
  /\ FirstID(0) = 0
  /\ \A z \in Nat : FirstID(z) \in Nat /\ 3 * FirstID(z) + 1 = Pow2[2 * z] /\ FirstID(z + 1) = FirstID(z) + Pow2[2 * z]
<1> DEFINE D == {z \in Nat : FirstID(z) \in Nat /\ 3 * FirstID(z) + 1 = Pow2[2 * z]}
<1>1. \A z \in Nat : Pow2[2 * (z + 1)] = 4 * Pow2[2 * z] /\ Pow2[2 * z] \in Nat \ {0}
  <2> SUFFICES ASSUME NEW z \in Nat PROVE Pow2[2 * (z + 1)] = 4 * Pow2[2 * z] /\ Pow2[2 * z] \in Nat \ {0}
    OBVIOUS
  <2>1. 2 * z \in Nat /\ 2 * (z + 1) = ((2 * z) + 1) + 1 /\ (2 * z) + 1 \in Nat
    OBVIOUS
  <2> QED BY <2>1, Pow2Type, Pow2Is
<1>2. Pow2[2 * 0] = 1 /\ FirstID(0) = 0
  BY Pow2Is DEF FirstID
<1>3. 0 \in D
  BY <1>2
<1>4. ASSUME NEW z \in Nat \cap D PROVE z + 1 \in D
  <2> DEFINE p == Pow2[2 * z]
             q == Pow2[2 * (z + 1)]
             f == FirstID(z)
  <2>1. f \in Nat /\ 3 * f + 1 = p /\ q = 4 * p /\ FirstID(z + 1) = (q - 1) \div 3
    BY <1>1 DEF FirstID
  <2> HIDE DEF p, q, f
  <2>2. (q - 1) \div 3 = 4 * f + 1 /\ 3 * (4 * f + 1) + 1 = q
    BY <2>1
  <2> QED BY <2>1, <2>2 DEF q
<1>5. \A z \in Nat : z \in D
  <2> HIDE DEF D
  <2> QED BY <1>3, <1>4, Induction
<1>6. \A z \in Nat : FirstID(z + 1) = FirstID(z) + Pow2[2 * z]
  <2> SUFFICES ASSUME NEW z \in Nat PROVE FirstID(z + 1) = FirstID(z) + Pow2[2 * z]
    OBVIOUS
  <2> DEFINE p == Pow2[2 * z]
             q == Pow2[2 * (z + 1)]
             f == FirstID(z)
             g == FirstID(z + 1)
  <2>1. f \in Nat /\ g \in Nat /\ 3 * f + 1 = p /\ 3 * g + 1 = q /\ q = 4 * p
    <3>1. z \in D /\ z + 1 \in D
      BY <1>5
    <3> QED BY <1>1, <3>1
  <2> HIDE DEF p, q, f, g
  <2>2. g = f + p
    BY <2>1
  <2> QED BY <2>2 DEF p, f, g
<1> QED BY <1>2, <1>5, <1>6

LEMMA FirstIDsGrow ==
  ASSUME NEW m \in Nat, NEW n \in Nat, m <= n
  PROVE  FirstID(m) <= FirstID(n)
<1>1. 2 * m \in Nat /\ 2 * n \in Nat /\ 2 * m <= 2 * n
  OBVIOUS
<1>2. Pow2[2 * m] <= Pow2[2 * n]
  BY <1>1, Pow2Grows
<1> DEFINE f == FirstID(m)
           g == FirstID(n)
<1>3. f \in Nat /\ g \in Nat /\ 3 * f + 1 <= 3 * g + 1
  BY <1>2, FirstIDs
<1> HIDE DEF f, g
<1>4. f <= g
  BY <1>3
<1> QED BY <1>4 DEF f, g

\* The identifiers of a zoom.
LEMMA ZoomOfNumber ==
  ASSUME NEW z \in 0..MaxZoom, NEW n \in Nat, n < Pow2[2 * z]
  PROVE  ZoomOf(FirstID(z) + n) = z
<1> DEFINE id == FirstID(z) + n
           Is(y) == Pow2[2 * y] <= 3 * id + 1 /\ 3 * id + 1 < Pow2[2 * (y + 1)]
<1>0. MaxZoom \in Nat
  BY TileIDAssumption
<1>1. \A y \in 0..MaxZoom : Is(y) <=> FirstID(y) <= id /\ id < FirstID(y + 1)
  <2> SUFFICES ASSUME NEW y \in 0..MaxZoom PROVE Is(y) <=> FirstID(y) <= id /\ id < FirstID(y + 1)
    OBVIOUS
  <2> DEFINE f == FirstID(y)
             g == FirstID(y + 1)
             p == Pow2[2 * y]
             q == Pow2[2 * (y + 1)]
  <2>1. f \in Nat /\ g \in Nat /\ 3 * f + 1 = p /\ 3 * g + 1 = q /\ id \in Nat
    <3>1. y \in Nat /\ y + 1 \in Nat /\ z \in Nat
      BY <1>0
    <3>2. f \in Nat /\ 3 * f + 1 = p
      BY <3>1, FirstIDs
    <3>3. g \in Nat /\ 3 * g + 1 = q
      <4> DEFINE w == y + 1
      <4>1. w \in Nat
        BY <3>1
      <4> HIDE DEF w
      <4>2. FirstID(w) \in Nat /\ 3 * FirstID(w) + 1 = Pow2[2 * w]
        BY <4>1, FirstIDs
      <4> QED BY <4>2 DEF w
    <3>4. FirstID(z) \in Nat
      BY <3>1, FirstIDs
    <3>5. id \in Nat
      BY <3>4
    <3> HIDE DEF f, g, p, q, id
    <3> QED BY <3>2, <3>3, <3>5
  <2>2. Is(y) <=> p <= 3 * id + 1 /\ 3 * id + 1 < q
    OBVIOUS
  <2> HIDE DEF id, f, g, p, q, Is
  <2>3. (p <= 3 * id + 1 <=> f <= id) /\ (3 * id + 1 < q <=> id < g)
    BY <2>1
  <2> QED BY <2>2, <2>3 DEF f, g
<1>2. FirstID(z) <= id /\ id < FirstID(z + 1) /\ id \in Nat
  <2>1. z \in Nat /\ FirstID(z) \in Nat /\ FirstID(z + 1) = FirstID(z) + Pow2[2 * z]
    BY <1>0, FirstIDs
  <2>2. Pow2[2 * z] \in Nat
    <3>1. 2 * z \in Nat
      BY <1>0
    <3> QED BY <3>1, Pow2Type
  <2> QED BY <2>1, <2>2
<1> HIDE DEF Is
<1>3. ASSUME NEW y \in 0..MaxZoom, Is(y) PROVE y = z
  <2>1. FirstID(y) <= id /\ id < FirstID(y + 1) /\ y \in Nat /\ z \in Nat
    BY <1>0, <1>1, <1>3
  <2>2. /\ FirstID(y) \in Nat /\ FirstID(z) \in Nat /\ FirstID(y + 1) \in Nat /\ FirstID(z + 1) \in Nat
    BY <2>1, FirstIDs
  <2> HIDE DEF id
  <2>3. ~(y < z)
    <3> SUFFICES ASSUME y + 1 <= z PROVE FALSE
      BY <2>1
    <3>1. FirstID(y + 1) <= FirstID(z)
      BY <2>1, FirstIDsGrow
    <3> QED BY <1>2, <2>1, <2>2, <3>1
  <2>4. ~(z < y)
    <3> SUFFICES ASSUME z + 1 <= y PROVE FALSE
      BY <2>1
    <3>1. FirstID(z + 1) <= FirstID(y)
      BY <2>1, FirstIDsGrow
    <3> QED BY <1>2, <2>1, <2>2, <3>1
  <2> QED BY <2>1, <2>3, <2>4
<1>4. Is(z)
  BY <1>1, <1>2
<1>5. ZoomOf(id) = CHOOSE y \in 0..MaxZoom : Is(y)
  BY DEF ZoomOf, Is
<1>6. (CHOOSE y \in 0..MaxZoom : Is(y)) = z
  <2> HIDE DEF id
  <2>1. \E y \in 0..MaxZoom : Is(y)
    BY <1>4
  <2> QED BY <1>3, <2>1
<1> QED BY <1>5, <1>6

\* Every identifier is a number in a zoom.
LEMMA NumberOfIdentifier ==
  ASSUME NEW id \in 0..maxTileID
  PROVE  \E z \in 0..MaxZoom : \E n \in Nat : id = FirstID(z) + n /\ n < Pow2[2 * z]
<1> DEFINE D == {z \in Nat : id < FirstID(z) =>
                   \E y \in Nat : y < z /\ \E n \in Nat : id = FirstID(y) + n /\ n < Pow2[2 * y]}
<1>0. MaxZoom \in Nat /\ MaxZoom + 1 \in Nat
  BY TileIDAssumption
<1>1. FirstID(MaxZoom + 1) \in Nat
  BY <1>0, FirstIDs
<1>2. id \in Nat /\ id < FirstID(MaxZoom + 1)
  BY <1>1 DEF maxTileID
<1>3. 0 \in D
  BY <1>2, FirstIDs
<1>4. ASSUME NEW z \in Nat \cap D PROVE z + 1 \in D
  <2> SUFFICES ASSUME id < FirstID(z + 1)
               PROVE  \E y \in Nat : y < z + 1 /\ \E n \in Nat : id = FirstID(y) + n /\ n < Pow2[2 * y]
    OBVIOUS
  <2>1. z \in Nat /\ z < z + 1
    OBVIOUS
  <2>2. CASE id < FirstID(z)
    <3>1. PICK y \in Nat : y < z /\ \E n \in Nat : id = FirstID(y) + n /\ n < Pow2[2 * y]
      BY <2>2
    <3>2. y < z + 1
      BY <3>1
    <3> QED BY <3>1, <3>2
  <2>3. CASE ~(id < FirstID(z))
    <3> DEFINE n == id - FirstID(z)
    <3>1. FirstID(z) \in Nat /\ FirstID(z + 1) = FirstID(z) + Pow2[2 * z]
      BY FirstIDs
    <3>2. Pow2[2 * z] \in Nat
      <4>1. 2 * z \in Nat
        OBVIOUS
      <4> QED BY <4>1, Pow2Type
    <3>3. n \in Nat /\ id = FirstID(z) + n /\ n < Pow2[2 * z]
      BY <1>2, <2>3, <3>1, <3>2
    <3> HIDE DEF n
    <3> QED BY <2>1, <3>3
  <2> QED BY <2>2, <2>3
<1>5. \A z \in Nat : z \in D
  <2> HIDE DEF D
  <2> QED BY <1>3, <1>4, Induction
<1>6. PICK y \in Nat : y < MaxZoom + 1 /\ \E n \in Nat : id = FirstID(y) + n /\ n < Pow2[2 * y]
  BY <1>0, <1>2, <1>5
<1>7. y \in 0..MaxZoom
  BY <1>0, <1>6
<1> QED BY <1>6, <1>7

\* At any zoom, IDToZxy and ZxyToID are inverses: they number the tiles of all
\* zooms without a gap, and a coordinate that wraps around on the way does no harm.
THEOREM TilesAreNumbered ==
  \A id \in 0..maxTileID :
    /\ IDToZxy(id) \in TileSet
    /\ \A t \in TileSet : ZxyToID(t.z, t.x, t.y) = id <=> t = IDToZxy(id)
<1> SUFFICES ASSUME NEW id \in 0..maxTileID
             PROVE  /\ IDToZxy(id) \in TileSet
                    /\ \A t \in TileSet : ZxyToID(t.z, t.x, t.y) = id <=> t = IDToZxy(id)
  OBVIOUS
<1>0. MaxZoom \in Nat
  BY TileIDAssumption
<1>1. PICK z \in 0..MaxZoom : \E n \in Nat : id = FirstID(z) + n /\ n < Pow2[2 * z]
  BY NumberOfIdentifier
<1>2. PICK n \in Nat : id = FirstID(z) + n /\ n < Pow2[2 * z]
  BY <1>1
<1>3. z \in Nat /\ FirstID(z) \in Nat /\ id \in Nat /\ id - FirstID(z) = n
  <2>1. z \in Nat
    BY <1>0
  <2>2. FirstID(z) \in Nat
    BY <2>1, FirstIDs
  <2> QED BY <1>2, <2>1, <2>2
<1>4. ZoomOf(id) = z
  BY <1>2, ZoomOfNumber
<1>5. PICK x, y \in Nat : IDToZxy(id) = [z |-> z, x |-> x, y |-> y] /\ OnCurve(z, <<n, x, y>>)
  BY <1>2, <1>3, <1>4, TileOfNumber
<1>6. x < Pow2[z] /\ y < Pow2[z]
  BY <1>3, <1>5, CurveInSquare DEF InSquare
<1>7. Pow2[z] <= Pow2[MaxZoom] /\ Pow2[z] \in Nat \ {0} /\ Pow2[MaxZoom] \in Nat \ {0}
  BY <1>0, <1>3, Pow2Grows, Pow2Type
<1>8. x \in 0..(Pow2[z] - 1) /\ y \in 0..(Pow2[z] - 1) /\ x \in 0..(Pow2[MaxZoom] - 1) /\ y \in 0..(Pow2[MaxZoom] - 1)
  BY <1>6, <1>7
<1>9. IDToZxy(id) \in TileSet
  BY <1>5, <1>6, <1>8 DEF TileSet
<1>10. ASSUME NEW t \in TileSet PROVE ZxyToID(t.z, t.x, t.y) = id <=> t = IDToZxy(id)
  <2>1. /\ t = [z |-> t.z, x |-> t.x, y |-> t.y] /\ t.z \in 0..MaxZoom /\ t.z \in Nat
        /\ t.x \in Nat /\ t.y \in Nat /\ t.x < Pow2[t.z] /\ t.y < Pow2[t.z]
    <3>1. /\ t \in [z : 0..MaxZoom, x : 0..(Pow2[MaxZoom] - 1), y : 0..(Pow2[MaxZoom] - 1)]
          /\ t.x < Pow2[t.z] /\ t.y < Pow2[t.z]
      BY DEF TileSet
    <3> QED BY <1>0, <1>7, <3>1
  <2>2. t.x \in 0..(Pow2[t.z] - 1) /\ t.y \in 0..(Pow2[t.z] - 1)
    BY <2>1, Pow2Type
  <2>3. PICK m \in Nat : ZxyToID(t.z, t.x, t.y) = FirstID(t.z) + m /\ OnCurve(t.z, <<m, t.x, t.y>>)
    BY <2>1, <2>2, NumberOfTile
  <2>4. m < Pow2[2 * t.z]
    BY <2>1, <2>3, CurveInSquare, Pow2Square DEF InSquare
  <2>5. ZoomOf(FirstID(t.z) + m) = t.z
    BY <2>1, <2>4, ZoomOfNumber
  <2>6. ASSUME ZxyToID(t.z, t.x, t.y) = id PROVE t = IDToZxy(id)
    <3>1. t.z = z
      BY <1>4, <2>3, <2>5, <2>6
    <3>2. m = n
      BY <1>2, <1>3, <2>3, <2>6, <3>1
    <3>3. t.x = x /\ t.y = y
      <4> DEFINE c == <<n, x, y>>
                 d == <<n, t.x, t.y>>
      <4>1. OnCurve(z, c) /\ OnCurve(z, d) /\ c[1] = d[1]
        BY <1>5, <2>3, <3>1, <3>2
      <4>2. c[2] = d[2] /\ c[3] = d[3]
        <5> HIDE DEF c, d
        <5> QED BY <1>3, <4>1, CurveIsUnique
      <4> QED BY <4>2
    <3> QED BY <1>5, <2>1, <3>1, <3>3
  <2>7. ASSUME t = IDToZxy(id) PROVE ZxyToID(t.z, t.x, t.y) = id
    <3>1. t.z = z /\ t.x = x /\ t.y = y
      BY <1>5, <2>7
    <3>2. m = n
      <4> DEFINE c == <<n, x, y>>
                 d == <<m, t.x, t.y>>
      <4>1. OnCurve(z, c) /\ OnCurve(z, d) /\ c[2] = d[2] /\ c[3] = d[3]
        BY <1>5, <2>3, <3>1
      <4>2. c[1] = d[1]
        <5> HIDE DEF c, d
        <5> QED BY <1>3, <4>1, CurveIsUnique
      <4> QED BY <4>2
    <3> QED BY <1>2, <2>3, <3>1, <3>2
  <2> QED BY <2>6, <2>7
<1> QED BY <1>9, <1>10

-----------------------------------------------------------------------------
(* The contents of an archive, by their equations                            *)

\* Everything a directory can be written out to.
Written == {NoTile} \cup {Spell(id, e) : id \in Nat, e \in Entries}

Depth == MaxLeafDepth + 1

LEMMA TileOfIdIs == \A id \in 0..maxTileID : TileOfId[id] = IDToZxy(id)
<1> SUFFICES ASSUME NEW id \in 0..maxTileID PROVE TileOfId[id] = IDToZxy(id)
  OBVIOUS
<1> DEFINE Is(t) == ZxyToID(t.z, t.x, t.y) = id
<1>1. IDToZxy(id) \in TileSet /\ \A t \in TileSet : Is(t) <=> t = IDToZxy(id)
  BY TilesAreNumbered
<1>2. TileOfId[id] = CHOOSE t \in TileSet : Is(t)
  BY DEF TileOfId
<1> HIDE DEF Is
<1>3. \E t \in TileSet : Is(t)
  BY <1>1
<1>4. (CHOOSE t \in TileSet : Is(t)) \in TileSet /\ Is(CHOOSE t \in TileSet : Is(t))
  BY <1>3
<1> QED BY <1>1, <1>2, <1>4

LEMMA WriteOutType ==
  ASSUME NEW f \in Archive, NEW e \in Entries, NEW below \in [Seq(Entries) -> Seq(Written)]
  PROVE  WriteOut(f, e, below) \in Seq(Written)
<1> DEFINE At(d) == d.offset = f.leaf.offset + e.offset /\ d.length = e.length /\ Decodes(d.entries)
           leaf == {d \in f.directories : At(d)}
<1>1. WriteOut(f, e, below) = IF e.run > 0 THEN [k \in 1..e.run |-> Spell(e.id + k - 1, e)]
                              ELSE IF leaf = {} THEN <<NoTile>>
                              ELSE below[Decode((CHOOSE d \in leaf : TRUE).entries)]
  BY DEF WriteOut
<1>2. e.run \in Nat /\ e.id \in Nat
  BY PMTilesAssumption DEF Entries, Uint64
<1>3. [k \in 1..e.run |-> Spell(e.id + k - 1, e)] \in Seq(Written)
  <2>1. \A k \in 1..e.run : Spell(e.id + k - 1, e) \in Written
    <3> SUFFICES ASSUME NEW k \in 1..e.run PROVE Spell(e.id + k - 1, e) \in Written
      OBVIOUS
    <3>1. e.id + k - 1 \in Nat
      BY <1>2
    <3> QED BY <3>1 DEF Written
  <2> QED BY <1>2, <2>1
<1>4. <<NoTile>> \in Seq(Written)
  <2>1. NoTile \in Written
    BY DEF Written
  <2> QED BY <2>1
<1>5. leaf # {} => below[Decode((CHOOSE d \in leaf : TRUE).entries)] \in Seq(Written)
  <2> SUFFICES ASSUME leaf # {} PROVE below[Decode((CHOOSE d \in leaf : TRUE).entries)] \in Seq(Written)
    OBVIOUS
  <2> DEFINE d == CHOOSE x \in leaf : TRUE
  <2>1. d \in leaf
    <3> HIDE DEF leaf
    <3> QED OBVIOUS
  <2>2. d \in f.directories /\ Decodes(d.entries)
    <3> HIDE DEF d
    <3> QED BY <2>1
  <2> HIDE DEF d
  <2>3. Decode(d.entries) \in Seq(Entries)
    BY <2>2, DecodeType
  <2> QED BY <2>3 DEF d
<1> HIDE DEF leaf
<1> QED BY <1>1, <1>3, <1>4, <1>5

LEMMA LastEntriesAre ==
  ASSUME NEW f \in Archive, NEW entries \in Seq(Entries), NEW below \in [Seq(Entries) -> Seq(Written)]
  PROVE  /\ LastEntries(f, entries, below)[0] = <<>>
         /\ \A n \in 0..Len(entries) : LastEntries(f, entries, below)[n] \in Seq(Written)
         /\ \A n \in 1..Len(entries) :
              LastEntries(f, entries, below)[n] =
                WriteOut(f, entries[Len(entries) + 1 - n], below) \o LastEntries(f, entries, below)[n - 1]
<1> DEFINE N == Len(entries)
           T == Seq(Written)
           W(n) == WriteOut(f, entries[N + 1 - n], below)
           Rec(g) == g = [n \in 0..N |-> IF n = 0 THEN <<>> ELSE W(n) \o g[n - 1]]
           last == CHOOSE g : Rec(g)
<1>1. N \in Nat /\ <<>> \in T
  OBVIOUS
<1>2. \A n \in 1..N : W(n) \in T
  <2> SUFFICES ASSUME NEW n \in 1..N PROVE W(n) \in T
    OBVIOUS
  <2>1. N + 1 - n \in 1..N
    BY <1>1
  <2>2. entries[N + 1 - n] \in Entries
    BY <2>1, ElementOfSeq
  <2> QED BY <2>2, WriteOutType
<1> HIDE DEF W
<1>3. \A n \in 1..N : \A s \in T : W(n) \o s \in T
  BY <1>2, ConcatProperties
<1>4. \E g : g \in [0..N -> T] /\ Rec(g)
  <2> DEFINE b == <<>>
             G == [n \in 1..N |-> [s \in T |-> W(n) \o s]]
  <2>1. b \in T /\ N \in Nat /\ G \in [1..N -> [T -> T]]
    BY <1>1, <1>3
  <2> HIDE DEF N, T, G, b
  <2>r. Recurs(T, b, N, G)
    BY <2>1, Recursion
  <2>2. PICK g \in [0..N -> T] : g[0] = b /\ \A n \in 1..N : g[n] = G[n][g[n - 1]]
    BY <2>r DEF Recurs
  <2>3. g[0] = <<>> /\ \A n \in 1..N : g[n] = W(n) \o g[n - 1]
    <3>1. ASSUME NEW n \in 1..N PROVE g[n] = W(n) \o g[n - 1]
      <4>1. g[n - 1] \in T
        BY <2>1
      <4> QED BY <2>2, <4>1 DEF G
    <3> QED BY <2>2, <3>1 DEF b
  <2>4. \A n \in 0..N : g[n] = IF n = 0 THEN <<>> ELSE W(n) \o g[n - 1]
    BY <2>1, <2>3
  <2>5. g = [n \in 0..N |-> IF n = 0 THEN <<>> ELSE W(n) \o g[n - 1]]
    BY <2>4
  <2> QED BY <2>5
<1>5. Rec(last)
  <2> HIDE DEF Rec
  <2> QED BY <1>4
<1>6. LastEntries(f, entries, below) = last
  BY DEF LastEntries, W
<1> HIDE DEF last
<1>7. \A n \in 0..N : last[n] = IF n = 0 THEN <<>> ELSE W(n) \o last[n - 1]
  BY <1>5
<1> HIDE DEF Rec
<1>8. last[0] = <<>> /\ \A n \in 1..N : last[n] = W(n) \o last[n - 1]
  <2> HIDE DEF N, T
  <2>1. 0 \in 0..N
    BY <1>1
  <2>2. ASSUME NEW n \in 1..N PROVE last[n] = W(n) \o last[n - 1]
    <3>1. n \in 0..N /\ n # 0
      BY <1>1
    <3> QED BY <1>7, <3>1
  <2> QED BY <1>7, <2>1, <2>2
<1> DEFINE D == {n \in Nat : n <= N => last[n] \in T}
<1>9. \A n \in Nat : n \in D
  <2>1. 0 \in D
    BY <1>1, <1>8
  <2>2. ASSUME NEW n \in Nat \cap D PROVE n + 1 \in D
    <3> SUFFICES ASSUME n + 1 <= N PROVE last[n + 1] \in T
      OBVIOUS
    <3>1. n + 1 \in 1..N /\ (n + 1) - 1 = n /\ last[n] \in T
      BY <1>1
    <3> HIDE DEF T
    <3> QED BY <1>3, <1>8, <3>1
  <2> HIDE DEF D
  <2> QED BY <2>1, <2>2, Induction
<1>10. \A n \in 0..N : last[n] \in T
  BY <1>1, <1>9
<1> QED BY <1>6, <1>8, <1>10 DEF W

\* A directory written out at a depth is its entries, written out with the depth below.
LEMMA ExpandIs ==
  ASSUME NEW f \in Archive
  PROVE  /\ \A n \in 0..Depth : Expand(f)[n] \in [Seq(Entries) -> Seq(Written)]
         /\ \A n \in 1..Depth : \A entries \in Seq(Entries) :
              Expand(f)[n][entries] = LastEntries(f, entries, Expand(f)[n - 1])[Len(entries)]
<1> DEFINE T == [Seq(Entries) -> Seq(Written)]
           W(below) == [entries \in Seq(Entries) |-> LastEntries(f, entries, below)[Len(entries)]]
           b == [entries \in Seq(Entries) |-> <<NoTile>>]
           G == [n \in 1..Depth |-> [below \in T |-> W(below)]]
           Rec(g) == g = [n \in 0..Depth |->
                            [entries \in Seq(Entries) |->
                               IF n = 0 THEN <<NoTile>> ELSE LastEntries(f, entries, g[n - 1])[Len(entries)]]]
           expand == CHOOSE g : Rec(g)
<1>1. Depth \in Nat
  BY PMTilesAssumption DEF Depth
<1>2. b \in T
  <2>1. <<NoTile>> \in Seq(Written)
    <3>1. NoTile \in Written
      BY DEF Written
    <3> QED BY <3>1
  <2> QED BY <2>1
<1>3. \A below \in T : W(below) \in T
  <2> SUFFICES ASSUME NEW below \in T, NEW entries \in Seq(Entries)
               PROVE  LastEntries(f, entries, below)[Len(entries)] \in Seq(Written)
    OBVIOUS
  <2>1. Len(entries) \in 0..Len(entries)
    OBVIOUS
  <2> QED BY <2>1, LastEntriesAre
<1>4. \E g : Rec(g)
  <2>1. G \in [1..Depth -> [T -> T]]
    BY <1>3
  <2> HIDE DEF T, G, b
  <2>2. PICK g \in [0..Depth -> T] : g[0] = b /\ \A n \in 1..Depth : g[n] = G[n][g[n - 1]]
    BY <1>1, <1>2, <2>1, Recursion DEF Recurs
  <2>3. \A n \in 1..Depth : g[n] = W(g[n - 1])
    <3> SUFFICES ASSUME NEW n \in 1..Depth PROVE g[n] = W(g[n - 1])
      OBVIOUS
    <3>1. g[n - 1] \in T
      BY <1>1
    <3> HIDE DEF W
    <3> QED BY <2>2, <3>1 DEF G
  <2> DEFINE Row(n) == [entries \in Seq(Entries) |->
                          IF n = 0 THEN <<NoTile>> ELSE LastEntries(f, entries, g[n - 1])[Len(entries)]]
  <2>4. \A n \in 0..Depth : g[n] = Row(n)
    <3> SUFFICES ASSUME NEW n \in 0..Depth PROVE g[n] = Row(n)
      OBVIOUS
    <3>1. CASE n = 0
      <4>1. Row(n) = b
        BY <3>1 DEF b
      <4> QED BY <2>2, <3>1, <4>1
    <3>2. CASE n # 0
      <4>1. n \in 1..Depth
        BY <1>1, <3>2
      <4>2. Row(n) = W(g[n - 1])
        BY <3>2
      <4> QED BY <2>3, <4>1, <4>2
    <3> QED BY <3>1, <3>2
  <2>5. g = [n \in 0..Depth |-> Row(n)]
    <3> HIDE DEF Row
    <3> QED BY <2>4
  <2> QED BY <2>5
<1>5. Rec(expand)
  <2> HIDE DEF Rec
  <2> QED BY <1>4
<1>6. Expand(f) = expand
  BY DEF Expand, Depth
<1> HIDE DEF expand
<1> DEFINE Row(n) == [entries \in Seq(Entries) |->
                        IF n = 0 THEN <<NoTile>> ELSE LastEntries(f, entries, expand[n - 1])[Len(entries)]]
<1>7. \A n \in 0..Depth : expand[n] = Row(n)
  <2>1. expand = [n \in 0..Depth |-> Row(n)]
    BY <1>5
  <2> HIDE DEF Row, Rec
  <2> QED BY <2>1
<1> HIDE DEF Rec
<1>8. expand[0] = b /\ \A n \in 1..Depth : expand[n] = W(expand[n - 1])
  <2>1. expand[0] = b
    <3>1. 0 \in 0..Depth /\ Row(0) = b
      BY <1>1
    <3> HIDE DEF Row
    <3> QED BY <1>7, <3>1
  <2>2. ASSUME NEW n \in 1..Depth PROVE expand[n] = W(expand[n - 1])
    <3>1. n \in 0..Depth /\ n # 0
      BY <1>1
    <3>2. Row(n) = W(expand[n - 1])
      BY <3>1
    <3> HIDE DEF Row, W
    <3> QED BY <1>7, <3>1, <3>2
  <2> QED BY <2>1, <2>2
<1> DEFINE D == {n \in Nat : n <= Depth => expand[n] \in T}
<1>9. \A n \in Nat : n \in D
  <2>1. 0 \in D
    BY <1>2, <1>8
  <2>2. ASSUME NEW n \in Nat \cap D PROVE n + 1 \in D
    <3> SUFFICES ASSUME n + 1 <= Depth PROVE expand[n + 1] \in T
      OBVIOUS
    <3>1. n + 1 \in 1..Depth /\ (n + 1) - 1 = n /\ expand[n] \in T
      BY <1>1
    <3> HIDE DEF T, W
    <3> QED BY <1>3, <1>8, <3>1
  <2> HIDE DEF D
  <2> QED BY <2>1, <2>2, Induction
<1>10. \A n \in 0..Depth : expand[n] \in T
  BY <1>1, <1>9
<1>11. \A n \in 1..Depth : \A entries \in Seq(Entries) :
         expand[n][entries] = LastEntries(f, entries, expand[n - 1])[Len(entries)]
  BY <1>8
<1> QED BY <1>6, <1>10, <1>11

-----------------------------------------------------------------------------
(* What a stack of directories still holds                                   *)

\* What the leaves at a level of the stack are written out to.
Below(f, k) == Expand(f)[Depth - k]

Coming(f, frame, k) ==
  LastEntries(f, frame.entries, Below(f, k))[Len(frame.entries) + 1 - frame.next]

IsRest(f, s, out) ==
  /\ out \in [0..Len(s) -> Seq(Written)] /\ out[0] = <<>>
  /\ \A k \in 1..Len(s) :
       s[k].next <= Len(s[k].entries) + 1 /\ out[k] = Coming(f, s[k], k) \o out[k - 1]

\* The rest of the innermost directory, then of the one it lies in, and so on.
Rest(f, s, rest) == \E out : IsRest(f, s, out) /\ rest = out[Len(s)]

LEMMA DepthType == Depth \in Nat \ {0} /\ MaxLeafDepth \in Nat /\ Depth = MaxLeafDepth + 1
BY PMTilesAssumption DEF Depth

LEMMA BelowType ==
  ASSUME NEW f \in Archive, NEW k \in 1..Depth
  PROVE  Below(f, k) \in [Seq(Entries) -> Seq(Written)]
<1>1. Depth - k \in 0..Depth
  BY DepthType
<1> QED BY <1>1, ExpandIs DEF Below

LEMMA ComingIs ==
  ASSUME NEW f \in Archive, NEW k \in 1..Depth, NEW frame \in Frames,
         frame.next <= Len(frame.entries) + 1
  PROVE  /\ Coming(f, frame, k) \in Seq(Written)
         /\ frame.next > Len(frame.entries) => Coming(f, frame, k) = <<>>
         /\ frame.next <= Len(frame.entries) =>
              Coming(f, frame, k) = WriteOut(f, frame.entries[frame.next], Below(f, k))
                                      \o Coming(f, [frame EXCEPT !.next = @ + 1], k)
<1> DEFINE entries == frame.entries
           next == frame.next
           below == Below(f, k)
           last == LastEntries(f, entries, below)
           n == Len(entries) + 1 - next
<1>1. entries \in Seq(Entries) /\ next \in Nat \ {0} /\ Len(entries) \in Nat
  BY DEF Frames
<1>2. below \in [Seq(Entries) -> Seq(Written)]
  BY BelowType
<1>3. n \in 0..Len(entries)
  BY <1>1
<1>4. Coming(f, frame, k) = last[n]
  BY DEF Coming
<1>5. [frame EXCEPT !.next = @ + 1].entries = entries /\ [frame EXCEPT !.next = @ + 1].next = next + 1
  BY DEF Frames
<1>6. Coming(f, [frame EXCEPT !.next = @ + 1], k) = last[Len(entries) + 1 - (next + 1)]
  BY <1>5 DEF Coming
<1> HIDE DEF entries, below
<1>7. /\ last[0] = <<>> /\ last[n] \in Seq(Written)
      /\ \A m \in 1..Len(entries) : last[m] = WriteOut(f, entries[Len(entries) + 1 - m], below) \o last[m - 1]
  BY <1>1, <1>2, <1>3, LastEntriesAre
<1> HIDE DEF last
<1>8. ASSUME next > Len(entries) PROVE last[n] = <<>>
  <2>1. n = 0
    BY <1>1, <1>3, <1>8
  <2> QED BY <1>7, <2>1
<1>9. ASSUME next <= Len(entries)
      PROVE  last[n] = WriteOut(f, entries[next], below) \o last[Len(entries) + 1 - (next + 1)]
  <2>1. /\ n \in 1..Len(entries) /\ Len(entries) + 1 - n = next
        /\ n - 1 = Len(entries) + 1 - (next + 1)
    BY <1>1, <1>9
  <2> HIDE DEF n
  <2> QED BY <1>7, <2>1
<1> QED BY <1>4, <1>6, <1>7, <1>8, <1>9 DEF entries, below

LEMMA RestType ==
  ASSUME NEW f, NEW s \in Seq(Frames), NEW rest, Rest(f, s, rest)
  PROVE  rest \in Seq(Written)
<1>1. Len(s) \in 0..Len(s)
  OBVIOUS
<1> QED BY <1>1 DEF Rest, IsRest

LEMMA RestOfNone ==
  /\ \A f : Rest(f, <<>>, <<>>)
  /\ \A f, rest : Rest(f, <<>>, rest) => rest = <<>>
<1>1. Len(<<>>) = 0
  OBVIOUS
<1>2. \A f : Rest(f, <<>>, <<>>)
  <2> SUFFICES ASSUME NEW f PROVE Rest(f, <<>>, <<>>)
    OBVIOUS
  <2> DEFINE out == [k \in 0..0 |-> <<>>]
  <2>1. out \in [0..0 -> Seq(Written)] /\ out[0] = <<>>
    OBVIOUS
  <2>2. IsRest(f, <<>>, out)
    BY <1>1, <2>1 DEF IsRest
  <2> QED BY <1>1, <2>1, <2>2 DEF Rest
<1>3. \A f, rest : Rest(f, <<>>, rest) => rest = <<>>
  BY <1>1 DEF Rest, IsRest
<1> QED BY <1>2, <1>3

\* A directory on top of the others adds what is coming of it.
LEMMA RestPushed ==
  ASSUME NEW f \in Archive, NEW s \in Seq(Frames), Len(s) < Depth, NEW frame \in Frames,
         frame.next <= Len(frame.entries) + 1, NEW rest, Rest(f, s, rest)
  PROVE  Rest(f, Append(s, frame), Coming(f, frame, Len(s) + 1) \o rest)
<1> DEFINE n == Len(s)
           t == Append(s, frame)
           r == Coming(f, frame, n + 1) \o rest
<1>1. PICK out : IsRest(f, s, out) /\ rest = out[n]
  BY DEF Rest
<1>2. n \in Nat /\ n + 1 \in 1..Depth
  BY DepthType
<1>3. Len(t) = n + 1 /\ t[n + 1] = frame /\ \A k \in 1..n : t[k] = s[k]
  OBVIOUS
<1>4. r \in Seq(Written)
  BY <1>2, RestType, ComingIs, ConcatProperties
<1> HIDE DEF t
<1> DEFINE u == [k \in 0..(n + 1) |-> IF k <= n THEN out[k] ELSE r]
<1>5. out \in [0..n -> Seq(Written)] /\ out[0] = <<>>
  BY <1>1 DEF IsRest
<1>6. u \in [0..(n + 1) -> Seq(Written)] /\ u[0] = <<>> /\ u[n + 1] = r
  <2> HIDE DEF r
  <2> QED BY <1>2, <1>4, <1>5
<1>7. ASSUME NEW k \in 1..(n + 1)
      PROVE  t[k].next <= Len(t[k].entries) + 1 /\ u[k] = Coming(f, t[k], k) \o u[k - 1]
  <2>1. CASE k <= n
    <3>1. k \in 1..n /\ u[k] = out[k] /\ u[k - 1] = out[k - 1] /\ t[k] = s[k]
      BY <1>2, <1>3, <2>1
    <3> HIDE DEF u
    <3> QED BY <1>1, <3>1 DEF IsRest
  <2>2. CASE ~(k <= n)
    <3>1. k = n + 1 /\ k - 1 = n
      BY <1>2, <2>2
    <3>2. u[k] = r /\ u[k - 1] = out[n] /\ t[k] = frame
      <4> HIDE DEF r
      <4> QED BY <1>2, <1>3, <3>1
    <3> HIDE DEF u
    <3> QED BY <1>1, <3>1, <3>2
  <2> QED BY <2>1, <2>2
<1> HIDE DEF u, r
<1>8. IsRest(f, t, u)
  BY <1>3, <1>6, <1>7 DEF IsRest
<1>9. Rest(f, t, r)
  BY <1>3, <1>6, <1>8 DEF Rest
<1> QED BY <1>9 DEF t, r

\* What is coming first, and the rest of the directories around it.
Parts(f, s, coming, rest) == \E q \in Seq(Written) : Rest(f, s, q) /\ rest = coming \o q

LEMMA RestPopped ==
  ASSUME NEW f \in Archive, NEW s \in Seq(Frames), Len(s) < Depth, NEW frame \in Frames,
         NEW rest, Rest(f, Append(s, frame), rest)
  PROVE  /\ frame.next <= Len(frame.entries) + 1
         /\ Parts(f, s, Coming(f, frame, Len(s) + 1), rest)
<1> DEFINE n == Len(s)
           t == Append(s, frame)
<1>2. n \in Nat /\ n + 1 \in 1..Depth
  BY DepthType
<1>3. Len(t) = n + 1 /\ t[n + 1] = frame /\ \A k \in 1..n : t[k] = s[k]
  OBVIOUS
<1> HIDE DEF t
<1>1. PICK out : IsRest(f, t, out) /\ rest = out[n + 1]
  BY <1>3 DEF Rest, t
<1>4. /\ out \in [0..(n + 1) -> Seq(Written)] /\ out[0] = <<>>
      /\ \A k \in 1..(n + 1) : t[k].next <= Len(t[k].entries) + 1 /\ out[k] = Coming(f, t[k], k) \o out[k - 1]
  BY <1>1, <1>3 DEF IsRest
<1>5. frame.next <= Len(frame.entries) + 1 /\ rest = Coming(f, frame, n + 1) \o out[n]
  <2>1. n + 1 \in 1..(n + 1) /\ (n + 1) - 1 = n
    BY <1>2
  <2> QED BY <1>1, <1>3, <1>4, <2>1
<1> DEFINE u == [k \in 0..n |-> out[k]]
<1>6. u \in [0..n -> Seq(Written)] /\ u[0] = <<>> /\ u[n] = out[n] /\ out[n] \in Seq(Written)
  BY <1>2, <1>4
<1>7. ASSUME NEW k \in 1..n PROVE s[k].next <= Len(s[k].entries) + 1 /\ u[k] = Coming(f, s[k], k) \o u[k - 1]
  <2>1. k \in 1..(n + 1) /\ u[k] = out[k] /\ u[k - 1] = out[k - 1] /\ t[k] = s[k]
    BY <1>2, <1>3
  <2> HIDE DEF u
  <2> QED BY <1>4, <2>1
<1> HIDE DEF u
<1>8. IsRest(f, s, u)
  BY <1>6, <1>7 DEF IsRest
<1>9. Rest(f, s, out[n])
  BY <1>6, <1>8 DEF Rest
<1> QED BY <1>5, <1>6, <1>9 DEF Parts

LEMMA FrameAdvances ==
  ASSUME NEW t \in Frames
  PROVE  /\ [t EXCEPT !.next = @ + 1] \in Frames /\ t.entries \in Seq(Entries) /\ t.next \in Nat \ {0}
         /\ t.next <= Len(t.entries) =>
              [t EXCEPT !.next = @ + 1].next <= Len([t EXCEPT !.next = @ + 1].entries) + 1
<1>1. t = [entries |-> t.entries, next |-> t.next] /\ t.entries \in Seq(Entries) /\ t.next \in Nat \ {0}
  BY DEF Frames
<1>2. [t EXCEPT !.next = @ + 1] = [entries |-> t.entries, next |-> t.next + 1]
  BY <1>1
<1>3. t.next + 1 \in Nat \ {0} /\ Len(t.entries) \in Nat
  BY <1>1
<1> QED BY <1>1, <1>2, <1>3 DEF Frames

LEMMA StackSplit ==
  ASSUME NEW s \in Seq(Frames), s # <<>>
  PROVE  /\ SubSeq(s, 1, Len(s) - 1) \in Seq(Frames) /\ Len(SubSeq(s, 1, Len(s) - 1)) = Len(s) - 1
         /\ PlaceTop(s) \in Frames /\ Len(s) \in Nat \ {0}
         /\ s = Append(SubSeq(s, 1, Len(s) - 1), PlaceTop(s))
         /\ Past(s) = Append(SubSeq(s, 1, Len(s) - 1), [PlaceTop(s) EXCEPT !.next = @ + 1])
<1> DEFINE front == SubSeq(s, 1, Len(s) - 1)
           top == [PlaceTop(s) EXCEPT !.next = @ + 1]
<1>1. Len(s) \in Nat \ {0} /\ PlaceTop(s) \in Frames
  BY ElementType DEF PlaceTop
<1>2. front \in Seq(Frames) /\ Len(front) = Len(s) - 1 /\ \A i \in 1..(Len(s) - 1) : front[i] = s[i]
  <2> DEFINE m == Len(s) - 1
  <2>1. m \in Nat /\ 1 \in Int /\ m \in Int /\ \A i \in 1..m : s[i] \in Frames
    BY <1>1, ElementType
  <2>2. SubSeq(s, 1, m) \in Seq(Frames) /\ Len(SubSeq(s, 1, m)) = (IF 1 <= m THEN m - 1 + 1 ELSE 0)
    <3> HIDE DEF m
    <3> QED BY <2>1, SubSeqProperties
  <2>3. \A i \in 1..(m - 1 + 1) : SubSeq(s, 1, m)[i] = s[1 + i - 1]
    <3> HIDE DEF m
    <3> QED BY <2>1, SubSeqProperties
  <2>4. \A i \in 1..m : SubSeq(s, 1, m)[i] = s[i]
    <3> HIDE DEF m
    <3> SUFFICES ASSUME NEW i \in 1..m PROVE SubSeq(s, 1, m)[i] = s[i]
      OBVIOUS
    <3>1. i \in 1..(m - 1 + 1) /\ 1 + i - 1 = i
      BY <2>1
    <3> QED BY <2>3, <3>1
  <2>5. (IF 1 <= m THEN m - 1 + 1 ELSE 0) = m
    <3> HIDE DEF m
    <3> QED BY <2>1
  <2> QED BY <2>2, <2>4, <2>5
<1>3. top \in Frames
  BY <1>1, FrameAdvances
<1>4. Past(s) = [s EXCEPT ![Len(s)] = top]
  BY DEF Past, PlaceTop
<1> HIDE DEF front, top
<1>5. s = Append(front, PlaceTop(s))
  <2> DEFINE t == Append(front, PlaceTop(s))
  <2>1. t \in Seq(Frames) /\ Len(t) = Len(s)
    BY <1>1, <1>2
  <2>2. \A i \in 1..Len(s) : s[i] = t[i]
    BY <1>1, <1>2 DEF PlaceTop
  <2> HIDE DEF t
  <2>3. s = t
    BY <2>1, <2>2, SeqEqual
  <2> QED BY <2>3 DEF t
<1>6. [s EXCEPT ![Len(s)] = top] = Append(front, top)
  <2> DEFINE t == Append(front, top)
             u == [s EXCEPT ![Len(s)] = top]
  <2>1. t \in Seq(Frames) /\ Len(t) = Len(s) /\ u \in Seq(Frames) /\ Len(u) = Len(s)
    BY <1>1, <1>2, <1>3
  <2>2. \A i \in 1..Len(s) : u[i] = t[i]
    BY <1>1, <1>2, <1>3
  <2> HIDE DEF t, u
  <2>3. u = t
    BY <2>1, <2>2, SeqEqual
  <2> QED BY <2>3 DEF t, u
<1> QED BY <1>1, <1>2, <1>4, <1>5, <1>6 DEF front, top

\* Passing an entry takes what it is written out to.
LEMMA RestAdvances ==
  ASSUME NEW f \in Archive, NEW s \in Seq(Frames), Len(s) <= Depth, AtPlaceEntry(s),
         NEW rest, Rest(f, s, rest)
  PROVE  Parts(f, Past(s), WriteOut(f, PlaceEntry(s), Below(f, Len(s))), rest)
<1> DEFINE front == SubSeq(s, 1, Len(s) - 1)
           top == PlaceTop(s)
           after == [top EXCEPT !.next = @ + 1]
           n == Len(s)
           e == WriteOut(f, PlaceEntry(s), Below(f, n))
<1>1. s # <<>> /\ top.next <= Len(top.entries)
  BY DEF AtPlaceEntry
<1>2. /\ front \in Seq(Frames) /\ Len(front) = n - 1 /\ top \in Frames /\ n \in Nat \ {0}
      /\ s = Append(front, top) /\ Past(s) = Append(front, after)
  BY <1>1, StackSplit
<1>3. n \in 1..Depth /\ n - 1 < Depth /\ (n - 1) + 1 = n
  BY <1>2, DepthType
<1>4. after \in Frames /\ after.next <= Len(after.entries) + 1 /\ top.entries \in Seq(Entries) /\ top.next \in Nat \ {0}
  <2> HIDE DEF top
  <2> QED BY <1>1, <1>2, FrameAdvances
<1>5. PlaceEntry(s) = top.entries[top.next] /\ PlaceEntry(s) \in Entries
  <2>1. top.next \in 1..Len(top.entries)
    BY <1>1, <1>4
  <2> QED BY <1>4, <2>1, ElementOfSeq DEF PlaceEntry
<1>6. e \in Seq(Written)
  BY <1>3, <1>5, BelowType, WriteOutType
<1>7. Coming(f, top, n) = e \o Coming(f, after, n) /\ Coming(f, after, n) \in Seq(Written)
  <2>1. top.next <= Len(top.entries) + 1
    BY <1>1, <1>4
  <2> QED BY <1>1, <1>2, <1>3, <1>4, <1>5, <2>1, ComingIs
<1> HIDE DEF front, top, after, n, e
<1>8. PICK q \in Seq(Written) : Rest(f, front, q) /\ rest = Coming(f, top, n) \o q
  <2>1. Len(front) < Depth /\ Len(front) + 1 = n
    BY <1>2, <1>3
  <2>2. Rest(f, Append(front, top), rest)
    BY <1>2
  <2>3. Parts(f, front, Coming(f, top, n), rest)
    BY <1>2, <2>1, <2>2, RestPopped
  <2> QED BY <2>3 DEF Parts
<1>9. Rest(f, Past(s), Coming(f, after, n) \o q)
  <2>1. Len(front) < Depth /\ Len(front) + 1 = n
    BY <1>2, <1>3
  <2> QED BY <1>2, <1>4, <1>8, <2>1, RestPushed
<1>10. rest = e \o (Coming(f, after, n) \o q) /\ Coming(f, after, n) \o q \in Seq(Written)
  BY <1>6, <1>7, <1>8, ConcatAssociative, ConcatProperties
<1> QED BY <1>9, <1>10 DEF Parts, e, n

\* A new directory adds everything it is written out to.
LEMMA RestEnters ==
  ASSUME NEW f \in Archive, NEW s \in Seq(Frames), Len(s) < Depth, NEW entries \in Seq(Entries),
         NEW rest, Rest(f, s, rest)
  PROVE  Rest(f, Append(s, [entries |-> entries, next |-> 1]), Expand(f)[Depth - Len(s)][entries] \o rest)
<1> DEFINE frame == [entries |-> entries, next |-> 1]
           n == Len(s)
<1>1. frame \in Frames /\ frame.next <= Len(frame.entries) + 1 /\ frame.entries = entries
      /\ Len(frame.entries) + 1 - frame.next = Len(entries)
  BY DEF Frames
<1>2. Depth - n \in 1..Depth /\ Depth - (n + 1) = (Depth - n) - 1
  BY DepthType
<1>3. Coming(f, frame, n + 1) = LastEntries(f, entries, Expand(f)[(Depth - n) - 1])[Len(entries)]
  BY <1>1, <1>2 DEF Coming, Below
<1>4. Coming(f, frame, n + 1) = Expand(f)[Depth - n][entries]
  BY <1>2, <1>3, ExpandIs
<1> HIDE DEF frame
<1>5. Rest(f, Append(s, frame), Coming(f, frame, n + 1) \o rest)
  BY <1>1, RestPushed
<1> QED BY <1>4, <1>5 DEF frame

\* A directory that is finished has nothing left.
LEMMA RestLeaves ==
  ASSUME NEW f \in Archive, NEW s \in Seq(Frames), Len(s) <= Depth, s # <<>>,
         PlaceTop(s).next > Len(PlaceTop(s).entries), NEW rest, Rest(f, s, rest)
  PROVE  Rest(f, SubSeq(s, 1, Len(s) - 1), rest)
<1> DEFINE front == SubSeq(s, 1, Len(s) - 1)
           top == PlaceTop(s)
           n == Len(s)
<1>1. /\ front \in Seq(Frames) /\ Len(front) = n - 1 /\ top \in Frames /\ n \in Nat \ {0}
      /\ s = Append(front, top)
  BY StackSplit
<1>2. n \in 1..Depth /\ Len(front) < Depth /\ Len(front) + 1 = n
  BY <1>1, DepthType
<1> HIDE DEF front, top, n
<1>3. top.next <= Len(top.entries) + 1 /\ Parts(f, front, Coming(f, top, n), rest)
  <2>1. Rest(f, Append(front, top), rest)
    BY <1>1
  <2> QED BY <1>1, <1>2, <2>1, RestPopped
<1>4. PICK q \in Seq(Written) : Rest(f, front, q) /\ rest = Coming(f, top, n) \o q
  BY <1>3 DEF Parts
<1>5. Coming(f, top, n) = <<>>
  BY <1>1, <1>2, <1>3, ComingIs DEF top
<1>6. rest = q
  BY <1>4, <1>5, ConcatEmptySeq
<1> QED BY <1>4, <1>6 DEF front

-----------------------------------------------------------------------------
(* A scan delivers the contents                                              *)

\* The tiles of the run under way that have not been visited.
RunTiles(r) == [k \in 1..r.left |-> Spell(r.id + r.step + k - 1, r)]

Scanned ==
  pc = "scan" =>
    /\ run.id + run.step + run.left <= maxTileID + 1
    /\ visited \in Seq(Written)
    /\ \E rest : Rest(file, stack, rest) /\ Contents(file) = (visited \o RunTiles(run)) \o rest

Copied ==
  /\ pc \in {"open", "inspect"} => visited = <<>> /\ rows = <<>> /\ pending = <<>>
  /\ pc = "scan" /\ job = "stage" =>
       rows \in Seq(Written) /\ pending \in Seq(Written) /\ rows \o pending = visited

ScanInv == Scanned /\ Copied /\ ScanIsExpansion

LEMMA MaxTileIDType == maxTileID + 1 \in Nat /\ maxTileID \in Int
<1> DEFINE z == MaxZoom + 1
<1>1. z \in Nat
  BY TileIDAssumption
<1> HIDE DEF z
<1>2. FirstID(z) \in Nat
  BY <1>1, FirstIDs
<1> QED BY <1>2 DEF maxTileID, z

LEMMA SpellOf ==
  ASSUME NEW id, NEW e, NEW d, e.offset = d.offset, e.length = d.length
  PROVE  Spell(id, e) = Spell(id, d)
BY DEF Spell

LEMMA RunTilesType ==
  ASSUME file \in Archive, NEW r \in RunType
  PROVE  RunTiles(r) \in Seq(Written)
<1> DEFINE e == [id |-> 0, run |-> 0, offset |-> r.offset, length |-> r.length]
<1>1. 0 \in Uint64 /\ Word \in Nat
  BY FileFacts
<1>2. /\ e \in Entries /\ e.offset = r.offset /\ e.length = r.length
      /\ r.id \in Nat /\ r.step \in Nat /\ r.left \in Nat
  BY <1>1 DEF RunType, Entries, Uint64
<1> HIDE DEF e
<1>3. \A k \in 1..r.left : Spell(r.id + r.step + k - 1, r) \in Written
  <2> SUFFICES ASSUME NEW k \in 1..r.left PROVE Spell(r.id + r.step + k - 1, r) \in Written
    OBVIOUS
  <2> DEFINE id == r.id + r.step + k - 1
  <2>1. id \in Nat
    BY <1>2
  <2> HIDE DEF id
  <2>2. Spell(id, r) = Spell(id, e)
    BY <1>2, SpellOf
  <2>3. Spell(id, e) \in Written
    BY <1>2, <2>1 DEF Written
  <2> QED BY <2>2, <2>3 DEF id
<1> QED BY <1>2, <1>3 DEF RunTiles

LEMMA RunTilesOfNone == \A r : r.left = 0 => RunTiles(r) = <<>>
<1> SUFFICES ASSUME NEW r, r.left = 0 PROVE RunTiles(r) = <<>>
  OBVIOUS
<1>1. 1..r.left = {}
  OBVIOUS
<1> QED BY <1>1 DEF RunTiles

\* The visited tile is the one that its identifier spells.
LEMMA VisitedTileIs ==
  ASSUME run \in RunType, run.id \in Nat, run.left > 0, run.id + run.step + run.left <= maxTileID + 1
  PROVE  VisitedTile = Spell(run.id + run.step, run)
<1> DEFINE id == run.id + run.step
<1>1. id \in 0..maxTileID
  BY MaxTileIDType DEF RunType
<1> HIDE DEF id
<1>2. TileOfId[id] = IDToZxy(id)
  BY <1>1, TileOfIdIs
<1> QED BY <1>2 DEF VisitedTile, Spell, TMSRow, id

LEMMA RunTilesVisited ==
  ASSUME file \in Archive, NEW r \in RunType, NEW t \in RunType, r.left > 0, r.id \in Nat,
         t.id = r.id, t.offset = r.offset, t.length = r.length, t.left = r.left - 1, t.step = r.step + 1
  PROVE  RunTiles(r) = <<Spell(r.id + r.step, r)>> \o RunTiles(t)
<1> DEFINE v == Spell(r.id + r.step, r)
           a == RunTiles(r)
           b == RunTiles(t)
           c == <<v>> \o b
<1>1. a \in Seq(Written) /\ b \in Seq(Written)
  BY RunTilesType
<1>2. r.left \in Nat \ {0} /\ r.id \in Nat /\ r.step \in Nat
  BY DEF RunType
<1>3. /\ Len(a) = r.left /\ \A k \in 1..r.left : a[k] = Spell(r.id + r.step + k - 1, r)
      /\ Len(b) = r.left - 1 /\ \A k \in 1..(r.left - 1) : b[k] = Spell(r.id + (r.step + 1) + k - 1, r)
  <2>1. a = [k \in 1..r.left |-> Spell(r.id + r.step + k - 1, r)]
    BY DEF RunTiles
  <2>2. b = [k \in 1..(r.left - 1) |-> Spell(r.id + (r.step + 1) + k - 1, t)]
    BY DEF RunTiles
  <2>3. \A k : Spell(r.id + (r.step + 1) + k - 1, t) = Spell(r.id + (r.step + 1) + k - 1, r)
    BY SpellOf
  <2>4. r.left - 1 \in Nat
    BY <1>2
  <2> HIDE DEF a, b
  <2>5. Len(a) = r.left /\ \A k \in 1..r.left : a[k] = Spell(r.id + r.step + k - 1, r)
    BY <1>2, <2>1
  <2>6. Len(b) = r.left - 1 /\ \A k \in 1..(r.left - 1) : b[k] = Spell(r.id + (r.step + 1) + k - 1, t)
    BY <2>2, <2>4
  <2> QED BY <2>3, <2>5, <2>6
<1>4. v = a[1] /\ v \in Written
  <2>1. 1 \in 1..r.left /\ r.id + r.step + 1 - 1 = r.id + r.step
    BY <1>2
  <2>2. v = a[1]
    <3>1. a[1] = Spell(r.id + r.step + 1 - 1, r)
      BY <1>3, <2>1
    <3> HIDE DEF a
    <3> QED BY <2>1, <3>1
  <2> HIDE DEF a, v
  <2> QED BY <1>1, <1>3, <2>1, <2>2
<1> HIDE DEF a, b, v
<1>5. /\ c \in Seq(Written) /\ Len(c) = 1 + Len(b)
      /\ \A k \in 1..(1 + Len(b)) : c[k] = IF k <= 1 THEN v ELSE b[k - 1]
  <2>1. <<v>> \in Seq(Written) /\ Len(<<v>>) = 1 /\ <<v>>[1] = v
    BY <1>4
  <2>2. /\ <<v>> \o b \in Seq(Written) /\ Len(<<v>> \o b) = Len(<<v>>) + Len(b)
        /\ \A k \in 1..(Len(<<v>>) + Len(b)) : (<<v>> \o b)[k] = IF k <= Len(<<v>>) THEN <<v>>[k] ELSE b[k - Len(<<v>>)]
    BY <1>1, <2>1, ConcatProperties
  <2> QED BY <2>1, <2>2
<1> HIDE DEF c
<1>6. \A k \in 1..Len(a) : a[k] = c[k]
  <2> SUFFICES ASSUME NEW k \in 1..r.left PROVE a[k] = c[k]
    BY <1>3
  <2>1. k \in 1..(1 + Len(b))
    BY <1>2, <1>3
  <2>2. CASE k = 1
    BY <1>4, <1>5, <2>1, <2>2
  <2>3. CASE k # 1
    <3> DEFINE j == k - 1
    <3>1. j \in 1..(r.left - 1) /\ ~(k <= 1) /\ r.id + (r.step + 1) + j - 1 = r.id + r.step + k - 1
      BY <1>2, <2>3
    <3>2. c[k] = b[j]
      BY <1>5, <2>1, <3>1
    <3>3. b[j] = Spell(r.id + (r.step + 1) + j - 1, r)
      <4> HIDE DEF j
      <4> QED BY <1>3, <3>1
    <3> HIDE DEF j
    <3> QED BY <1>3, <3>1, <3>2, <3>3
  <2> QED BY <2>2, <2>3
<1>7. a = c
  <2>1. Len(a) = Len(c)
    BY <1>2, <1>3, <1>5
  <2> QED BY <1>1, <1>5, <1>6, <2>1, SeqEqual
<1> QED BY <1>7 DEF a, b, c, v

-----------------------------------------------------------------------------
(* The steps of a scan                                                       *)

LEMMA BeginsScan ==
  ASSUME file \in Archive, BeginWalk("scan"), visited = <<>>, UNCHANGED <<file, visited>>
  PROVE  Scanned'
<1>1. PICK d \in RootDirectory(file) :
        run' = NoRun /\ stack' = <<[entries |-> Decode(d.entries), next |-> 1]>>
  BY DEF BeginWalk
<1> DEFINE es == Decode(d.entries)
           frame == [entries |-> es, next |-> 1]
<1>2. es \in Seq(Entries)
  BY <1>1, DirectoryFacts DEF RootDirectory
<1>3. Contents(file) = Expand(file)[Depth][es]
  <2> DEFINE c == CHOOSE x \in RootDirectory(file) : TRUE
  <2>1. c \in RootDirectory(file)
    BY <1>1
  <2>2. c = d
    <3> HIDE DEF c
    <3> QED BY <1>1, <2>1, OneDirectory DEF RootDirectory
  <2>3. Contents(file) = Expand(file)[Depth][Decode(c.entries)]
    BY DEF Contents, Depth
  <2> HIDE DEF c
  <2> QED BY <2>2, <2>3
<1>4. Contents(file) \in Seq(Written)
  <2>1. Depth \in 0..Depth
    BY DepthType
  <2>2. Expand(file)[Depth] \in [Seq(Entries) -> Seq(Written)]
    BY <2>1, ExpandIs
  <2> HIDE DEF es
  <2> QED BY <1>2, <1>3, <2>2
<1> HIDE DEF es
<1>5. Rest(file, stack', Contents(file))
  <2> DEFINE none == <<>>
  <2>1. none \in Seq(Frames) /\ Len(none) = 0 /\ Rest(file, none, <<>>) /\ Len(none) < Depth
    BY RestOfNone, DepthType
  <2>2. Append(none, frame) = stack'
    BY <1>1 DEF es
  <2> HIDE DEF none
  <2>3. Rest(file, Append(none, frame), Expand(file)[Depth - Len(none)][es] \o <<>>)
    BY <1>2, <2>1, RestEnters
  <2>4. Depth - Len(none) = Depth
    BY <2>1, DepthType
  <2>5. Expand(file)[Depth][es] \o <<>> = Contents(file)
    BY <1>3, <1>4, ConcatEmptySeq
  <2> QED BY <2>2, <2>3, <2>4, <2>5
<1>6. RunTiles(run') = <<>> /\ run'.id + run'.step + run'.left <= maxTileID + 1
  BY <1>1, RunTilesOfNone, MaxTileIDType DEF NoRun
<1>7. Contents(file) = (visited' \o RunTiles(run')) \o Contents(file) /\ visited' \in Seq(Written)
  <2>1. visited' = <<>> /\ <<>> \in Seq(Written) /\ <<>> \o <<>> = <<>>
    BY ConcatEmptySeq
  <2>2. <<>> \o Contents(file) = Contents(file)
    BY <1>4, ConcatEmptySeq
  <2> QED BY <1>6, <2>1, <2>2
<1> QED BY <1>5, <1>6, <1>7 DEF Scanned

\* A run that is read, and a leaf that is entered, were coming.
LEMMA EntryComing ==
  ASSUME ArchiveInv, ScanInv, pc = "scan", AtEntry
  PROVE  \E q \in Seq(Written) :
           /\ Rest(file, Advanced, q)
           /\ Contents(file) = visited \o (WriteOut(file, Entry, Below(file, Len(stack))) \o q)
<1>1. /\ stack \in Seq(Frames) /\ Len(stack) <= Depth /\ AtPlaceEntry(stack) /\ run = NoRun
      /\ file \in Archive /\ PlaceEntry(stack) = Entry /\ Past(stack) = Advanced
  BY Here DEF ArchiveInv, StackOK, TypeOK, AtEntry, Frames, Depth
<1>2. PICK rest : Rest(file, stack, rest) /\ Contents(file) = (visited \o RunTiles(run)) \o rest
  BY DEF ScanInv, Scanned
<1>3. visited \o RunTiles(run) = visited
  <2>1. RunTiles(run) = <<>>
    BY <1>1, RunTilesOfNone DEF NoRun
  <2> QED BY <2>1, ConcatEmptySeq DEF ScanInv, Scanned
<1>p. Parts(file, Past(stack), WriteOut(file, PlaceEntry(stack), Below(file, Len(stack))), rest)
  BY <1>1, <1>2, RestAdvances
<1>4. PICK q \in Seq(Written) :
        Rest(file, Past(stack), q) /\ rest = WriteOut(file, PlaceEntry(stack), Below(file, Len(stack))) \o q
  BY <1>p DEF Parts
<1> QED BY <1>1, <1>2, <1>3, <1>4

LEMMA ReadRunScan == ArchiveInv /\ ScanInv /\ pc = "scan" /\ ReadRun => Scanned'
<1> SUFFICES ASSUME ArchiveInv, ScanInv, pc = "scan", ReadRun PROVE Scanned'
  OBVIOUS
<1>1. /\ AtEntry /\ RunAccepted(Entry) /\ stack' = Advanced /\ file' = file /\ visited' = visited
      /\ run' = [id |-> Entry.id, length |-> Entry.length, offset |-> Entry.offset, left |-> Entry.run, step |-> 0]
  BY DEF ReadRun, envVars, outVars
<1>2. PICK q \in Seq(Written) :
        /\ Rest(file, Advanced, q)
        /\ Contents(file) = visited \o (WriteOut(file, Entry, Below(file, Len(stack))) \o q)
  BY <1>1, EntryComing
<1>3. Entry \in Entries /\ Entry.run > 0 /\ ValidEntry(Entry) /\ Word \in Nat /\ file \in Archive
  BY <1>1, EntryFacts, FileFacts DEF RunAccepted, ArchiveInv
<1>4. Entry.id \in Nat /\ Entry.run \in Nat
  BY <1>3 DEF Entries, Uint64
<1>5. run'.id + run'.step + run'.left <= maxTileID + 1
  <2>1. Entry.run - 1 <= maxTileID - Entry.id
    BY <1>3, <1>4 DEF ValidEntry
  <2>2. run'.id = Entry.id /\ run'.step = 0 /\ run'.left = Entry.run
    BY <1>1
  <2> QED BY <1>4, <2>1, <2>2, MaxTileIDType
<1>6. RunTiles(run') = WriteOut(file, Entry, Below(file, Len(stack)))
  <2> DEFINE r == run'
  <2>1. /\ r.id = Entry.id /\ r.step = 0 /\ r.left = Entry.run
        /\ r.offset = Entry.offset /\ r.length = Entry.length
    BY <1>1
  <2> HIDE DEF r
  <2>2. \A k \in 1..Entry.run : Spell(r.id + r.step + k - 1, r) = Spell(Entry.id + k - 1, Entry)
    <3> SUFFICES ASSUME NEW k \in 1..Entry.run PROVE Spell(r.id + r.step + k - 1, r) = Spell(Entry.id + k - 1, Entry)
      OBVIOUS
    <3>1. r.id + r.step + k - 1 = Entry.id + k - 1
      BY <1>4, <2>1
    <3> QED BY <2>1, <3>1, SpellOf
  <2>3. RunTiles(r) = [k \in 1..Entry.run |-> Spell(Entry.id + k - 1, Entry)]
    BY <2>1, <2>2 DEF RunTiles
  <2>4. WriteOut(file, Entry, Below(file, Len(stack))) = [k \in 1..Entry.run |-> Spell(Entry.id + k - 1, Entry)]
    BY <1>3 DEF WriteOut
  <2> QED BY <2>3, <2>4 DEF r
<1>7. Contents(file) = (visited \o RunTiles(run')) \o q
  <2>1. run' \in RunType /\ visited \in Seq(Written)
    BY ReadRunFacts DEF ScanInv, Scanned
  <2>2. RunTiles(run') \in Seq(Written)
    BY <1>3, <2>1, RunTilesType
  <2>3. visited \o (RunTiles(run') \o q) = (visited \o RunTiles(run')) \o q
    BY <2>1, <2>2, ConcatAssociative
  <2> QED BY <1>2, <1>6, <2>3
<1> QED BY <1>1, <1>2, <1>5, <1>7 DEF ScanInv, Scanned

LEMMA EnterLeafScan == ArchiveInv /\ ScanInv /\ pc = "scan" /\ EnterLeaf => Scanned'
<1> SUFFICES ASSUME ArchiveInv, ScanInv, pc = "scan", EnterLeaf PROVE Scanned'
  OBVIOUS
<1>1. /\ AtEntry /\ LeafAccepted(Entry) /\ file' = file /\ visited' = visited /\ run' = run
      /\ run = NoRun /\ file \in Archive
  BY DEF EnterLeaf, envVars, outVars, AtEntry, ArchiveInv
<1>2. PICK d \in LeafDirectory(Entry) : stack' = Append(Advanced, [entries |-> Decode(d.entries), next |-> 1])
  BY DEF EnterLeaf
<1>3. PICK q \in Seq(Written) :
        /\ Rest(file, Advanced, q)
        /\ Contents(file) = visited \o (WriteOut(file, Entry, Below(file, Len(stack))) \o q)
  BY <1>1, EntryComing
<1> DEFINE es == Decode(d.entries)
           n == Len(stack)
<1>4. /\ es \in Seq(Entries) /\ d \in file.directories /\ Decodes(d.entries)
      /\ d.offset = file.leaf.offset + Entry.offset /\ d.length = Entry.length
  BY <1>1, <1>2, DirectoryFacts DEF LeafDirectory, DirectoryAt
<1>5. /\ Advanced \in Seq(Frames) /\ Len(Advanced) = n /\ n \in Nat /\ n < Depth /\ Entry.run = 0
  BY <1>1, EntryFacts, DepthType DEF Frames, LeafAccepted
<1>6. WriteOut(file, Entry, Below(file, n)) = Expand(file)[Depth - n][es]
  <2> DEFINE leaf == {x \in file.directories : /\ x.offset = file.leaf.offset + Entry.offset
                                               /\ x.length = Entry.length /\ Decodes(x.entries)}
             c == CHOOSE x \in leaf : TRUE
  <2>1. d \in leaf
    BY <1>4
  <2>2. c \in leaf
    <3> HIDE DEF leaf
    <3> QED BY <2>1
  <2>3. c = d
    <3>1. c \in file.directories /\ c.offset = d.offset /\ c.length = d.length
      <4> HIDE DEF c
      <4> QED BY <1>4, <2>2
    <3> HIDE DEF c
    <3> QED BY <1>1, <1>4, <3>1, PMTilesAssumption
  <2>4. ~(Entry.run > 0)
    BY <1>5
  <2>5. WriteOut(file, Entry, Below(file, n)) = IF leaf = {} THEN <<NoTile>> ELSE Below(file, n)[Decode(c.entries)]
    BY <2>4 DEF WriteOut
  <2>6. leaf # {}
    BY <2>1
  <2> HIDE DEF leaf, c
  <2> QED BY <2>3, <2>5, <2>6 DEF Below
<1> HIDE DEF es
<1>7. Rest(file, stack', Expand(file)[Depth - n][es] \o q)
  <2>1. stack' = Append(Advanced, [entries |-> es, next |-> 1])
    BY <1>2 DEF es
  <2>2. Rest(file, Append(Advanced, [entries |-> es, next |-> 1]), Expand(file)[Depth - Len(Advanced)][es] \o q)
    BY <1>1, <1>3, <1>4, <1>5, RestEnters
  <2> QED BY <1>5, <2>1, <2>2
<1>8. visited \o RunTiles(run) = visited
  <2>1. RunTiles(run) = <<>>
    BY <1>1, RunTilesOfNone DEF NoRun
  <2> QED BY <2>1, ConcatEmptySeq DEF ScanInv, Scanned
<1>9. Contents(file) = (visited' \o RunTiles(run')) \o (Expand(file)[Depth - n][es] \o q)
  BY <1>1, <1>3, <1>6, <1>8
<1> QED BY <1>1, <1>7, <1>9 DEF ScanInv, Scanned

LEMMA LeaveScan == ArchiveInv /\ ScanInv /\ pc = "scan" /\ LeaveDirectory => Scanned'
<1> SUFFICES ASSUME ArchiveInv, ScanInv, pc = "scan", LeaveDirectory PROVE Scanned'
  OBVIOUS
<1>1. /\ stack # <<>> /\ Top.next > Len(Top.entries) /\ stack' = SubSeq(stack, 1, Len(stack) - 1)
      /\ file' = file /\ visited' = visited /\ run' = run
  BY DEF LeaveDirectory, envVars, outVars
<1>2. PICK rest : Rest(file, stack, rest) /\ Contents(file) = (visited \o RunTiles(run)) \o rest
  BY DEF ScanInv, Scanned
<1>3. stack \in Seq(Frames) /\ Len(stack) <= Depth /\ file \in Archive /\ PlaceTop(stack) = Top
  BY Here DEF ArchiveInv, StackOK, TypeOK, Frames, Depth
<1>4. Rest(file, SubSeq(stack, 1, Len(stack) - 1), rest)
  BY <1>1, <1>2, <1>3, RestLeaves
<1> QED BY <1>1, <1>2, <1>4 DEF ScanInv, Scanned

LEMMA VisitScan == ArchiveInv /\ ScanInv /\ Visit => Scanned' /\ visited' = visited \o <<VisitedTile>> /\ VisitedTile \in Written
<1> SUFFICES ASSUME ArchiveInv, ScanInv, Visit
             PROVE  Scanned' /\ visited' = visited \o <<VisitedTile>> /\ VisitedTile \in Written
  OBVIOUS
<1>1. /\ run.left > 0 /\ visited' = Append(visited, VisitedTile)
      /\ run' = [run EXCEPT !.left = @ - 1, !.step = @ + 1]
      /\ file' = file /\ stack' = stack
  BY DEF Visit, envVars
<1>2. /\ run' \in RunType /\ run'.step = run.step + 1 /\ run'.left = run.left - 1
      /\ pc = "scan" /\ run \in RunType /\ file \in Archive /\ Word \in Nat
  BY VisitFacts, FileFacts DEF ArchiveInv
<1>3. /\ run'.id = run.id /\ run'.offset = run.offset /\ run'.length = run.length
      /\ run.id \in Nat /\ run.left \in Nat /\ run.step \in Nat
  BY <1>1, <1>2 DEF RunType, Uint64
<1>4. PICK rest : Rest(file, stack, rest) /\ Contents(file) = (visited \o RunTiles(run)) \o rest
  BY <1>2 DEF ScanInv, Scanned
<1>5. run.id + run.step + run.left <= maxTileID + 1 /\ visited \in Seq(Written)
  BY <1>2 DEF ScanInv, Scanned
<1> DEFINE v == Spell(run.id + run.step, run)
<1>6. VisitedTile = v
  BY <1>1, <1>2, <1>3, <1>5, VisitedTileIs
<1>7. RunTiles(run) = <<v>> \o RunTiles(run') /\ RunTiles(run') \in Seq(Written) /\ RunTiles(run) \in Seq(Written)
  BY <1>1, <1>2, <1>3, RunTilesVisited, RunTilesType
<1>8. v \in Written
  <2>1. v = RunTiles(run)[1] /\ 1 \in 1..run.left
    BY <1>1, <1>3 DEF RunTiles
  <2>2. Len(RunTiles(run)) = run.left
    BY <1>3 DEF RunTiles
  <2> HIDE DEF v
  <2> QED BY <1>7, <2>1, <2>2, ElementOfSeq
<1> HIDE DEF v
<1>9. visited' = visited \o <<v>> /\ <<v>> \in Seq(Written) /\ visited' \in Seq(Written)
  <2>1. Append(visited, v) = visited \o <<v>>
    BY <1>5, <1>8, AppendIsConcat
  <2>2. <<v>> \in Seq(Written)
    BY <1>8
  <2> QED BY <1>1, <1>5, <1>6, <2>1, <2>2, ConcatProperties
<1>10. visited \o RunTiles(run) = visited' \o RunTiles(run')
  BY <1>5, <1>7, <1>9, ConcatAssociative
<1>11. run'.id + run'.step + run'.left <= maxTileID + 1
  BY <1>2, <1>3, <1>5, MaxTileIDType
<1>12. Scanned'
  <2>1. Rest(file', stack', rest) /\ Contents(file') = (visited' \o RunTiles(run')) \o rest
    BY <1>1, <1>4, <1>10
  <2> QED BY <1>9, <1>11, <2>1 DEF Scanned
<1> QED BY <1>6, <1>8, <1>9, <1>12

LEMMA FinishScan == ArchiveInv /\ ScanInv /\ pc = "scan" /\ FinishRun => Scanned'
<1> SUFFICES ASSUME ArchiveInv, ScanInv, pc = "scan", FinishRun PROVE Scanned'
  OBVIOUS
<1>1. run.left = 0 /\ run' = NoRun /\ file' = file /\ stack' = stack /\ visited' = visited
  BY DEF FinishRun, envVars, outVars
<1>2. RunTiles(run) = RunTiles(run')
  BY <1>1, RunTilesOfNone DEF NoRun
<1>3. run'.id + run'.step + run'.left <= maxTileID + 1
  BY <1>1, MaxTileIDType DEF NoRun
<1> QED BY <1>1, <1>2, <1>3 DEF ScanInv, Scanned

\* A scan that has ended has delivered everything.
LEMMA EndScan ==
  ASSUME ArchiveInv, ScanInv, pc = "scan", WalkEnds
  PROVE  visited = Contents(file) /\ visited \in Seq(Written)
<1>1. stack = <<>> /\ run = NoRun
  BY DEF WalkEnds
<1>2. PICK rest : Rest(file, stack, rest) /\ Contents(file) = (visited \o RunTiles(run)) \o rest
  BY DEF ScanInv, Scanned
<1>3. rest = <<>>
  BY <1>1, <1>2, RestOfNone
<1>4. RunTiles(run) = <<>>
  BY <1>1, RunTilesOfNone DEF NoRun
<1>5. visited \in Seq(Written)
  BY DEF ScanInv, Scanned
<1>6. visited \o <<>> = visited
  BY <1>5, ConcatEmptySeq
<1> QED BY <1>2, <1>3, <1>4, <1>5, <1>6

LEMMA ScanEnds == ArchiveInv /\ ScanInv /\ (DirectScanned \/ StageIndexed) => ScanIsExpansion'
<1> SUFFICES ASSUME ArchiveInv, ScanInv, DirectScanned \/ StageIndexed PROVE ScanIsExpansion'
  OBVIOUS
<1>1. pc = "scan" /\ WalkEnds /\ file' = file /\ job' = job
  BY DEF DirectScanned, StageIndexed, envVars
<1>2. visited = Contents(file) /\ visited \in Seq(Written)
  BY <1>1, EndScan
<1>3. CASE DirectScanned
  <2>1. job' = "direct" /\ visited' = Contents(file')
    BY <1>1, <1>2, <1>3 DEF DirectScanned, outVars
  <2> QED BY <2>1 DEF ScanIsExpansion
<1>4. CASE StageIndexed
  <2>1. job = "stage" /\ rows' = rows \o pending /\ NoneTwice(Coordinates(rows \o pending))
    BY <1>4 DEF StageIndexed, CanIndex
  <2>2. rows' = visited
    BY <1>1, <2>1 DEF ScanInv, Copied
  <2>3. \A i, j \in DOMAIN visited : i # j => visited[i] # visited[j]
    <3>1. NoneTwice(Coordinates(visited))
      BY <2>1, <2>2
    <3>2. DOMAIN Coordinates(visited) = DOMAIN visited
      BY DEF Coordinates
    <3>3. \A i, j \in DOMAIN visited : visited[i] = visited[j] => Coordinates(visited)[i] = Coordinates(visited)[j]
      BY DEF Coordinates
    <3> QED BY <3>1, <3>2, <3>3 DEF NoneTwice
  <2>4. job' # "direct" /\ rows' = Contents(file') /\ \A i, j \in DOMAIN rows' : i # j => rows'[i] # rows'[j]
    BY <1>1, <1>2, <2>1, <2>2, <2>3
  <2> QED BY <2>4 DEF ScanIsExpansion
<1> QED BY <1>3, <1>4

LEMMA VisitCopies == ArchiveInv /\ ScanInv /\ Visit => Copied'
<1> SUFFICES ASSUME ArchiveInv, ScanInv, Visit PROVE Copied'
  OBVIOUS
<1>1. pc = "scan" /\ pc' = pc /\ job' = job
  BY VisitFacts DEF Visit, envVars
<1> SUFFICES ASSUME job = "stage"
             PROVE  rows' \in Seq(Written) /\ pending' \in Seq(Written) /\ rows' \o pending' = visited'
  BY <1>1 DEF Copied
<1>2. visited' = visited \o <<VisitedTile>> /\ VisitedTile \in Written
  BY VisitScan
<1>3. rows \in Seq(Written) /\ pending \in Seq(Written) /\ rows \o pending = visited
  BY <1>1 DEF ScanInv, Copied
<1> DEFINE more == Append(pending, VisitedTile)
<1>4. more = pending \o <<VisitedTile>> /\ <<VisitedTile>> \in Seq(Written) /\ more \in Seq(Written)
  BY <1>2, <1>3, AppendIsConcat
<1>5. rows \o more = visited'
  <2> HIDE DEF more
  <2> QED BY <1>2, <1>3, <1>4, ConcatAssociative
<1>6. \/ rows' = rows /\ pending' = more
      \/ rows' = rows \o more /\ pending' = <<>>
  BY DEF Visit
<1> HIDE DEF more
<1>7. CASE rows' = rows /\ pending' = more
  BY <1>3, <1>4, <1>5, <1>7
<1>8. CASE rows' = rows \o more /\ pending' = <<>>
  <2>1. rows \o more \in Seq(Written) /\ (rows \o more) \o <<>> = rows \o more /\ <<>> \in Seq(Written)
    BY <1>3, <1>4, ConcatProperties, ConcatEmptySeq
  <2> QED BY <1>5, <1>8, <2>1
<1> QED BY <1>6, <1>7, <1>8

LEMMA InitScan == Init => ScanInv
BY DEF Init, ScanInv, Scanned, Copied, ScanIsExpansion

LEMMA NextScan == ArchiveInv /\ WalkInv /\ ScanInv /\ [Next]_vars => ScanInv'
<1> SUFFICES ASSUME ArchiveInv, WalkInv, ScanInv, [Next]_vars PROVE ScanInv'
  OBVIOUS
<1>0. file \in Archive /\ pc \in {"open", "inspect", "scan", "done", "failed"}
  BY DEF ArchiveInv, TypeOK
<1>1. CASE Open \/ Inspected
  <2>1. /\ UNCHANGED <<file, job, visited, rows, pending>> /\ pc \in {"open", "inspect"}
        /\ pc' \in {"inspect", "scan"} /\ (pc' = "scan" => BeginWalk("scan"))
    BY <1>1 DEF Open, Inspected, BeginWalk, envVars, outVars
  <2>2. visited = <<>> /\ rows = <<>> /\ pending = <<>>
    BY <2>1 DEF ScanInv, Copied
  <2>3. Scanned'
    <3>1. CASE pc' = "scan"
      BY <1>0, <2>1, <2>2, <3>1, BeginsScan
    <3>2. CASE pc' # "scan"
      BY <3>2 DEF Scanned
    <3> QED BY <3>1, <3>2
  <2>4. Copied'
    <3>1. visited' = <<>> /\ rows' = <<>> /\ pending' = <<>> /\ <<>> \in Seq(Written) /\ <<>> \o <<>> = <<>>
      BY <2>1, <2>2, ConcatEmptySeq
    <3> QED BY <3>1 DEF Copied
  <2>5. ScanIsExpansion'
    BY <2>1 DEF ScanIsExpansion
  <2> QED BY <2>3, <2>4, <2>5 DEF ScanInv
<1>2. CASE RejectArchive \/ RejectEntry \/ VisitCanceled \/ RejectCount \/ Fail
  <2>1. pc' = "failed"
    BY <1>2 DEF RejectArchive, RejectEntry, VisitCanceled, RejectCount, Fail, Abort
  <2> QED BY <2>1 DEF ScanInv, Scanned, Copied, ScanIsExpansion
<1>3. CASE InspectRun \/ (pc = "inspect" /\ (EnterLeaf \/ LeaveDirectory))
  <2>1. pc = "inspect" /\ pc' = pc /\ UNCHANGED <<visited, rows, pending>>
    BY <1>3 DEF InspectRun, EnterLeaf, LeaveDirectory, outVars
  <2> QED BY <2>1 DEF ScanInv, Scanned, Copied, ScanIsExpansion
<1>4. CASE pc = "scan" /\ (EnterLeaf \/ ReadRun \/ LeaveDirectory \/ FinishRun)
  <2>1. pc' = pc /\ UNCHANGED <<job, visited, rows, pending>>
    BY <1>4 DEF EnterLeaf, ReadRun, LeaveDirectory, FinishRun, outVars, envVars
  <2>2. Scanned'
    BY <1>4, EnterLeafScan, ReadRunScan, LeaveScan, FinishScan
  <2>3. Copied' /\ ScanIsExpansion'
    BY <1>4, <2>1 DEF ScanInv, Copied, ScanIsExpansion
  <2> QED BY <2>2, <2>3 DEF ScanInv
<1>5. CASE Visit
  <2>1. pc = "scan" /\ pc' = pc
    BY <1>5, VisitFacts DEF Visit
  <2>2. ScanIsExpansion'
    BY <2>1 DEF ScanIsExpansion
  <2> QED BY <1>5, <2>2, VisitScan, VisitCopies DEF ScanInv
<1>6. CASE DirectScanned \/ StageIndexed
  <2>1. pc' = "done"
    BY <1>6 DEF DirectScanned, StageIndexed
  <2> QED BY <1>6, <2>1, ScanEnds DEF ScanInv, Scanned, Copied
<1>7. CASE Cancel \/ UNCHANGED vars
  <2>1. UNCHANGED <<file, job, pc, stack, run, visited, rows, pending>>
    BY <1>7 DEF Cancel, vars, envVars, walkVars, outVars
  <2> QED BY <2>1 DEF ScanInv, Scanned, Copied, ScanIsExpansion
<1> QED BY <1>1, <1>2, <1>3, <1>4, <1>5, <1>6, <1>7, WalkEnters DEF Next, Step

\* For any file, a traversal that ends has delivered the directory tree written
\* out: every run tile by tile at the coordinates ZxyToID gives its identifiers,
\* every leaf in the place of its entry, and the staged copy holds the same rows
\* whatever the sizes of its transactions.
THEOREM ScanDeliversContents == Spec => []ScanIsExpansion
<1>1. Init => ScanInv
  BY InitScan
<1>2. ArchiveInv /\ WalkInv /\ ScanInv /\ [Next]_vars => ScanInv'
  BY NextScan
<1>3. ScanInv => ScanIsExpansion
  BY DEF ScanInv
<1> QED BY <1>1, <1>2, <1>3, InitArchive, NextArchive, InitWalk, NextWalk, PTL DEF Spec
=============================================================================
