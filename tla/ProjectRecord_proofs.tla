------------------------ MODULE ProjectRecord_proofs ------------------------
(***************************************************************************)
(* What ProjectRecord promises for every number of parts, edits, runs and    *)
(* calls, and every set of versions and of scan results.  Five layers, each  *)
(* inductive given the ones before it: the shape of the state, the digests   *)
(* of the records in memory, the media the parts were rendered from, the     *)
(* results of Stage 1 and 2, and the video a completed project has.         *)
(***************************************************************************)
EXTENDS ProjectRecord, TLAPS

Before  == {"asked", "stated", "hashed", "begin"}
Opened  == {"lookup", "scan", "sweep1", "save1", "prepass", "save2", "render", "notify", "close"}
Done    == {"ended", "complete", "seal", "sweep", "forget", "off"}

\* A record has entries of the cache only under a key, and parts only of a list.
Sound(r) ==
    /\ r \in Records
    /\ r.key = None => r.ranges = None /\ r.faces = None
    /\ r.parts > 0 => r.manifest \notin {None, <<>>}

Shape ==
    /\ TypeOK
    /\ Sound(record) /\ (held # None => Sound(held)) /\ (loaded # None => Sound(loaded))
    /\ pc \in Opened => manifest # None
    /\ pc \in {"sweep1", "save1"} => ranges # None
    /\ held # None <=> pc = "save1"
    /\ loaded # None <=> asking \in {"list", "check", "save"}
    /\ held # None => held.sha # None
    /\ pc = "save2" => sidecar # None

-----------------------------------------------------------------------------
(* A record with one part of it replaced.                                  *)

LEMMA MarkedShape ==
    ASSUME record \in Records, NEW s \in States
    PROVE  /\ Marked(s) \in Records
           /\ Marked(s) = [record EXCEPT !.state = s]
           /\ Marked(s).state = s
           /\ \A field \in {"stat", "sha", "parts", "manifest", "key", "ranges", "faces"} :
                 Marked(s)[field] = record[field]
BY DEF Marked, Records

LEMMA MarkedSound == \A s \in States : Sound(record) => Sound(Marked(s))
BY MarkedShape DEF Sound

\* The lists of parts: one may be empty, and one that is not full takes a part more.
LEMMA PartLists ==
    /\ <<>> \in Lists
    /\ \A list \in Lists : Len(list) \in 0 .. Total
    /\ \A list \in Lists, part \in Parts : Len(list) < Total => Append(list, part) \in Lists
BY ConstantsAssumption DEF ConstantsAssumption, Lists

\* A list without the file of one part, and its first parts, are lists again.
LEMMA ListWithout ==
    ASSUME NEW list \in Lists, NEW last \in DOMAIN list
    PROVE  /\ [list EXCEPT ![last] = None] \in Lists
           /\ DOMAIN [list EXCEPT ![last] = None] = DOMAIN list
           /\ \A i \in DOMAIN list : i # last => [list EXCEPT ![last] = None][i] = list[i]
           /\ [list EXCEPT ![last] = None][last] = None
           /\ [list EXCEPT ![last] = None] # <<>>
BY DEF Lists

LEMMA FirstParts ==
    ASSUME NEW list \in Lists, NEW n \in 1 .. Len(list)
    PROVE  /\ SubSeq(list, 1, n) \in Lists
           /\ DOMAIN SubSeq(list, 1, n) = 1 .. n
           /\ \A i \in 1 .. n : i \in DOMAIN list /\ SubSeq(list, 1, n)[i] = list[i]
BY ConstantsAssumption DEF ConstantsAssumption, Lists

\* What a run may keep of the list: nothing, or its first parts.
LEMMA Kept ==
    ASSUME manifest \in {None} \cup Lists, NEW kept \in Resumable
    PROVE  /\ kept \in Lists
           /\ \A i \in DOMAIN kept : manifest # None /\ i \in DOMAIN manifest /\ kept[i] = manifest[i]
<1>1. CASE kept = <<>>
  BY <1>1, PartLists
<1>2. CASE kept # <<>>
  <2>1. manifest # None
    BY <1>2 DEF Resumable
  <2>2. PICK n \in 1 .. Len(manifest) : kept = SubSeq(manifest, 1, n)
    BY <1>2, <2>1 DEF Resumable
  <2> QED  BY <2>1, <2>2, FirstParts
<1> QED  BY <1>1, <1>2

\* Renewing the key keeps what is not the cache, and never leaves an entry without a key.
LEMMA RekeyedShape ==
    ASSUME NEW r \in Records, Key(r) \in Keys, Key(r) # None
    PROVE  /\ Rekeyed(r) \in Records /\ Rekeyed(r).key = Key(r)
           /\ \A field \in {"state", "stat", "sha", "parts", "manifest"} : Rekeyed(r)[field] = r[field]
           /\ Rekeyed(r).ranges # None => Rekeyed(r).ranges = r.ranges /\ r.key = Key(r)
           /\ Rekeyed(r).faces # None => Rekeyed(r).faces = r.faces /\ r.key = Key(r)
<1>1. CASE r.key = Key(r)
  BY <1>1 DEF Rekeyed
<1>2. CASE r.key # Key(r)
  BY <1>2 DEF Rekeyed, Records
<1> QED  BY <1>1, <1>2

\* A digest gives a key.
LEMMA KeyShape ==
    ASSUME NEW r \in Records, r.sha # None, live \in Lives
    PROVE  Key(r) = <<r.sha, live>> /\ Key(r) \in Keys /\ Key(r) # None
BY NoneAssumption DEF NoneAssumption, Key, Keys, Records

\* The record that record_stage saves for Stage 1, and for Stage 2.
LEMMA WithScan ==
    ASSUME NEW r \in Records, Sound(r), r.sha # None, live \in Lives, ranges \in Answers
    PROVE  LET new == [Rekeyed(r) EXCEPT !.ranges = ranges, !.faces = None] IN
           /\ new \in Records /\ Sound(new)
           /\ \A field \in {"state", "stat", "sha", "parts", "manifest"} : new[field] = r[field]
           /\ new.key = <<r.sha, live>> /\ new.ranges = ranges /\ new.faces = None
<1> DEFINE new == [Rekeyed(r) EXCEPT !.ranges = ranges, !.faces = None]
<1>1. Key(r) = <<r.sha, live>> /\ Key(r) # None /\ Key(r) \in Keys
  BY KeyShape
<1>2. /\ Rekeyed(r) \in Records /\ Rekeyed(r).key = Key(r)
      /\ \A field \in {"state", "stat", "sha", "parts", "manifest"} : Rekeyed(r)[field] = r[field]
  BY <1>1, RekeyedShape
<1>3. /\ new \in Records /\ new.key = Key(r) /\ new.ranges = ranges /\ new.faces = None
      /\ new.state = r.state /\ new.stat = r.stat /\ new.sha = r.sha /\ new.parts = r.parts
      /\ new.manifest = r.manifest
  BY <1>2 DEF Records
<1>4. Sound(new)
  BY <1>1, <1>3 DEF Sound
<1> QED  BY <1>1, <1>3, <1>4

LEMMA WithFaces ==
    ASSUME NEW r \in Records, Sound(r), r.sha # None, live \in Lives, sidecar \in Faces
    PROVE  LET new == [Rekeyed(r) EXCEPT !.faces = sidecar] IN
           /\ new \in Records /\ Sound(new)
           /\ \A field \in {"state", "stat", "sha", "parts", "manifest"} : new[field] = r[field]
           /\ new.key = <<r.sha, live>> /\ new.faces = sidecar
           /\ new.ranges # None => new.ranges = r.ranges /\ r.key = new.key
<1> DEFINE new == [Rekeyed(r) EXCEPT !.faces = sidecar]
<1>1. Key(r) = <<r.sha, live>> /\ Key(r) # None /\ Key(r) \in Keys
  BY KeyShape
<1>2. /\ Rekeyed(r) \in Records /\ Rekeyed(r).key = Key(r)
      /\ \A field \in {"state", "stat", "sha", "parts", "manifest"} : Rekeyed(r)[field] = r[field]
      /\ Rekeyed(r).ranges # None => Rekeyed(r).ranges = r.ranges /\ r.key = Key(r)
  BY <1>1, RekeyedShape
<1>3. /\ new \in Records /\ new.key = Key(r) /\ new.ranges = Rekeyed(r).ranges /\ new.faces = sidecar
      /\ new.state = r.state /\ new.stat = r.stat /\ new.sha = r.sha /\ new.parts = r.parts
      /\ new.manifest = r.manifest
  BY <1>2 DEF Records
<1>4. Sound(new)
  BY <1>1, <1>3 DEF Sound
<1> QED  BY <1>1, <1>2, <1>3, <1>4

LEMMA InitShape == Init => Shape
<1> SUFFICES ASSUME Init PROVE Shape  OBVIOUS
<1> USE ConstantsAssumption, NoneAssumption DEF Init, ConstantsAssumption, NoneAssumption
<1>1. NewRecord \in Records /\ Sound(NewRecord)
  BY DEF NewRecord, Records, States, Contents, Sound
<1>2. Nothing \in [ranges : {None} \cup Answers, faces : BOOLEAN]
  BY DEF Nothing
<1>3. record \in Records /\ Sound(record) /\ usable \in [ranges : {None} \cup Answers, faces : BOOLEAN]
  BY <1>1, <1>2
<1>4. target \in Contents /\ runs \in 0 .. MaxTurns /\ calls \in 0 .. MaxTurns /\ pc \in Labels
  BY DEF Contents, Labels
<1>5. TypeOK
  BY <1>3, <1>4 DEF TypeOK, Sound
<1> QED  BY <1>3, <1>5 DEF Shape, Opened

LEMMA NextShape == Shape /\ [Next]_vars => Shape'
<1> SUFFICES ASSUME Shape, [Next]_vars PROVE Shape'  OBVIOUS
<1> USE ConstantsAssumption, NoneAssumption DEF ConstantsAssumption, NoneAssumption, Shape, TypeOK, disk, run, flags, http, env, past, Opened, Labels, At, To
<1>a. Sound(Marked("UNFINISHED")) /\ Sound(Marked("PROCESSING")) /\ Sound(Marked("COMPLETED"))
  BY MarkedSound DEF States
<1>b. \A r : Sound(r) => r \in Records /\ (r.key = None => r.ranges = None /\ r.faces = None)
  BY DEF Sound
<1>c. runs \in 0 .. MaxTurns /\ calls \in 0 .. MaxTurns /\ runs' \in 0 .. MaxTurns /\ calls' \in 0 .. MaxTurns
  BY DEF Next, Http, Worker, Counted, Bounded, vars, Edit, StopCall, ListLoad, ListCheck, Mark, ResumeLoad,
     TailKept, TailDeleted, ResumeSave, ResumeAgain, ResumeFails, ResumeStart, StatTarget, HashTarget,
     VerifyInputs, Begin, ClearOutput, Open, NoEncoder, Lookup, RestoreScan, Scan, SweepStage2, SaveScan,
     RestoreFaces, PrePass, SaveFaces, CommitPart, Notify, GiveUp, EndOfRender, Close, Ended, Complete,
     Seal, Sweep, Forget, Raise, Crash
<1>d. Released => /\ pc' = "off" /\ ranges' = None /\ faces' = None /\ held' = None /\ checked' = "pending"
                  /\ usable' \in [ranges : {None} \cup Answers, faces : BOOLEAN]
                  /\ stopped' = FALSE /\ processing' = FALSE
  BY DEF Released, Nothing
<1> USE <1>a, <1>b, <1>c
<1>1. CASE Edit
  BY <1>1 DEF Edit, Contents
<1>2. CASE StopCall
  <2>1. marking' \subseteq {"stop", "list"} /\ stopped' \in BOOLEAN /\ processing' \in BOOLEAN
    BY <1>2 DEF StopCall
  <2> QED  BY <1>2, <2>1 DEF StopCall
<1>3. CASE ListLoad
  BY <1>3 DEF ListLoad
<1>4. CASE ListCheck
  BY <1>4 DEF ListCheck
<1>5. CASE Mark
  BY <1>5 DEF Mark
<1>6. CASE ResumeLoad
  <2>1. Sound(record')
    BY <1>6 DEF ResumeLoad
  <2> QED  BY <1>6, <2>1 DEF ResumeLoad
<1>7. CASE TailKept
  BY <1>7 DEF TailKept
<1>8. CASE TailDeleted
  <2>1. /\ manifest \in Lists /\ loaded.parts \in DOMAIN manifest
        /\ manifest' = [manifest EXCEPT ![loaded.parts] = None]
        /\ loaded' = [loaded EXCEPT !.parts = loaded.parts - 1]
    BY <1>8 DEF TailDeleted
  <2>2. manifest' \in Lists
    BY <2>1, ListWithout
  <2>3. loaded.parts \in 1 .. Total
    BY <2>1, PartLists DEF Lists
  <2>4. Sound(loaded')
    BY <2>1, <2>3, <1>8 DEF TailDeleted, Sound, Records
  <2>5. manifest' # None /\ asking' = "save" /\ loaded' # None /\ loaded' \in Records
    BY <1>8, <2>2, <2>4 DEF TailDeleted
  <2> QED  BY <1>8, <2>2, <2>4, <2>5 DEF TailDeleted
<1>9. CASE ResumeSave
  BY <1>9 DEF ResumeSave
<1>10. CASE ResumeAgain
  BY <1>10 DEF ResumeAgain
<1>11. CASE ResumeFails
  BY <1>11 DEF ResumeFails
<1>12. CASE ResumeStart
  BY <1>12 DEF ResumeStart
<1>13. CASE StatTarget
  <2>1. pc' \in {"stated", "hashed"} /\ stopped' \in BOOLEAN
    BY <1>13 DEF StatTarget
  <2> QED  BY <1>13, <2>1 DEF StatTarget
<1>14. CASE HashTarget
  <2>1. Sound([record EXCEPT !.sha = target])
    BY DEF Sound, Records
  <2>2. Sound(record') /\ unsure' \in BOOLEAN /\ pc' = "hashed"
    BY <1>14, <2>1 DEF HashTarget
  <2> QED  BY <1>14, <2>2 DEF HashTarget
<1>15. CASE VerifyInputs
  <2>1. CASE Fails
    BY <1>15, <2>1, <1>d DEF VerifyInputs, Fails, Over
  <2>2. CASE ~Fails
    BY <1>15, <2>2 DEF VerifyInputs
  <2> QED  BY <2>1, <2>2
<1>16. CASE Begin
  BY <1>16 DEF Begin
<1>17. CASE ClearOutput
  BY <1>17 DEF ClearOutput
<1>18. CASE Open
  BY <1>18, Kept DEF Open
<1>19. CASE NoEncoder
  BY <1>19 DEF NoEncoder
<1>20. CASE Lookup
  <2>1. usable' \in [ranges : {None} \cup Answers, faces : BOOLEAN]
    BY <1>20 DEF Lookup, Nothing, Records, Intact
  <2> QED  BY <1>20, <2>1 DEF Lookup
<1>21. CASE RestoreScan
  BY <1>21 DEF RestoreScan
<1>22. CASE Scan
  BY <1>22 DEF Scan, Answers
<1>23. CASE SweepStage2
  <2>1. Key(record) # None => record.sha # None
    BY DEF Key
  <2> QED  BY <1>23, <2>1 DEF SweepStage2
<1>24. CASE SaveScan
  <2>1. CASE UNCHANGED record
    BY <1>24, <2>1 DEF SaveScan
  <2>2. CASE record' = [Rekeyed(held) EXCEPT !.ranges = ranges, !.faces = None]
    <3>1. Sound(held) /\ held \in Records /\ held.sha # None /\ ranges \in Answers
      BY <1>24 DEF SaveScan
    <3>2. Sound(record')
      BY <2>2, <3>1, WithScan
    <3> QED  BY <1>24, <3>2 DEF SaveScan
  <2> QED  BY <1>24, <2>1, <2>2 DEF SaveScan
<1>25. CASE RestoreFaces
  BY <1>25, <1>d DEF RestoreFaces, Fits, Nothing
<1>26. CASE PrePass
  <2>1. Pick \in Scans \cup {None}
    BY DEF Pick, Answers
  <2>2. [of |-> target, live |-> live, pick |-> Pick] \in Faces
    BY <2>1 DEF Faces
  <2>3. usable' \in [ranges : {None} \cup Answers, faces : BOOLEAN]
    BY <1>26 DEF PrePass, Nothing
  <2> QED  BY <1>26, <2>2, <2>3 DEF PrePass
<1>27. CASE SaveFaces
  <2>1. CASE UNCHANGED record
    BY <1>27, <2>1 DEF SaveFaces
  <2>2. CASE Key(record) # None /\ record' = [Rekeyed(record) EXCEPT !.faces = sidecar]
    <3>1. record.sha # None /\ sidecar \in Faces
      BY <1>27, <2>2 DEF SaveFaces, Key
    <3>2. Sound(record')
      BY <2>2, <3>1, WithFaces
    <3> QED  BY <1>27, <3>2 DEF SaveFaces
  <2> QED  BY <1>27, <2>1, <2>2 DEF SaveFaces
<1>28. CASE CommitPart
  <2>1. PICK part \in Parts : manifest' = Append(manifest, part)
    BY <1>28 DEF CommitPart, Parts
  <2>2. manifest \in Lists /\ Len(manifest) < Total
    BY <1>28 DEF CommitPart
  <2>3. Append(manifest, part) \in Lists
    BY ONLY <2>2, PartLists, part \in Parts
  <2>4. manifest' \in Lists /\ manifest' # None
    BY <2>1, <2>3
  <2> QED  BY <1>28, <2>4 DEF CommitPart
<1>29. CASE Notify
  <2>1. manifest \in Lists /\ Len(manifest) \in 0 .. Total /\ (Len(manifest) > 0 => manifest \notin {None, <<>>})
    BY <1>29, PartLists DEF Notify
  <2>2. \A state \in States : Sound([record EXCEPT !.state = state, !.parts = Len(manifest), !.manifest = manifest])
    BY <2>1 DEF Sound, Records
  <2> QED  BY <1>29, <2>2 DEF Notify, States
<1>30. CASE GiveUp
  <2>1. processing' \in BOOLEAN /\ cutShort' \in BOOLEAN
    BY <1>30 DEF GiveUp
  <2> QED  BY <1>30, <2>1 DEF GiveUp
<1>31. CASE EndOfRender
  BY <1>31 DEF EndOfRender
<1>32. CASE Close
  BY <1>32 DEF Close
<1>33. CASE Ended
  <2>1. CASE Over
    BY <1>33, <2>1, <1>d DEF Ended, Over
  <2>2. CASE ~Over
    BY <1>33, <2>2 DEF Ended, Ends
  <2> QED  BY <2>1, <2>2
<1>34. CASE Complete
  <2> DEFINE new == [record EXCEPT !.state = "COMPLETED", !.parts = 0, !.manifest = None]
  <2>1. record' = new /\ pc' = "seal"
    BY <1>34 DEF Complete
  <2>2. record \in Records /\ (record.key = None => record.ranges = None /\ record.faces = None)
    OBVIOUS
  <2>3. "COMPLETED" \in States /\ 0 \in 0 .. Total
    BY DEF States
  <2>4. new \in Records
    BY ONLY <2>2, <2>3 DEF Records
  <2>5. new.parts = 0 /\ new.key = record.key /\ new.ranges = record.ranges /\ new.faces = record.faces
    BY ONLY <2>2 DEF Records
  <2>6. Sound(new)
    BY ONLY <2>2, <2>4, <2>5 DEF Sound
  <2> HIDE DEF new
  <2> QED  BY <1>34, <2>1, <2>6 DEF Complete
<1>35. CASE Seal
  BY <1>35 DEF Seal
<1>36. CASE Sweep
  BY <1>36 DEF Sweep
<1>37. CASE Forget
  <2>1. Sound(Forgotten)
    BY DEF Forgotten, Sound, Records
  <2> QED  BY <1>37, <2>1, <1>d DEF Forget, Over
<1>38. CASE Raise
  BY <1>38, <1>d DEF Raise, Fails, Over
<1>39. CASE Crash
  BY <1>39, <1>d DEF Crash
<1>40. CASE UNCHANGED vars
  BY <1>40 DEF vars
<1> QED
  BY <1>1, <1>2, <1>3, <1>4, <1>5, <1>6, <1>7, <1>8, <1>9, <1>10, <1>11, <1>12, <1>13, <1>14, <1>15,
     <1>16, <1>17, <1>18, <1>19, <1>20, <1>21, <1>22, <1>23, <1>24, <1>25, <1>26, <1>27, <1>28, <1>29,
     <1>30, <1>31, <1>32, <1>33, <1>34, <1>35, <1>36, <1>37, <1>38, <1>39, <1>40 DEF Next, Http, Worker

\* Every variable keeps its shape, and no entry of the stage cache is there without a key.
THEOREM TypeCorrect == Spec => []TypeOK
<1>1. Shape => TypeOK
  BY DEF Shape
<1> QED
  BY InitShape, NextShape, <1>1, PTL DEF Spec

-----------------------------------------------------------------------------
(* Who writes what.                                                        *)

\* What a step may change of the record, part by part.
Owners ==
    /\ record'.stat = record.stat
    /\ record'.parts # record.parts \/ record'.manifest # record.manifest => pc \in {"notify", "complete"}
    /\ record'.ranges # record.ranges \/ record'.faces # record.faces => pc \in {"save1", "save2", "forget"}
    /\ record'.key # record.key => pc \in {"save1", "save2", "forget"}
    /\ record'.sha # record.sha => pc = "stated" /\ pc' = "hashed"

\* A record that was loaded before is saved, by project_resume or for Stage 1.
PutsLoaded == ResumeSave /\ record' = loaded

PutsHeld == SaveScan /\ record # held /\ record' = [Rekeyed(held) EXCEPT !.ranges = ranges, !.faces = None]

LEMMA StepOwners == Shape /\ [Next]_vars => Owners \/ PutsLoaded \/ PutsHeld
<1> SUFFICES ASSUME Shape, [Next]_vars PROVE Owners \/ PutsLoaded \/ PutsHeld  OBVIOUS
<1> USE NoneAssumption DEF NoneAssumption, Shape, TypeOK, disk, run, flags, http, env, past, At, To
<1>1. CASE UNCHANGED record
  BY <1>1 DEF Owners
<1>2. CASE Mark \/ ResumeLoad \/ ResumeFails \/ VerifyInputs \/ Begin \/ Seal \/ Raise
  <2>1. UNCHANGED record \/ \E state \in States : record' = Marked(state)
    BY <1>2 DEF Mark, ResumeLoad, ResumeFails, VerifyInputs, Begin, Seal, Raise, Fails, States
  <2>2. \A field \in {"stat", "sha", "parts", "manifest", "key", "ranges", "faces"} :
           record'[field] = record[field]
    BY <2>1, MarkedShape
  <2> QED  BY <2>2 DEF Owners
<1>3. CASE ResumeSave
  BY <1>3, <1>1 DEF ResumeSave, PutsLoaded
<1>4. CASE HashTarget
  <2>1. pc = "stated" /\ pc' = "hashed" /\ (UNCHANGED record \/ record' = [record EXCEPT !.sha = target])
    BY <1>4 DEF HashTarget
  <2> QED  BY <2>1, <1>1 DEF Owners, Records
<1>5. CASE SaveScan
  <2>1. CASE record # held
    BY <1>5, <2>1, <1>1 DEF SaveScan, PutsHeld
  <2>2. CASE record = held /\ record' = [Rekeyed(held) EXCEPT !.ranges = ranges, !.faces = None]
    <3>1. pc = "save1" /\ held \in Records /\ Sound(held) /\ held.sha # None /\ ranges \in Answers
      BY <1>5, <2>2 DEF SaveScan
    <3>2. \A field \in {"state", "stat", "sha", "parts", "manifest"} : record'[field] = record[field]
      BY <2>2, <3>1, WithScan
    <3> QED  BY <3>1, <3>2 DEF Owners
  <2> QED  BY <1>5, <2>1, <2>2, <1>1 DEF SaveScan
<1>6. CASE SaveFaces
  <2>1. CASE Key(record) # None /\ record' = [Rekeyed(record) EXCEPT !.faces = sidecar]
    <3>1. pc = "save2" /\ record.sha # None /\ sidecar \in Faces
      BY <1>6, <2>1 DEF SaveFaces, Key
    <3>2. \A field \in {"state", "stat", "sha", "parts", "manifest"} : record'[field] = record[field]
      BY <2>1, <3>1, WithFaces
    <3> QED  BY <3>1, <3>2 DEF Owners
  <2> QED  BY <1>6, <2>1, <1>1 DEF SaveFaces
<1>7. CASE Notify
  BY <1>7, <1>1 DEF Notify, Owners, Records
<1>8. CASE Complete
  BY <1>8 DEF Complete, Owners, Records
<1>9. CASE Forget
  BY <1>9 DEF Forget, Forgotten, Owners, Records
<1> QED
  <2>1. \/ UNCHANGED record
        \/ Mark \/ ResumeLoad \/ ResumeFails \/ VerifyInputs \/ Begin \/ Seal \/ Raise
        \/ ResumeSave \/ HashTarget \/ SaveScan \/ SaveFaces \/ Notify \/ Complete \/ Forget
    BY DEF Next, Http, Worker, vars, Edit, StopCall, ListLoad, ListCheck, TailKept, TailDeleted, ResumeAgain,
           ResumeStart, StatTarget, ClearOutput, Open, NoEncoder, Lookup, RestoreScan, Scan, SweepStage2,
           RestoreFaces, PrePass, CommitPart, GiveUp, EndOfRender, Close, Ended, Sweep, Crash
  <2> QED  BY <2>1, <1>1, <1>2, <1>3, <1>4, <1>5, <1>6, <1>7, <1>8, <1>9

\* The checkpoint, the stage cache and the digests change only in the worker's own steps, unless
\* project_resume, or record_stage after it, saves a record that it loaded before.
THEOREM OwnersOnly == Spec => OnlyOwnersWrite
<1> DEFINE Owned ==
      \/ PutsBack
      \/ /\ record'.parts # record.parts \/ record'.manifest # record.manifest => pc \in {"notify", "complete"}
         /\ record'.ranges # record.ranges \/ record'.faces # record.faces => pc \in {"save1", "save2", "forget"}
         /\ record'.sha # record.sha => pc = "stated"
<1>1. Owners => Owned
  BY DEF Owners
<1>2. PutsLoaded \/ PutsHeld => Owned
  BY DEF PutsLoaded, PutsHeld, ResumeSave, SaveScan, PutsBack, At
<1>3. Shape /\ [Next]_vars => [Owned]_vars
  BY <1>1, <1>2, StepOwners
<1> QED
  BY InitShape, NextShape, <1>3, PTL DEF Spec, OnlyOwnersWrite

-----------------------------------------------------------------------------
(* The digests of the records that somebody has loaded.                    *)

\* The digest is taken of a record that has none; whoever has loaded a record with a digest will put
\* back the same one.
Digests ==
    /\ pc = "stated" => record.sha = None
    /\ held # None => record.sha \in {None, held.sha}
    /\ loaded # None /\ loaded.sha # None => record.sha = loaded.sha

LEMMA InitDigests == Init => Digests
BY DEF Init, Digests

\* Where a digest is about to be taken, and where what is held or loaded comes from.
LEMMA Carried ==
    ASSUME Shape, [Next]_vars
    PROVE  /\ pc' = "stated" => pc = "stated" \/ record.sha = None
           /\ held' # None => held' = held \/ (held' = record /\ record' = record)
           /\ loaded' # None => loaded' = loaded \/ loaded' = record' \/ (asking = "check" /\ loaded' = [loaded EXCEPT !.parts = loaded.parts - 1])
<1> USE DEF disk, run, flags, http, env, past, At, To
<1>1. pc' = "stated" => pc = "stated" \/ record.sha = None
  BY DEF Next, Http, Worker, vars, Edit, StopCall, ListLoad, ListCheck, Mark, ResumeLoad,
     TailKept, TailDeleted, ResumeSave, ResumeAgain, ResumeFails, ResumeStart, StatTarget, HashTarget,
     VerifyInputs, Begin, ClearOutput, Open, NoEncoder, Lookup, RestoreScan, Scan, SweepStage2, SaveScan,
     RestoreFaces, PrePass, SaveFaces, CommitPart, Notify, GiveUp, EndOfRender, Close, Ended, Ends, Complete,
     Seal, Sweep, Forget, Raise, Crash, Fails, Over, Released
<1>2. held' # None => held' = held \/ (held' = record /\ record' = record)
  BY DEF Next, Http, Worker, vars, Edit, StopCall, ListLoad, ListCheck, Mark, ResumeLoad,
     TailKept, TailDeleted, ResumeSave, ResumeAgain, ResumeFails, ResumeStart, StatTarget, HashTarget,
     VerifyInputs, Begin, ClearOutput, Open, NoEncoder, Lookup, RestoreScan, Scan, SweepStage2, SaveScan,
     RestoreFaces, PrePass, SaveFaces, CommitPart, Notify, GiveUp, EndOfRender, Close, Ended, Ends, Complete,
     Seal, Sweep, Forget, Raise, Crash, Fails, Over, Released
<1>3. loaded' # None => loaded' = loaded \/ loaded' = record' \/ (asking = "check" /\ loaded' = [loaded EXCEPT !.parts = loaded.parts - 1])
  BY DEF Next, Http, Worker, vars, Edit, StopCall, ListLoad, ListCheck, Mark, ResumeLoad,
     TailKept, TailDeleted, ResumeSave, ResumeAgain, ResumeFails, ResumeStart, StatTarget, HashTarget,
     VerifyInputs, Begin, ClearOutput, Open, NoEncoder, Lookup, RestoreScan, Scan, SweepStage2, SaveScan,
     RestoreFaces, PrePass, SaveFaces, CommitPart, Notify, GiveUp, EndOfRender, Close, Ended, Ends, Complete,
     Seal, Sweep, Forget, Raise, Crash, Fails, Over, Released
<1> QED  BY <1>1, <1>2, <1>3

LEMMA NextDigests == Shape /\ Digests /\ [Next]_vars => Digests'
<1> SUFFICES ASSUME Shape, Digests, [Next]_vars PROVE Digests'  OBVIOUS
<1> USE NoneAssumption DEF NoneAssumption, Digests, disk, run, flags, http, env, past, At, To
<1>1. CASE PutsLoaded
  BY <1>1 DEF PutsLoaded, ResumeSave, Shape
<1>2. CASE PutsHeld
  <2>1. held \in Records /\ Sound(held) /\ held.sha # None /\ ranges \in Answers /\ live \in Lives
    BY <1>2 DEF PutsHeld, SaveScan, Shape, TypeOK
  <2>2. record'.sha = held.sha
    BY <1>2, <2>1, WithScan DEF PutsHeld
  <2>3. loaded' = loaded /\ held' = None /\ pc' = "prepass" /\ held # None
    BY <1>2 DEF PutsHeld, SaveScan, Shape
  <2> QED  BY <2>1, <2>2, <2>3
<1>3. CASE Owners
  <2>1. record'.sha # record.sha => pc = "stated" /\ pc' = "hashed"
    BY <1>3 DEF Owners
  <2>2. loaded' # None => (loaded # None /\ loaded'.sha = loaded.sha) \/ loaded' = record'
    BY Carried DEF Shape, Sound, Records
  <2> QED  BY <2>1, <2>2, Carried DEF Shape
<1> QED  BY <1>1, <1>2, <1>3, StepOwners

-----------------------------------------------------------------------------
(* The media the parts were rendered from.                                 *)

Compared == {"begin", "clear", "open"}

PartsOf(content) == manifest # None => \A i \in DOMAIN manifest : manifest[i] # None => manifest[i].of = content

\* A digest is of a content no later than that of any part, as long as nothing was missed.
Dating(sha) ==
    sha # None =>
       /\ sha <= target
       /\ manifest # None /\ ~unsure => \A i \in DOMAIN manifest : manifest[i] # None => sha <= manifest[i].of

\* No part is later than the media as it is, and those of a run that has compared a final digest, or
\* that goes on from a run that had, are not earlier either.
Media ==
    /\ Dating(record.sha) /\ (held # None => Dating(held.sha)) /\ (loaded # None => Dating(loaded.sha))
    /\ manifest # None => \A i \in DOMAIN manifest : manifest[i] # None => manifest[i].of <= target
    /\ pc \in Compared /\ checked = "final" /\ ~unsure => PartsOf(target)
    /\ pc \in Opened /\ ~unsure => PartsOf(target)

LEMMA InitMedia == Init => Media
BY NoneAssumption DEF NoneAssumption, Init, Media, Dating, PartsOf, NewRecord, Compared, Opened

\* A record's digest is one that somebody had before, but for the one that is taken.
LEMMA DigestsCarried ==
    ASSUME Shape, Media, [Next]_vars, ~HashTarget,
           \A sha \in Contents : Dating(sha) => Dating(sha)'
    PROVE  Dating(record.sha)' /\ (held # None => Dating(held.sha))' /\ (loaded # None => Dating(loaded.sha))'
<1>1. /\ Dating(record.sha) /\ (held # None => Dating(held.sha)) /\ (loaded # None => Dating(loaded.sha))
  BY DEF Media
<1>2. /\ record \in Records /\ (held # None => held \in Records) /\ (loaded # None => loaded \in Records)
  BY DEF Shape, Sound
<1>3. \/ record'.sha = record.sha
      \/ loaded # None /\ record'.sha = loaded.sha
      \/ held # None /\ record'.sha = held.sha
  <2>1. CASE Owners
    <3>1. pc = "stated" /\ pc' = "hashed" => HashTarget \/ record'.sha = record.sha
      BY MarkedShape DEF Next, Http, Worker, vars, Edit, StopCall, ListLoad, ListCheck, Mark, ResumeLoad,
         TailKept, TailDeleted, ResumeSave, ResumeAgain, ResumeFails, ResumeStart, StatTarget, VerifyInputs, Begin,
         ClearOutput, Open, NoEncoder, Lookup, RestoreScan, Scan, SweepStage2, SaveScan, RestoreFaces, PrePass,
         SaveFaces, CommitPart, Notify, GiveUp, EndOfRender, Close, Ended, Complete, Seal, Sweep, Forget, Raise,
         Crash, Released, At, To
    <3> QED  BY <2>1, <3>1 DEF Owners
  <2>2. CASE PutsLoaded
    BY <2>2 DEF PutsLoaded, ResumeSave, Shape
  <2>3. CASE PutsHeld
    <3>1. held # None /\ held \in Records /\ Sound(held) /\ held.sha # None /\ ranges \in Answers /\ live \in Lives
      BY <2>3 DEF PutsHeld, SaveScan, Shape, TypeOK, At
    <3> QED  BY <2>3, <3>1, WithScan DEF PutsHeld
  <2> QED  BY <2>1, <2>2, <2>3, StepOwners
<1>4. Dating(None)' 
  BY DEF Dating
<1>5. \A sha \in Contents \cup {None} : Dating(sha) => Dating(sha)'
  BY <1>4
<1>6. Dating(record.sha)'
  <2>1. PICK sha \in Contents \cup {None} : record'.sha = sha /\ Dating(sha)
    BY <1>1, <1>2, <1>3 DEF Records
  <2>2. Dating(sha)'
    BY <2>1, <1>5
  <2> QED  BY <2>1, <2>2 DEF Dating
<1>7. (held # None => Dating(held.sha))'
  <2>1. CASE held' # None /\ held' = held
    <3>1. PICK sha \in Contents \cup {None} : held'.sha = sha /\ Dating(sha)
      BY <1>1, <1>2, <2>1 DEF Records
    <3>2. Dating(sha)'
      BY <3>1, <1>5
    <3> QED  BY <3>1, <3>2 DEF Dating
  <2>2. CASE held' # None /\ held' = record /\ record' = record
    BY <1>6, <2>2 DEF Dating
  <2> QED  BY <2>1, <2>2, Carried
<1>8. (loaded # None => Dating(loaded.sha))'
  <2>1. CASE loaded' # None /\ loaded # None /\ loaded'.sha = loaded.sha
    <3>1. PICK sha \in Contents \cup {None} : loaded'.sha = sha /\ Dating(sha)
      BY <1>1, <1>2, <2>1 DEF Records
    <3>2. Dating(sha)'
      BY <3>1, <1>5
    <3> QED  BY <3>1, <3>2 DEF Dating
  <2>2. CASE loaded' # None /\ loaded' = record'
    BY <1>6, <2>2 DEF Dating
  <2>3. loaded' # None => (loaded # None /\ loaded'.sha = loaded.sha) \/ loaded' = record'
    BY Carried, <1>2 DEF Shape, Records
  <2> QED  BY <2>1, <2>2, <2>3
<1> QED  BY <1>6, <1>7, <1>8

\* What a step does to the parts that is not a step of theirs: nothing.
LEMMA PartsCarried ==
    ASSUME Shape, [Next]_vars
    PROVE  \/ Edit \/ HashTarget \/ TailDeleted \/ ClearOutput \/ Open \/ CommitPart \/ Close
           \/ /\ UNCHANGED <<target, manifest, unsure>>
              /\ pc' \in Compared /\ checked' = "final" =>
                    \/ pc \in Compared /\ checked = "final"
                    \/ pc = "hashed" /\ record.sha = target
              /\ pc' \in Opened => pc \in Opened
<1> USE DEF disk, run, flags, http, env, past, At, To, Compared, Opened
<1> QED
  BY DEF Next, Http, Worker, vars, StopCall, ListLoad, ListCheck, Mark, ResumeLoad,
     TailKept, ResumeSave, ResumeAgain, ResumeFails, ResumeStart, StatTarget, VerifyInputs, Begin,
     NoEncoder, Lookup, RestoreScan, Scan, SweepStage2, SaveScan, RestoreFaces, PrePass,
     SaveFaces, Notify, GiveUp, EndOfRender, Ended, Ends, Complete, Seal, Sweep, Forget, Raise,
     Crash, Fails, Over, Released, Verified

LEMMA NextMedia == Shape /\ Digests /\ Media /\ [Next]_vars => Media'
<1> SUFFICES ASSUME Shape, Digests, Media, [Next]_vars PROVE Media'  OBVIOUS
<1> DEFINE Late  == manifest # None => \A i \in DOMAIN manifest : manifest[i] # None => manifest[i].of <= target
           Fresh == /\ pc \in Compared /\ checked = "final" /\ ~unsure => PartsOf(target)
                    /\ pc \in Opened /\ ~unsure => PartsOf(target)
<1>a. target \in Nat /\ manifest \in {None} \cup Lists /\ None \notin Lists /\ None \notin Contents /\ Contents \subseteq Nat
  BY NoneAssumption DEF NoneAssumption, Shape, TypeOK, Contents
<1>b. Late /\ Fresh
  BY DEF Media
<1>c. \A list \in Lists : \A i \in DOMAIN list : list[i] # None => list[i] \in Parts /\ list[i].of \in Nat
  <2> SUFFICES ASSUME NEW list \in Lists, NEW i \in DOMAIN list, list[i] # None
               PROVE  list[i] \in Parts /\ list[i].of \in Nat
    OBVIOUS
  <2>1. list[i] \in Parts
    BY DEF Lists
  <2> QED  BY <2>1 DEF Parts, Contents
<1>d. ASSUME ~HashTarget, \A sha \in Contents : Dating(sha) => Dating(sha)', Late', Fresh'  PROVE Media'
  BY <1>d, DigestsCarried DEF Media
<1>1. CASE Edit
  <2>1. /\ target' = target + 1 /\ manifest' = manifest /\ unsure' = unsure /\ pc' = pc
        /\ pc \in {"off", "asked", "stated"}
    BY <1>1 DEF Edit, past
  <2>2. \A sha \in Contents : Dating(sha) => Dating(sha)'
    BY <2>1, <1>a DEF Dating
  <2>3. Late' /\ Fresh'
    BY <2>1, <1>a, <1>b, <1>c DEF Compared, Opened
  <2> QED  BY <1>d, <1>1, <2>1, <2>2, <2>3 DEF HashTarget, At, To
<1>2. CASE HashTarget
  <2>1. /\ target' = target /\ manifest' = manifest /\ pc = "stated" /\ pc' = "hashed" /\ held' = held /\ loaded' = loaded
        /\ \/ record' = record /\ unsure' = unsure
           \/ record'.sha = target /\ unsure' = (unsure \/ manifest \notin {None, <<>>})
    BY <1>2 DEF HashTarget, run, http, At, To, Shape, TypeOK, Records
  <2>2. held = None /\ (loaded # None => loaded.sha = None)
    BY <2>1 DEF Shape, Digests
  <2>3. Dating(record.sha)'
    <3>1. CASE record' = record /\ unsure' = unsure
      BY <2>1, <3>1 DEF Dating, Media
    <3>2. CASE record'.sha = target /\ unsure' = (unsure \/ manifest \notin {None, <<>>})
      <4>1. ~unsure' => manifest \in {None, <<>>}
        BY <3>2
      <4> QED  BY <2>1, <3>2, <4>1, <1>a DEF Dating
    <3> QED  BY <2>1, <3>1, <3>2
  <2> QED  BY <2>1, <2>2, <2>3, <1>b DEF Media, Dating, Compared, Opened
<1>3. CASE TailDeleted
  <2>1. /\ target' = target /\ unsure' = unsure /\ pc' = pc /\ checked' = checked /\ manifest \in Lists
        /\ loaded.parts \in DOMAIN manifest /\ manifest' = [manifest EXCEPT ![loaded.parts] = None] /\ manifest' # None
    BY <1>3, <1>a, ListWithout DEF TailDeleted, past, run
  <2>2. DOMAIN manifest' = DOMAIN manifest /\ \A i \in DOMAIN manifest : manifest'[i] # None => manifest'[i] = manifest[i]
    BY <2>1, ListWithout
  <2>3. \A sha \in Contents : Dating(sha) => Dating(sha)'
    BY <2>1, <2>2, <1>a DEF Dating
  <2>4. Late' /\ Fresh'
    BY <2>1, <2>2, <1>a, <1>b DEF PartsOf
  <2> QED  BY <1>d, <1>3, <2>1, <2>3, <2>4 DEF HashTarget, TailDeleted, At, To
<1>4. CASE ClearOutput
  <2>1. /\ target' = target /\ unsure' = unsure /\ pc = "clear" /\ pc' = "open" /\ checked' = checked
        /\ manifest' \in {manifest, None}
    BY <1>4 DEF ClearOutput, past, run, At, To
  <2>2. \A sha \in Contents : Dating(sha) => Dating(sha)'
    BY <2>1, <1>a DEF Dating
  <2>3. Late' /\ Fresh'
    BY <2>1, <1>b DEF PartsOf, Compared, Opened
  <2> QED  BY <1>d, <2>1, <2>2, <2>3 DEF HashTarget, At, To
<1>5. CASE Open
  <2>1. PICK kept \in Resumable :
          /\ manifest' = kept /\ unsure' = (kept # <<>> /\ (unsure \/ checked # "final"))
          /\ target' = target /\ pc = "open" /\ pc' \in {"close", "lookup"}
    BY <1>5 DEF Open, At, To
  <2>2. /\ kept \in Lists
        /\ \A i \in DOMAIN kept : manifest # None /\ i \in DOMAIN manifest /\ kept[i] = manifest[i]
    BY <1>a, Kept
  <2>3. ~unsure' => kept = <<>> \/ (~unsure /\ checked = "final")
    BY <2>1
  <2>4. \A sha \in Contents : Dating(sha) => Dating(sha)'
    BY <2>1, <2>2, <2>3 DEF Dating
  <2>5. Late' /\ Fresh'
    BY <2>1, <2>2, <2>3, <1>b DEF PartsOf, Compared, Opened
  <2> QED  BY <1>d, <2>1, <2>4, <2>5 DEF HashTarget, At, To
<1>6. CASE CommitPart
  <2>1. PICK part \in Parts : manifest' = Append(manifest, part) /\ part.of = target
    BY <1>6 DEF CommitPart, Shape, TypeOK, Parts
  <2>2. /\ manifest \in Seq(Parts \cup {None}) /\ manifest # None /\ target' = target /\ unsure' = unsure
        /\ pc = "render" /\ pc' = "notify"
    BY <1>6 DEF CommitPart, Shape, TypeOK, Lists, Opened, past, At, To
  <2>3. DOMAIN manifest' = DOMAIN manifest \cup {Len(manifest) + 1}
    BY <2>1, <2>2
  <2>4. \A i \in DOMAIN manifest' : (i \in DOMAIN manifest /\ manifest'[i] = manifest[i]) \/ manifest'[i] = part
    BY <2>1, <2>2, <2>3
  <2>5. \A sha \in Contents : Dating(sha) => Dating(sha)'
    BY <2>1, <2>2, <2>4 DEF Dating
  <2>6. Late' /\ Fresh'
    BY <2>1, <2>2, <2>4, <1>a, <1>b DEF PartsOf, Compared, Opened
  <2> QED  BY <1>d, <2>2, <2>5, <2>6 DEF HashTarget, At, To
<1>7. CASE Close
  <2>1. /\ target' = target /\ unsure' = unsure /\ pc = "close" /\ pc' = "ended" /\ manifest' \in {manifest, None}
    BY <1>7 DEF Close, At, To
  <2>2. \A sha \in Contents : Dating(sha) => Dating(sha)'
    BY <2>1, <1>a DEF Dating
  <2>3. Late' /\ Fresh'
    BY <2>1, <1>b DEF PartsOf, Compared, Opened
  <2> QED  BY <1>d, <2>1, <2>2, <2>3 DEF HashTarget, At, To
<1>8. CASE /\ UNCHANGED <<target, manifest, unsure>>
           /\ pc' \in Compared /\ checked' = "final" =>
                 \/ pc \in Compared /\ checked = "final"
                 \/ pc = "hashed" /\ record.sha = target
           /\ pc' \in Opened => pc \in Opened
           /\ ~HashTarget
  <2>1. \A sha \in Contents : Dating(sha) => Dating(sha)'
    BY <1>8 DEF Dating
  <2>2. record.sha = target /\ ~unsure => PartsOf(target)
    <3> SUFFICES ASSUME record.sha = target, ~unsure, manifest # None, NEW i \in DOMAIN manifest, manifest[i] # None
                 PROVE  manifest[i].of = target
      BY DEF PartsOf
    <3>1. target # None /\ manifest \in Lists /\ manifest[i].of \in Nat
      BY <1>a, <1>c DEF Shape, TypeOK
    <3>2. target <= manifest[i].of /\ manifest[i].of <= target
      BY <1>b, <3>1 DEF Media, Dating
    <3> QED  BY <3>1, <3>2, <1>a
  <2>3. Late' /\ Fresh'
    BY <1>8, <2>2, <1>b DEF PartsOf
  <2> QED  BY <1>d, <1>8, <2>1, <2>3
<1> QED  BY <1>1, <1>2, <1>3, <1>4, <1>5, <1>6, <1>7, <1>8, PartsCarried

\* The parts a run adds to and merges were all rendered from the media as it is, unless some run had
\* no final digest to compare it with.
THEOREM MediaShared == Spec => []PartsShareMedia
<1>1. Media => PartsShareMedia
  BY DEF Media, PartsShareMedia, PartsOf, Opened
<1> QED
  BY InitShape, NextShape, InitDigests, NextDigests, InitMedia, NextMedia, <1>1, PTL DEF Spec

-----------------------------------------------------------------------------
(* The results of Stage 1 and Stage 2.                                     *)

Ongoing == {"begin", "clear", "open", "lookup", "scan", "sweep1", "save1", "prepass", "save2", "render", "notify"}

OfRun(result) == result.of = target /\ result.live = live

\* An entry of the cache was computed by a process as its key tells, from the media of the key's
\* digest or a later one.
Keyed(r) ==
    /\ r.ranges # None => r.key[1] <= r.ranges.of /\ r.ranges.of <= target /\ r.ranges.live = r.key[2]
    /\ r.faces # None => r.key[1] <= r.faces.of /\ r.faces.of <= target /\ r.faces.live = r.key[2]

\* The digest of a run that has compared it is the one of the media as it is.
Current == pc \in Ongoing /\ checked # "skipped" => record.sha \in {None, target} /\ (held # None => held.sha = target)

\* What a run has computed itself is its own, and so is what it found usable if it has compared.
Memory ==
    /\ pc \in {"scan", "sweep1", "save1", "prepass"} /\ checked # "skipped" =>
          /\ usable.ranges # None => OfRun(usable.ranges)
          /\ usable.faces /\ sidecar # None => OfRun(sidecar)
    /\ pc \in {"sweep1", "save1"} => OfRun(ranges)
    /\ pc \in {"prepass", "save2", "render", "notify"} /\ checked # "skipped" /\ ranges # None => OfRun(ranges)
    /\ pc \in {"save2", "render", "notify"} /\ checked # "skipped" /\ faces # None =>
          faces = [of |-> target, live |-> live, pick |-> Pick]
    /\ pc = "save2" => sidecar = faces /\ OfRun(sidecar)

Stages ==
    /\ Keyed(record) /\ (held # None => Keyed(held)) /\ (loaded # None => Keyed(loaded))
    /\ Current /\ Memory

LEMMA InitStages == Init => Stages
BY DEF Init, Stages, Keyed, Current, Memory, NewRecord, Ongoing

\* Where the media may change, and where a run has compared the digest.
LEMMA RunCarried ==
    ASSUME Shape, [Next]_vars
    PROVE  /\ target' = target \/ (target' = target + 1 /\ pc' \in {"off", "asked", "stated"} /\ pc' = pc)
           /\ pc' \in Ongoing /\ checked' # "skipped" =>
                 \/ pc \in Ongoing /\ checked # "skipped"
                 \/ pc = "hashed" /\ record'.sha \in {None, target} /\ held' = None
<1> USE DEF disk, run, flags, http, env, past, At, To, Ongoing
<1>1. target' = target \/ (target' = target + 1 /\ pc' \in {"off", "asked", "stated"} /\ pc' = pc)
  BY DEF Next, Http, Worker, vars, Edit, StopCall, ListLoad, ListCheck, Mark, ResumeLoad,
     TailKept, TailDeleted, ResumeSave, ResumeAgain, ResumeFails, ResumeStart, StatTarget, HashTarget,
     VerifyInputs, Begin, ClearOutput, Open, NoEncoder, Lookup, RestoreScan, Scan, SweepStage2, SaveScan,
     RestoreFaces, PrePass, SaveFaces, CommitPart, Notify, GiveUp, EndOfRender, Close, Ended, Ends, Complete,
     Seal, Sweep, Forget, Raise, Crash
<1>2. pc' \in Ongoing /\ checked' # "skipped" =>
         \/ pc \in Ongoing /\ checked # "skipped"
         \/ pc = "hashed" /\ record'.sha \in {None, target} /\ held' = None
  BY DEF Next, Http, Worker, vars, Edit, StopCall, ListLoad, ListCheck, Mark, ResumeLoad,
     TailKept, TailDeleted, ResumeSave, ResumeAgain, ResumeFails, ResumeStart, StatTarget, HashTarget,
     VerifyInputs, Begin, ClearOutput, Open, NoEncoder, Lookup, RestoreScan, Scan, SweepStage2, SaveScan,
     RestoreFaces, PrePass, SaveFaces, CommitPart, Notify, GiveUp, EndOfRender, Close, Ended, Ends, Complete,
     Seal, Sweep, Forget, Raise, Crash, Fails, Over, Released, Verified, Shape
<1> QED  BY <1>1, <1>2

LEMMA NextCurrent == Shape /\ Digests /\ Current /\ [Next]_vars => Current'
<1> SUFFICES ASSUME Shape, Digests, Current, [Next]_vars, pc' \in Ongoing, checked' # "skipped"
             PROVE  record'.sha \in {None, target'} /\ (held' # None => held'.sha = target')
  BY DEF Current
<1>1. target' = target
  BY RunCarried DEF Ongoing
<1>2. CASE pc = "hashed" /\ record'.sha \in {None, target} /\ held' = None
  BY <1>1, <1>2
<1>3. CASE pc \in Ongoing /\ checked # "skipped"
  <2>1. record.sha \in {None, target} /\ (held # None => held.sha = target)
    BY <1>3 DEF Current
  <2>2. record'.sha \in {None, target}
    <3>1. CASE Owners
      BY <1>3, <2>1, <3>1 DEF Owners, Ongoing
    <3>2. CASE PutsLoaded
      BY <2>1, <3>2 DEF PutsLoaded, ResumeSave, Digests, Shape
    <3>3. CASE PutsHeld
      <4>1. held # None /\ held \in Records /\ Sound(held) /\ held.sha # None /\ ranges \in Answers /\ live \in Lives
        BY <3>3 DEF PutsHeld, SaveScan, Shape, TypeOK, At
      <4> QED  BY <2>1, <3>3, <4>1, WithScan DEF PutsHeld
    <3> QED  BY <3>1, <3>2, <3>3, StepOwners
  <2>3. held' # None => held'.sha = target
    <3>1. CASE held' # None /\ held' = held
      BY <2>1, <3>1
    <3>2. CASE held' # None /\ held' = record /\ record' = record
      BY <2>2, <3>2, NextShape DEF Shape
    <3> QED  BY <3>1, <3>2, Carried
  <2> QED  BY <1>1, <2>2, <2>3
<1> QED  BY <1>2, <1>3, RunCarried

LEMMA NextKeyed ==
    Shape /\ Media /\ Stages /\ [Next]_vars =>
        (Keyed(record) /\ (held # None => Keyed(held)) /\ (loaded # None => Keyed(loaded)))'
<1> SUFFICES ASSUME Shape, Media, Stages, [Next]_vars
             PROVE  Keyed(record)' /\ (held # None => Keyed(held))' /\ (loaded # None => Keyed(loaded))'
  OBVIOUS
<1>1. target \in Nat /\ target' \in Nat /\ target <= target'
  BY RunCarried, NextShape DEF Shape, TypeOK, Contents
<1>2. /\ Keyed(record) /\ (held # None => Keyed(held)) /\ (loaded # None => Keyed(loaded))
      /\ Sound(record) /\ (held # None => Sound(held)) /\ (loaded # None => Sound(loaded))
  BY DEF Stages, Shape
<1>3. \A r : Sound(r) /\ r.ranges # None => r.ranges.of \in Nat /\ r.key \in Keys /\ r.key[1] \in Nat
  BY DEF Sound, Records, Answers, Contents, Keys
<1>4. \A r : Sound(r) /\ r.faces # None => r.faces.of \in Nat /\ r.key \in Keys /\ r.key[1] \in Nat
  BY DEF Sound, Records, Faces, Contents, Keys
<1>5. \A r : Sound(r) /\ Keyed(r) => Keyed(r)'
  BY <1>1, <1>3, <1>4 DEF Keyed
<1>6. Keyed(record)'
  <2>1. CASE UNCHANGED <<record.key, record.ranges, record.faces>>
    <3>1. Keyed(record)'  <=> (\E r : r = record /\ Keyed(r)')
      BY <2>1 DEF Keyed
    <3> QED  BY <1>2, <1>5, <3>1
  <2>2. CASE PutsLoaded
    BY <1>2, <1>5, <2>2 DEF PutsLoaded, ResumeSave, Shape, Keyed
  <2>3. CASE SaveScan /\ record' = [Rekeyed(held) EXCEPT !.ranges = ranges, !.faces = None]
    <3>1. /\ held # None /\ held \in Records /\ Sound(held) /\ held.sha # None /\ ranges \in Answers /\ live \in Lives
          /\ target' = target /\ OfRun(ranges)
      BY <2>3 DEF SaveScan, Shape, TypeOK, At, Stages, Memory
    <3>2. record'.key = <<held.sha, live>> /\ record'.ranges = ranges /\ record'.faces = None
      BY <2>3, <3>1, WithScan
    <3>3. held.sha <= target
      BY <3>1 DEF Media, Dating
    <3> QED  BY <1>1, <3>1, <3>2, <3>3 DEF Keyed, OfRun
  <2>4. CASE SaveFaces /\ Key(record) # None /\ record' = [Rekeyed(record) EXCEPT !.faces = sidecar]
    <3>1. /\ record.sha # None /\ record \in Records /\ sidecar \in Faces /\ live \in Lives
          /\ target' = target /\ OfRun(sidecar)
      BY <2>4 DEF SaveFaces, Key, Shape, TypeOK, At, Stages, Memory
    <3>2. /\ record'.key = <<record.sha, live>> /\ record'.faces = sidecar
          /\ record'.ranges # None => record'.ranges = record.ranges /\ record.key = record'.key
      BY <1>2, <2>4, <3>1, WithFaces
    <3>3. record.sha <= target
      BY <3>1 DEF Media, Dating
    <3> QED  BY <1>1, <1>2, <3>1, <3>2, <3>3 DEF Keyed, OfRun
  <2>5. CASE Forget
    BY <2>5, <1>2 DEF Forget, Forgotten, Keyed, Sound, Records
  <2>6. \/ UNCHANGED <<record.key, record.ranges, record.faces>>
        \/ PutsLoaded
        \/ SaveScan /\ record' = [Rekeyed(held) EXCEPT !.ranges = ranges, !.faces = None]
        \/ SaveFaces /\ Key(record) # None /\ record' = [Rekeyed(record) EXCEPT !.faces = sidecar]
        \/ Forget
    <3>1. CASE pc \in {"save1", "save2", "forget"}
      <4>1. CASE UNCHANGED record
        BY <4>1
      <4>2. CASE Mark \/ ResumeLoad \/ ResumeFails \/ Raise
        <5>1. UNCHANGED record \/ \E state \in States : record' = Marked(state)
          BY <4>2 DEF Mark, ResumeLoad, ResumeFails, Raise, Fails, States
        <5> QED  BY <5>1, <1>2, MarkedShape DEF Sound
      <4>3. CASE ResumeSave
        BY <4>3, <4>1 DEF ResumeSave, PutsLoaded
      <4>4. CASE SaveScan
        BY <4>4, <4>1 DEF SaveScan
      <4>5. CASE SaveFaces
        BY <4>5, <4>1 DEF SaveFaces
      <4> QED
        BY <3>1, <4>1, <4>2, <4>3, <4>4, <4>5
           DEF Next, Http, Worker, vars, Edit, StopCall, ListLoad, ListCheck, TailKept, TailDeleted, ResumeAgain,
           ResumeStart, StatTarget, HashTarget, VerifyInputs, Begin, ClearOutput, Open, NoEncoder, Lookup, RestoreScan,
           Scan, SweepStage2, RestoreFaces, PrePass, CommitPart, Notify, GiveUp, EndOfRender, Close, Ended, Complete,
           Seal, Sweep, Crash, disk, At
    <3>2. CASE pc \notin {"save1", "save2", "forget"}
      BY <3>2, StepOwners DEF Owners, PutsHeld
    <3> QED  BY <3>1, <3>2
  <2> QED  BY <2>1, <2>2, <2>3, <2>4, <2>5, <2>6
<1>7. (held # None => Keyed(held))'
  BY <1>2, <1>5, <1>6, Carried DEF Keyed
<1>8. (loaded # None => Keyed(loaded))'
  <2>1. CASE loaded' # None /\ (loaded' = loaded \/ loaded' = record')
    BY <1>2, <1>5, <1>6, <2>1 DEF Keyed
  <2>2. CASE asking = "check" /\ loaded' = [loaded EXCEPT !.parts = loaded.parts - 1]
    <3>1. loaded # None /\ loaded \in Records
      BY <2>2, <1>2 DEF Shape, Sound
    <3>2. loaded'.key = loaded.key /\ loaded'.ranges = loaded.ranges /\ loaded'.faces = loaded.faces
      BY <2>2, <3>1 DEF Records
    <3> QED  BY <1>2, <1>5, <3>1, <3>2 DEF Keyed
  <2> QED  BY <2>1, <2>2, Carried
<1> QED  BY <1>6, <1>7, <1>8

LEMMA NextMemory == Shape /\ Stages /\ [Next]_vars => Memory'
<1> SUFFICES ASSUME Shape, Stages, [Next]_vars PROVE Memory'  OBVIOUS
<1>0. Memory /\ TypeOK /\ Keyed(record) /\ (pc \in Ongoing /\ checked # "skipped" => record.sha \in {None, target})
  BY DEF Stages, Current, Shape
<1> USE NoneAssumption DEF NoneAssumption, Memory, OfRun, disk, run, flags, http, env, past, At, To
<1>1. CASE Lookup
  <2>1. CASE usable' = Nothing
    BY <1>1, <2>1 DEF Lookup, Nothing
  <2>2. CASE record.key = Key(record) /\ usable' = [ranges |-> record.ranges, faces |-> Intact]
    <3>a. usable'.ranges = record.ranges /\ (usable'.faces => Intact)
      BY ONLY <2>2
    <3>b. /\ pc = "lookup" /\ pc' = "scan"
          /\ UNCHANGED <<target, live, sidecar, record, checked>>
      BY <1>1 DEF Lookup
    <3>1. CASE Key(record) = None
      <4>1. record.ranges = None /\ ~Intact
        BY <2>2, <3>1, <1>0 DEF TypeOK, Intact
      <4> QED  BY <3>a, <3>b, <4>1
    <3>2. CASE Key(record) # None /\ checked # "skipped"
      <4>1. record.key = <<target, live>> /\ target \in Nat
        BY <1>0, <1>1, <2>2, <3>2 DEF Lookup, Key, Ongoing, TypeOK, Contents
      <4>2. record.ranges # None => record.ranges.of \in Nat /\ OfRun(record.ranges)
        BY <1>0, <4>1 DEF Keyed, TypeOK, Records, Answers, Contents
      <4>3. record.faces # None => record.faces.of \in Nat /\ OfRun(record.faces)
        BY <1>0, <4>1 DEF Keyed, TypeOK, Records, Faces, Contents
      <4>4. Intact => OfRun(sidecar)
        BY <4>3 DEF Intact
      <4> QED  BY <3>a, <3>b, <4>2, <4>4
    <3>3. CASE checked = "skipped"
      BY <1>1, <3>3 DEF Lookup
    <3> QED  BY <3>1, <3>2, <3>3
  <2> QED  BY <1>1, <2>1, <2>2 DEF Lookup
<1>2. CASE RestoreScan
  BY <1>0, <1>2 DEF RestoreScan
<1>3. CASE Scan
  BY <1>0, <1>3 DEF Scan
<1>4. CASE SweepStage2
  BY <1>0, <1>4 DEF SweepStage2
<1>5. CASE SaveScan
  BY <1>0, <1>5 DEF SaveScan
<1>6. CASE RestoreFaces
  <2>1. /\ sidecar \in Faces /\ usable.faces /\ sidecar.pick = Pick /\ faces' = sidecar /\ sidecar' = sidecar
        /\ pc = "prepass" /\ pc' = "render" /\ UNCHANGED <<target, live, ranges, checked>>
    BY <1>0, <1>6 DEF RestoreFaces, Fits, TypeOK
  <2>2. sidecar = [of |-> sidecar.of, live |-> sidecar.live, pick |-> sidecar.pick]
    BY <2>1 DEF Faces
  <2>3. checked # "skipped" => OfRun(sidecar) /\ (ranges # None => OfRun(ranges))
    BY <1>0, <2>1
  <2>4. Pick' = Pick
    BY <2>1 DEF Pick
  <2> QED  BY <2>1, <2>2, <2>3, <2>4
<1>7. CASE PrePass
  <2>1. /\ pc = "prepass" /\ pc' \in {"render", "save2"} /\ UNCHANGED <<target, live, ranges, checked>>
        /\ faces' \in {None, [of |-> target, live |-> live, pick |-> Pick]}
        /\ pc' = "save2" => sidecar' = faces' /\ faces' = [of |-> target, live |-> live, pick |-> Pick]
    BY <1>7 DEF PrePass
  <2>2. Pick' = Pick
    BY <2>1 DEF Pick
  <2>3. checked # "skipped" /\ ranges # None => OfRun(ranges)
    BY <1>0, <2>1
  <2> QED  BY <2>1, <2>2, <2>3
<1>8. CASE SaveFaces
  BY <1>0, <1>8 DEF SaveFaces, Pick
<1>9. CASE CommitPart
  BY <1>0, <1>9 DEF CommitPart, Pick
<1>10. CASE Notify
  BY <1>0, <1>10 DEF Notify, Pick
<1>11. CASE pc' \notin {"scan", "sweep1", "save1", "prepass", "save2", "render", "notify"}
  BY <1>11
<1>12. CASE UNCHANGED <<pc, target, live, ranges, faces, usable, sidecar, checked>>
  BY <1>0, <1>12 DEF Pick
<1> QED
  <2>1. \/ pc' \notin {"scan", "sweep1", "save1", "prepass", "save2", "render", "notify"}
        \/ UNCHANGED <<pc, target, live, ranges, faces, usable, sidecar, checked>>
        \/ Lookup \/ RestoreScan \/ Scan \/ SweepStage2 \/ SaveScan \/ RestoreFaces \/ PrePass \/ SaveFaces
        \/ CommitPart \/ Notify
    BY DEF Next, Http, Worker, vars, Edit, StopCall, ListLoad, ListCheck, Mark, ResumeLoad,
       TailKept, TailDeleted, ResumeSave, ResumeAgain, ResumeFails, ResumeStart, StatTarget, HashTarget,
       VerifyInputs, Begin, ClearOutput, Open, NoEncoder, GiveUp, EndOfRender, Close, Ended, Ends, Complete,
       Seal, Sweep, Forget, Raise, Crash, Fails, Over, Released
  <2> QED  BY <2>1, <1>1, <1>2, <1>3, <1>4, <1>5, <1>6, <1>7, <1>8, <1>9, <1>10, <1>11, <1>12

LEMMA NextStages == Shape /\ Digests /\ Media /\ Stages /\ [Next]_vars => Stages'
BY NextKeyed, NextCurrent, NextMemory DEF Stages

\* Whatever a run restores of Stage 1 and 2 is what it would have computed, if it has compared its media.
THEOREM StagesOwn == Spec => []StagesMatchRun
<1>1. Stages => StagesMatchRun
  BY DEF Stages, Memory, StagesMatchRun, OfRun
<1> QED
  BY InitShape, NextShape, InitDigests, NextDigests, InitMedia, NextMedia, InitStages, NextStages, <1>1, PTL DEF Spec

-----------------------------------------------------------------------------
(* The video of a completed project.                                       *)

Whole == video = "whole" /\ manifest \in {None, <<>>}

\* A run that nobody stopped and that has not ended early closes a full list, and only such a run gets
\* to the completion with no video lost.  A handler that could put COMPLETED back has loaded it after
\* that, and there is no part left then that it could delete.
Completion ==
    /\ record.state = "COMPLETED" /\ ~cutShort => Whole /\ pc \in Before \cup Done
    /\ held # None /\ held.state = "COMPLETED" => cutShort
    /\ asking = "check" /\ loaded.state = "COMPLETED" /\ loaded.parts > 0 /\ ~cutShort => Whole /\ pc \in Done
    /\ asking = "save" /\ loaded.state = "COMPLETED" /\ ~cutShort => Whole /\ pc \in Done
    /\ asking \in {"check", "save", "start"} /\ pc \in Before /\ record.state = "COMPLETED" /\ ~cutShort =>
          record.parts = 0
    /\ pc \in Done \ {"off"} /\ ~cutShort => manifest \in {None, <<>>}
    /\ pc \in {"complete", "seal"} /\ ~cutShort => video = "whole"
    /\ pc = "ended" /\ ~stopped /\ ~cutShort => video = "whole"
    /\ pc \in Opened /\ ~stopped /\ ~cutShort => processing

LEMMA InitCompletion == Init => Completion
BY DEF Init, Completion, NewRecord, Opened, Done

LEMMA NextCompletion == Shape /\ Completion /\ [Next]_vars => Completion'
<1> SUFFICES ASSUME Shape, Completion, [Next]_vars PROVE Completion'  OBVIOUS
<1>0. /\ TypeOK /\ Sound(record) /\ (held # None => Sound(held)) /\ (loaded # None => Sound(loaded))
      /\ held # None <=> pc = "save1"
      /\ loaded # None <=> asking \in {"list", "check", "save"}
      /\ pc \in Opened => manifest # None
      /\ held # None => held.sha # None
      /\ pc \in {"sweep1", "save1"} => ranges # None
  BY DEF Shape
<1>m. \A s \in States : Marked(s).state = s /\ Marked(s).parts = record.parts
  BY <1>0, MarkedShape DEF TypeOK
<1> USE DEF Completion, Whole, Before, Opened, Done, disk, run, flags, http, env, past, At, To
<1>1. CASE Edit
  BY <1>0, <1>1 DEF Edit
<1>2. CASE StopCall
  BY <1>0, <1>2 DEF StopCall
<1>3. CASE ListLoad
  BY <1>0, <1>3 DEF ListLoad
<1>4. CASE ListCheck
  BY <1>0, <1>4 DEF ListCheck
<1>5. CASE Mark
  BY <1>0, <1>5, <1>m DEF Mark, States
<1>6. CASE ResumeLoad
  <2>1. record.state = "COMPLETED" /\ ~cutShort /\ Accepts => record.parts = 0
    BY <1>0 DEF Accepts, PartsMatch, Sound, Records
  <2>2. record' = record \/ (record'.state = "UNFINISHED" /\ record'.parts = record.parts)
    BY <1>6, <1>m DEF ResumeLoad, States
  <2>3. \/ asking' = "check" /\ loaded' = record' /\ Accepts
        \/ asking' = asking /\ asking = "none"
    BY <1>6 DEF ResumeLoad
  <2> QED  BY <1>0, <1>6, <2>1, <2>2, <2>3 DEF ResumeLoad
<1>7. CASE TailKept
  BY <1>0, <1>7 DEF TailKept
<1>8. CASE TailDeleted
  BY <1>0, <1>8 DEF TailDeleted
<1>9. CASE ResumeSave
  BY <1>0, <1>9 DEF ResumeSave
<1>10. CASE ResumeAgain
  BY <1>0, <1>10 DEF ResumeAgain
<1>11. CASE ResumeFails
  BY <1>0, <1>11, <1>m DEF ResumeFails, States
<1>12. CASE ResumeStart
  BY <1>0, <1>12 DEF ResumeStart
<1>13. CASE StatTarget
  BY <1>0, <1>13 DEF StatTarget
<1>14. CASE HashTarget
  <2>1. record'.state = record.state /\ record'.parts = record.parts
    BY <1>0, <1>14 DEF HashTarget, Sound, Records
  <2> QED  BY <1>0, <1>14, <2>1 DEF HashTarget
<1>15. CASE VerifyInputs
  BY <1>0, <1>15, <1>m DEF VerifyInputs, Fails, Over, Released, States
<1>16. CASE Begin
  BY <1>0, <1>16, <1>m DEF Begin, States
<1>17. CASE ClearOutput
  BY <1>0, <1>17 DEF ClearOutput
<1>18. CASE Open
  BY <1>0, <1>18 DEF Open
<1>19. CASE NoEncoder
  BY <1>0, <1>19 DEF NoEncoder
<1>20. CASE Lookup
  BY <1>0, <1>20 DEF Lookup
<1>21. CASE RestoreScan
  BY <1>0, <1>21 DEF RestoreScan
<1>22. CASE Scan
  BY <1>0, <1>22 DEF Scan
<1>23. CASE SweepStage2
  BY <1>0, <1>23 DEF SweepStage2
<1>24. CASE SaveScan
  <2>1. held # None /\ held \in Records /\ Sound(held) /\ held.sha # None /\ ranges \in Answers /\ live \in Lives
    BY <1>0, <1>24 DEF SaveScan, Sound, TypeOK
  <2>2. record' = record \/ (record'.state = held.state /\ record'.parts = held.parts)
    BY <1>24, <2>1, WithScan DEF SaveScan
  <2> QED  BY <1>0, <1>24, <2>1, <2>2 DEF SaveScan
<1>25. CASE RestoreFaces
  BY <1>0, <1>25 DEF RestoreFaces
<1>26. CASE PrePass
  BY <1>0, <1>26 DEF PrePass
<1>27. CASE SaveFaces
  <2>1. CASE record' = record
    BY <1>0, <1>27, <2>1 DEF SaveFaces
  <2>2. CASE Key(record) # None /\ record' = [Rekeyed(record) EXCEPT !.faces = sidecar]
    <3>1. /\ record \in Records /\ Sound(record) /\ record.sha # None /\ sidecar \in Faces /\ live \in Lives
      BY <1>0, <1>27, <2>2, NextShape DEF SaveFaces, Key, Shape, TypeOK
    <3>2. record'.state = record.state /\ record'.parts = record.parts
      BY <2>2, <3>1, WithFaces
    <3> QED  BY <1>0, <1>27, <3>2 DEF SaveFaces
  <2> QED  BY <1>27, <2>1, <2>2 DEF SaveFaces
<1>28. CASE CommitPart
  BY <1>0, <1>28 DEF CommitPart
<1>29. CASE Notify
  <2>1. record' = record \/ record'.state \in {"PROCESSING", "UNFINISHED"}
    BY <1>0, <1>29 DEF Notify, Sound, Records
  <2> QED  BY <1>0, <1>29, <2>1 DEF Notify
<1>30. CASE GiveUp
  BY <1>0, <1>30 DEF GiveUp
<1>31. CASE EndOfRender
  BY <1>0, <1>31 DEF EndOfRender
<1>32. CASE Close
  <2>1. /\ manifest \in Lists /\ record' = record /\ held' = held /\ loaded' = loaded /\ asking' = asking
        /\ pc = "close" /\ pc' = "ended" /\ stopped' = stopped /\ held = None
    BY <1>0, <1>32 DEF Close, TypeOK
  <2>2. manifest' \in {None, <<>>}
    BY <1>32 DEF Close
  <2>3. ~stopped /\ ~cutShort => video' = "whole"
    <3>1. ~stopped /\ ~cutShort => Len(manifest) = Total
      BY <1>32 DEF Close
    <3>2. Len(manifest) = Total => manifest # <<>>
      BY ConstantsAssumption DEF ConstantsAssumption
    <3> QED  BY <1>32, <3>1, <3>2 DEF Close
  <2>4. ~cutShort' => ~cutShort \/ video' = "whole"
    BY <1>32 DEF Close
  <2>5. ~cutShort => record.state # "COMPLETED"
    BY <2>1
  <2>6. ~cutShort /\ asking = "check" /\ loaded.parts > 0 => loaded.state # "COMPLETED"
    BY <2>1
  <2>7. ~cutShort /\ asking = "save" => loaded.state # "COMPLETED"
    BY <2>1
  <2> QED  BY <2>1, <2>2, <2>3, <2>4, <2>5, <2>6, <2>7
<1>33. CASE Ended
  BY <1>0, <1>33 DEF Ended, Ends, Over, Released
<1>34. CASE Complete
  BY <1>0, <1>34 DEF Complete
<1>35. CASE Seal
  BY <1>0, <1>35, <1>m DEF Seal, States
<1>36. CASE Sweep
  BY <1>0, <1>36 DEF Sweep
<1>37. CASE Forget
  BY <1>0, <1>37 DEF Forget, Forgotten, Over, Released, Records
<1>38. CASE Raise
  BY <1>0, <1>38, <1>m DEF Raise, Fails, Over, Released, States
<1>39. CASE Crash
  BY <1>0, <1>39 DEF Crash, Released
<1>40. CASE UNCHANGED vars
  BY <1>40 DEF vars
<1> QED
  BY <1>1, <1>2, <1>3, <1>4, <1>5, <1>6, <1>7, <1>8, <1>9, <1>10, <1>11, <1>12, <1>13, <1>14, <1>15,
     <1>16, <1>17, <1>18, <1>19, <1>20, <1>21, <1>22, <1>23, <1>24, <1>25, <1>26, <1>27, <1>28, <1>29,
     <1>30, <1>31, <1>32, <1>33, <1>34, <1>35, <1>36, <1>37, <1>38, <1>39, <1>40 DEF Next, Http, Worker

\* A project is COMPLETED only while its output is a whole video, whenever runs are stopped or die and
\* whatever record a handler puts back, unless a render ended early with nobody stopping it.
THEOREM CompletedWhole == Spec => []CompletedIsWhole
<1>1. Completion => CompletedIsWhole
  BY DEF Completion, Whole, CompletedIsWhole
<1> QED
  BY InitShape, NextShape, InitCompletion, NextCompletion, <1>1, PTL DEF Spec

=============================================================================
