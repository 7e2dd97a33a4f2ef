------------------------------ MODULE ExperimentProofs ------------------------------
(***********************************************************************************)
(* What is proved of the programs around the analyser: of Pipeline, for every sequence of  *)
(* tests, of detectors and of files, and however the shells run beside the driver; of     *)
(* Sweep, the detectors that it starts, for every file of attacks and both scripts; and   *)
(* of SynFlood, which writes such files, for any number of sockets.                        *)
(***********************************************************************************)
EXTENDS Pipeline, Sweep, SynFlood, TallyTheorems, SequenceTheorems

Names == 1 .. Len(TxtFiles)
Detectors == 1 .. Len(Cusums)

\* The phases of a test, from the first that has a directory output of its own, and those
\* of its detectors.
Starting == {"prepare", "analyse"}
Working == {"plot", "move", "data", "detect", "save", "outdir", "archive"}
Detecting == {"data", "detect", "save"}

\* Where the driver is, and the directory that it works in: while a test is worked on, the
\* directory output is that test's, and those left behind are archived.
DriverOK ==
  /\ test \in Nat /\ det \in Nat
  /\ pc \in {"make", "clean", "stopped", "done"} \cup Starting \cup Working
  /\ pc \in {"make", "clean"} => test = 0
  /\ pc \in Starting \cup Working => test \in TestIds
  /\ pc = "analyse" => output = 0
  /\ pc \in Working => output = test
  /\ pc \in Detecting => det \in Detectors
  /\ DOMAIN archive = TestIds
  /\ \A k \in TestIds : k < test => archive[k] = k

\* The tests that have not begun yet: nothing is there, and nothing has been read.
Fresh(k) == k > test \/ (k = test /\ pc \in Starting)
FreshOK ==
  \A k \in TestIds : Fresh(k) =>
    /\ root[k] = {} /\ moved[k] = {} /\ mover[k] = "none"
    /\ \A d \in Detectors : read[k][Cusums[d]] = "none"

\* The files the analyser wrote are in one of two places, all of them or none was written,
\* and they are moved in the order of the shell, so that each that was moved has those
\* before it moved as well.
FilesOK ==
  /\ DOMAIN root = Dirs /\ DOMAIN moved = Dirs /\ DOMAIN mover = Dirs
  /\ \A k \in TestIds : \A n, j \in Names :
       <<TxtFiles[n], "txt">> \in root[k] \cup moved[k]
         => <<TxtFiles[j], "txt">> \in root[k] \cup moved[k]
  /\ \A k \in TestIds : \A n, j \in Names :
       j <= n /\ <<TxtFiles[n], "txt">> \in moved[k] => <<TxtFiles[j], "txt">> \in moved[k]

\* What a detector read was moved; the detectors not run yet have read nothing.
Ahead(d) == IF pc \in {"plot", "move"} THEN TRUE
            ELSE IF pc \in {"data", "detect"} THEN d >= det
            ELSE pc = "save" /\ d > det
ReadOK ==
  /\ DOMAIN read = TestIds
  /\ \A k \in TestIds : DOMAIN read[k] = ToSet(Cusums)
  /\ \A k \in TestIds : \A d \in Detectors :
       read[k][Cusums[d]] = "read" => <<Cusums[d], "txt">> \in moved[k]
  /\ test \in TestIds =>
       \A d \in Detectors : Ahead(d) => read[test][Cusums[d]] = "none"

PipelineInv == DriverOK /\ FreshOK /\ FilesOK /\ ReadOK
USE DEF pipeVars, driver

-------------------------------------------------------------------------------------
(* The sequences.                                                                    *)

\* The tests, the detectors and the names are numbered from 1, and no name is used twice.
LEMMA ListFacts ==
  /\ Len(Tests) \in Nat /\ Len(Tests) >= 1
  /\ Len(Cusums) \in Nat /\ Len(Cusums) >= 1 /\ Len(TxtFiles) \in Nat
  /\ \A c, d \in Detectors : Cusums[c] = Cusums[d] => c = d
  /\ \A n, j \in Names : TxtFiles[n] = TxtFiles[j] => n = j
  /\ \A d \in Detectors : Cusums[d] \in ToSet(Cusums)
  /\ \A d \in Detectors : \E n \in Names : TxtFiles[n] = Cusums[d]
  <1>1. /\ Tests \in Seq([f : STRING, entropy : STRING]) /\ Tests # << >>
        /\ Cusums \in Seq(STRING) /\ Cusums # << >> /\ TxtFiles \in Seq(STRING)
    BY PipelineAssumption
  <1>2. /\ Len(Tests) \in Nat /\ Len(Cusums) \in Nat /\ Len(TxtFiles) \in Nat
        /\ DOMAIN Cusums = Detectors /\ DOMAIN TxtFiles = Names
    BY <1>1, LenProperties DEF Detectors, Names
  <1>3. Len(Tests) >= 1 /\ Len(Cusums) >= 1
    BY <1>1, EmptySeq
  <1> QED
    BY <1>2, <1>3, PipelineAssumption DEF IsInjective, ToSet

\* The first name that is listed.
LEMMA NextIs ==
  ASSUME NEW k, NEW kind, Listed(k, kind) # {}
  PROVE  \E m \in Names : /\ NextOf(k, kind) = TxtFiles[m]
                          /\ <<TxtFiles[m], kind>> \in root[k]
                          /\ \A j \in Names : j < m => <<TxtFiles[j], kind>> \notin root[k]
  <1> DEFINE L == Listed(k, kind)
  <1>1. L \subseteq Names /\ L \in SUBSET Nat
    BY ListFacts DEF Listed, Names
  <1>2. \E m \in L : \A j \in L : m <= j
    BY <1>1, SmallestElement
  <1>3. Min(L) \in L /\ \A j \in L : Min(L) <= j
    BY <1>2 DEF Min
  <1>4. \A j \in Names : j < Min(L) => j \notin L
    BY <1>1, <1>3
  <1> QED
    BY <1>1, <1>3, <1>4 DEF NextOf, Listed, Names

-------------------------------------------------------------------------------------
(* The steps of the shells.                                                          *)

\* A shell works in a directory where it was started, and changes nothing else.
LEMMA MoverFrame ==
  ASSUME FilesOK, NEW k \in TestIds, Mover(k)
  PROVE  /\ UNCHANGED driver /\ mover[k] # "none"
         /\ DOMAIN root' = Dirs /\ DOMAIN moved' = Dirs /\ DOMAIN mover' = Dirs
         /\ \A m \in Dirs \ {k} : root'[m] = root[m] /\ moved'[m] = moved[m]
                                  /\ mover'[m] = mover[m]
         /\ \A m \in Dirs : moved[m] \subseteq moved'[m]
  <1>1. CASE MakeEntropy(k)
    BY <1>1 DEF MakeEntropy, FilesOK
  <1>2. CASE NextCommand(k)
    BY <1>2 DEF NextCommand, FilesOK, Kinds
  <1>3. ASSUME NEW kind \in Kinds, MoveFile(k, kind)
        PROVE  /\ UNCHANGED driver /\ mover[k] # "none"
               /\ DOMAIN root' = Dirs /\ DOMAIN moved' = Dirs /\ DOMAIN mover' = Dirs
               /\ \A m \in Dirs \ {k} : root'[m] = root[m] /\ moved'[m] = moved[m]
                                        /\ mover'[m] = mover[m]
               /\ \A m \in Dirs : moved[m] \subseteq moved'[m]
    BY <1>3 DEF MoveFile, FilesOK, Kinds
  <1> QED
    BY <1>1, <1>2, <1>3 DEF Mover

\* The two places of the files in directory k, when one of them moves or none does.
LEMMA MoverFiles ==
  ASSUME FilesOK, NEW k \in TestIds, Mover(k)
  PROVE  FilesOK'
  <1>1. /\ DOMAIN root' = Dirs /\ DOMAIN moved' = Dirs /\ DOMAIN mover' = Dirs
        /\ \A m \in TestIds \ {k} : root'[m] = root[m] /\ moved'[m] = moved[m]
    BY MoverFrame DEF Dirs
  <1>2. ASSUME root'[k] \cup moved'[k] = root[k] \cup moved[k],
               \A n, j \in Names : j <= n /\ <<TxtFiles[n], "txt">> \in moved'[k]
                                     => <<TxtFiles[j], "txt">> \in moved'[k]
        PROVE  FilesOK'
    BY <1>1, <1>2 DEF FilesOK
  <1>3. CASE MakeEntropy(k) \/ NextCommand(k)
    <2>1. root' = root /\ moved' = moved
      BY <1>3 DEF MakeEntropy, NextCommand
    <2> QED
      BY <1>2, <2>1 DEF FilesOK
  <1>4. ASSUME NEW kind \in Kinds, MoveFile(k, kind)
        PROVE  FilesOK'
    <2>1. PICK m \in Names : /\ NextOf(k, kind) = TxtFiles[m]
                             /\ <<TxtFiles[m], kind>> \in root[k]
                             /\ \A j \in Names : j < m => <<TxtFiles[j], kind>> \notin root[k]
      BY <1>4, NextIs DEF MoveFile
    <2>2. /\ root'[k] = root[k] \ {<<TxtFiles[m], kind>>}
          /\ moved'[k] = moved[k] \cup {<<TxtFiles[m], kind>>}
      BY <1>4, <2>1 DEF MoveFile, FilesOK, Dirs
    <2>3. root'[k] \cup moved'[k] = root[k] \cup moved[k]
      BY <2>1, <2>2
    <2>4. ASSUME NEW n \in Names, NEW j \in Names, j <= n, <<TxtFiles[n], "txt">> \in moved'[k]
          PROVE  <<TxtFiles[j], "txt">> \in moved'[k]
      <3>1. CASE <<TxtFiles[n], "txt">> \in moved[k]
        BY <2>2, <2>4, <3>1 DEF FilesOK
      <3>2. CASE <<TxtFiles[n], "txt">> \notin moved[k]
        <4>1. kind = "txt" /\ TxtFiles[n] = TxtFiles[m]
          BY <2>2, <2>4, <3>2
        <4>2. n = m
          BY <4>1, ListFacts
        <4>3. CASE j = n
          BY <2>4, <4>3
        <4>4. CASE j # n
          <5>1. j < m
            BY <2>4, <4>2, <4>4, ListFacts DEF Names
          <5>2. <<TxtFiles[j], "txt">> \notin root[k] /\ <<TxtFiles[m], "txt">> \in root[k]
            BY <2>1, <4>1, <5>1
          <5> QED
            BY <2>2, <5>2 DEF FilesOK
        <4> QED
          BY <4>3, <4>4
      <3> QED
        BY <3>1, <3>2
    <2> QED
      BY <1>2, <2>3, <2>4
  <1> QED
    BY <1>3, <1>4 DEF Mover

LEMMA MoverStep ==
  ASSUME PipelineInv, NEW k \in TestIds, Mover(k)
  PROVE  PipelineInv'
  <1>1. /\ UNCHANGED driver /\ mover[k] # "none"
        /\ \A m \in TestIds \ {k} : root'[m] = root[m] /\ moved'[m] = moved[m]
                                    /\ mover'[m] = mover[m]
        /\ \A m \in TestIds : moved[m] \subseteq moved'[m]
    BY MoverFrame DEF PipelineInv, Dirs
  <1>2. DriverOK'
    BY <1>1 DEF PipelineInv, DriverOK
  <1>3. FreshOK'
    BY <1>1 DEF PipelineInv, FreshOK, Fresh
  <1>4. FilesOK'
    BY MoverFiles DEF PipelineInv
  <1>5. ReadOK'
    BY <1>1 DEF PipelineInv, ReadOK, Ahead
  <1> QED
    BY <1>2, <1>3, <1>4, <1>5 DEF PipelineInv

-------------------------------------------------------------------------------------
(* The steps of the driver.                                                          *)

LEMMA DriverPlace ==
  ASSUME PipelineInv, Driver
  PROVE  DriverOK'
  <1> USE ListFacts DEF PipelineInv, DriverOK, Starting, Working, Detecting, TestIds, Detectors
  <1>1. CASE Make
    BY <1>1 DEF Make
  <1>2. CASE Clean
    BY <1>2 DEF Clean
  <1>3. CASE Prepare
    BY <1>3 DEF Prepare
  <1>4. CASE Analyse
    BY <1>4 DEF Analyse
  <1>5. CASE Plot
    BY <1>5 DEF Plot
  <1>6. CASE StartMover
    BY <1>6 DEF StartMover
  <1>7. CASE MakeData
    BY <1>7 DEF MakeData
  <1>8. CASE Detect
    BY <1>8 DEF Detect
  <1>9. CASE SaveData
    BY <1>9 DEF SaveData
  <1>10. CASE MakeDirs
    BY <1>10 DEF MakeDirs
  <1>11. CASE Archive
    <2>1. archive' = [archive EXCEPT ![test] = output] /\ test' = test + 1
          /\ output = test /\ test \in TestIds
      BY <1>11 DEF Archive
    <2>2. DOMAIN archive' = TestIds /\ \A k \in TestIds : k < test' => archive'[k] = k
      BY <2>1
    <2>3. pc' = IF test < Len(Tests) THEN "prepare" ELSE "done"
      BY <1>11 DEF Archive
    <2> QED
      BY <1>11, <2>1, <2>2, <2>3 DEF Archive
  <1> QED
    BY <1>1, <1>2, <1>3, <1>4, <1>5, <1>6, <1>7, <1>8, <1>9, <1>10, <1>11 DEF Driver

\* What a step of the driver does to the files: the analyser writes all the names or none
\* into a directory that is new, and the plots are of another kind.
LEMMA DriverFiles ==
  ASSUME PipelineInv, Driver
  PROVE  FilesOK' /\ moved' = moved
  <1>0. DOMAIN root = Dirs /\ DOMAIN moved = Dirs /\ DOMAIN mover = Dirs
    BY DEF PipelineInv, FilesOK
  <1>1. ASSUME root' = root, moved' = moved, DOMAIN mover' = Dirs
        PROVE  FilesOK'
    BY <1>1 DEF FilesOK, PipelineInv
  <1>2. CASE Analyse
    <2>1. output' = test /\ test \in TestIds /\ Fresh(test)
      BY <1>2 DEF Analyse, PipelineInv, DriverOK, Starting, Fresh
    <2>2. root[test] = {} /\ moved[test] = {}
      BY <2>1 DEF PipelineInv, FreshOK
    <2>3. PICK written \in {{}, ToSet(TxtFiles)} :
            root' = [root EXCEPT ![test] = root[test] \cup (written \X {"txt"})]
      BY <1>2, <2>1 DEF Analyse
    <2>4. /\ moved' = moved /\ mover' = mover /\ DOMAIN root' = Dirs
          /\ root'[test] = written \X {"txt"}
          /\ \A k \in TestIds \ {test} : root'[k] = root[k]
      BY <1>0, <1>2, <2>1, <2>2, <2>3 DEF Analyse, Dirs
    <2>5. \A n \in Names : TxtFiles[n] \in ToSet(TxtFiles)
      BY PipelineAssumption, LenProperties DEF ToSet, Names
    <2>6. \A n, j \in Names : <<TxtFiles[n], "txt">> \in root'[test]
                                => <<TxtFiles[j], "txt">> \in root'[test]
      BY <2>4, <2>5
    <2> QED
      BY <1>0, <2>2, <2>4, <2>6 DEF FilesOK, PipelineInv
  <1>3. CASE Plot
    <2>1. output \in Dirs /\ moved' = moved /\ mover' = mover
      BY <1>3 DEF Plot, PipelineInv, DriverOK, Working, Dirs
    <2>2. PICK plotted : root' = [root EXCEPT ![output] = root[output] \cup (plotted \X {"png"})]
      BY <1>3 DEF Plot
    <2>3. DOMAIN root' = Dirs
          /\ \A k \in Dirs : \A x : <<x, "txt">> \in root'[k] <=> <<x, "txt">> \in root[k]
      BY <1>0, <2>1, <2>2
    <2> QED
      BY <1>0, <2>1, <2>3 DEF FilesOK, PipelineInv, Dirs
  <1>4. CASE StartMover
    BY <1>0, <1>1, <1>4 DEF StartMover
  <1>5. CASE Driver /\ ~Analyse /\ ~Plot /\ ~StartMover
    <2>1. root' = root /\ moved' = moved /\ mover' = mover
      BY <1>5 DEF Driver, Make, Clean, Prepare, MakeData, Detect, SaveData, MakeDirs, Archive
    <2> QED
      BY <1>0, <1>1, <2>1
  <1>6. moved' = moved
    BY DEF Driver, Make, Clean, Prepare, Analyse, Plot, StartMover, MakeData, Detect,
           SaveData, MakeDirs, Archive
  <1> QED
    BY <1>2, <1>3, <1>4, <1>5, <1>6

\* A test that has not begun yet stays as it is.
LEMMA DriverFresh ==
  ASSUME PipelineInv, Driver
  PROVE  FreshOK'
  <1> SUFFICES ASSUME NEW k \in TestIds, Fresh(k)'
               PROVE  /\ root'[k] = {} /\ moved'[k] = {} /\ mover'[k] = "none"
                      /\ \A d \in Detectors : read'[k][Cusums[d]] = "none"
    BY DEF FreshOK
  <1>1. test \in Nat /\ k \in Nat /\ k \in Dirs /\ k >= 1
    BY ListFacts DEF PipelineInv, DriverOK, TestIds, Dirs
  <1>2. Fresh(k)
    <2> USE DEF PipelineInv, DriverOK, Starting, Working, Fresh
    <2>1. CASE test' = test
      BY <1>1, <2>1 DEF Driver, Make, Clean, Prepare, Analyse, Plot, StartMover, MakeData,
             Detect, SaveData, MakeDirs, Archive
    <2>2. CASE test' # test
      <3>1. Clean \/ Archive
        BY <2>2 DEF Driver, Make, Prepare, Analyse, Plot, StartMover, MakeData, Detect,
               SaveData, MakeDirs
      <3> QED
        BY <1>1, <3>1 DEF Clean, Archive
    <2> QED
      BY <2>1, <2>2
  <1>3. /\ root[k] = {} /\ moved[k] = {} /\ mover[k] = "none"
        /\ \A d \in Detectors : read[k][Cusums[d]] = "none"
    BY <1>2 DEF PipelineInv, FreshOK
  <1>4. moved' = moved
    BY DriverFiles
  <1>5. CASE Analyse \/ Plot \/ StartMover \/ Detect
    <2>1. k # test /\ output' = test
      BY <1>1, <1>5 DEF Analyse, Plot, StartMover, Detect, Fresh, Starting, PipelineInv,
                        DriverOK, Working
    <2>2. root'[k] = root[k] /\ mover'[k] = mover[k] /\ read'[k] = read[k]
      <3>1. DOMAIN root = Dirs /\ DOMAIN mover = Dirs /\ DOMAIN read = TestIds
        BY DEF PipelineInv, FilesOK, ReadOK
      <3>2. CASE Analyse
        BY <1>1, <2>1, <3>1, <3>2 DEF Analyse
      <3>3. output = test \/ Analyse
        BY <1>5, <2>1 DEF Plot, StartMover, Detect
      <3>4. CASE Plot
        BY <1>1, <2>1, <3>1, <3>3, <3>4 DEF Plot
      <3>5. CASE StartMover
        BY <1>1, <2>1, <3>1, <3>3, <3>5 DEF StartMover
      <3>6. CASE Detect
        BY <1>1, <2>1, <3>1, <3>3, <3>6 DEF Detect
      <3> QED
        BY <1>5, <3>2, <3>4, <3>5, <3>6
    <2> QED
      BY <1>3, <1>4, <2>2
  <1>6. CASE Driver /\ ~(Analyse \/ Plot \/ StartMover \/ Detect)
    <2>1. root' = root /\ mover' = mover /\ read' = read
      BY <1>6 DEF Driver, Make, Clean, Prepare, MakeData, SaveData, MakeDirs, Archive
    <2> QED
      BY <1>3, <1>4, <2>1
  <1> QED
    BY <1>5, <1>6

\* A detector that has read its file found it where the shell moves it.
LEMMA DriverRead ==
  ASSUME PipelineInv, Driver
  PROVE  ReadOK'
  <1>0. moved' = moved /\ DOMAIN read = TestIds
        /\ \A k \in TestIds : DOMAIN read[k] = ToSet(Cusums)
    BY DriverFiles DEF PipelineInv, ReadOK
  <1>1. CASE Detect
    <2>1. /\ test \in TestIds /\ det \in Detectors /\ output = test
          /\ test' = test /\ det' = det /\ pc' = "save" /\ pc = "detect"
      BY <1>1 DEF Detect, PipelineInv, DriverOK, Working, Detecting
    <2> DEFINE found == IF <<Cusums[det], "txt">> \in moved[test] THEN "read" ELSE "absent"
    <2>2. read' = [read EXCEPT ![test][Cusums[det]] = found]
      BY <1>1, <2>1 DEF Detect
    <2>3. found = "read" => <<Cusums[det], "txt">> \in moved[test]
      OBVIOUS
    <2> HIDE DEF found
    <2>4. /\ DOMAIN read' = TestIds
          /\ \A k \in TestIds : DOMAIN read'[k] = ToSet(Cusums)
          /\ \A k \in TestIds \ {test} : read'[k] = read[k]
          /\ \A c \in ToSet(Cusums) : read'[test][c] = IF c
               = Cusums[det] THEN found ELSE read[test][c]
      BY <1>0, <2>1, <2>2
    <2>5. \A k \in TestIds : \A d \in Detectors :
            read'[k][Cusums[d]] = "read" => <<Cusums[d], "txt">> \in moved'[k]
      BY <1>0, <2>3, <2>4, ListFacts DEF PipelineInv, ReadOK
    <2>6. ASSUME NEW d \in Detectors, Ahead(d)'
          PROVE  read'[test][Cusums[d]] = "none"
      <3>1. d > det /\ d \in Nat /\ det \in Nat
        BY <2>1, <2>6, ListFacts DEF Ahead, Detectors
      <3>2. Ahead(d) /\ d # det
        BY <2>1, <3>1 DEF Ahead
      <3>3. Cusums[d] # Cusums[det] /\ Cusums[d] \in ToSet(Cusums)
        BY <2>1, <3>2, ListFacts
      <3> QED
        BY <2>1, <2>4, <3>2, <3>3 DEF PipelineInv, ReadOK
    <2> QED
      BY <2>1, <2>4, <2>5, <2>6 DEF ReadOK
  <1>2. CASE ~Detect
    <2>1. read' = read
      BY <1>2 DEF Driver, Make, Clean, Prepare, Analyse, Plot, StartMover, MakeData,
                  SaveData, MakeDirs, Archive
    <2>2. ASSUME test' \in TestIds, NEW d \in Detectors, Ahead(d)'
          PROVE  read[test'][Cusums[d]] = "none"
      <3> USE DEF PipelineInv, DriverOK, Starting, Working, Detecting
      <3>1. d \in Nat /\ d >= 1 /\ det \in Nat
        BY ListFacts DEF Detectors
      <3>2. test' = test \/ pc' \in Starting \cup {"done"}
        BY DEF Driver, Make, Clean, Prepare, Analyse, Plot, StartMover, MakeData, Detect,
               SaveData, MakeDirs, Archive
      <3>3. test' = test
        BY <2>2, <3>2 DEF Ahead
      <3>4. Fresh(test) \/ Ahead(d)
        <4>1. CASE Analyse \/ Plot
          BY <4>1 DEF Analyse, Plot, Fresh, Ahead
        <4>2. CASE StartMover
          BY <4>2 DEF StartMover, Ahead
        <4>3. CASE MakeData
          BY <2>2, <4>3 DEF MakeData, Ahead
        <4>4. CASE SaveData
          BY <2>2, <3>1, <4>4 DEF SaveData, Ahead
        <4>5. CASE Make \/ Clean \/ Prepare \/ MakeDirs \/ Archive
          BY <2>2, <4>5 DEF Make, Clean, Prepare, MakeDirs, Archive, Ahead
        <4> QED
          BY <1>2, <4>1, <4>2, <4>3, <4>4, <4>5 DEF Driver
      <3> QED
        BY <2>2, <3>3, <3>4 DEF FreshOK, ReadOK
    <2> QED
      BY <1>0, <2>1, <2>2 DEF PipelineInv, ReadOK
  <1> QED
    BY <1>1, <1>2

-------------------------------------------------------------------------------------
(* The theorems.                                                                     *)

LEMMA PipelineInit == Init => PipelineInv
  <1> SUFFICES ASSUME Init PROVE PipelineInv
    OBVIOUS
  <1>1. \A k \in TestIds : k \in Nat /\ k > 0 /\ k \in Dirs
    BY ListFacts DEF TestIds, Dirs
  <1>2. DriverOK
    BY <1>1 DEF Init, DriverOK, Starting, Working, Detecting
  <1>3. FreshOK
    BY <1>1, ListFacts DEF Init, FreshOK
  <1>4. FilesOK
    BY <1>1 DEF Init, FilesOK
  <1>5. ReadOK
    <2>1. 0 \notin TestIds
      BY <1>1
    <2> QED
      BY <2>1, ListFacts DEF Init, ReadOK
  <1> QED
    BY <1>2, <1>3, <1>4, <1>5 DEF PipelineInv

LEMMA PipelineInvariant == Spec => []PipelineInv
  <1>1. PipelineInv /\ [Next]_pipeVars => PipelineInv'
    <2> SUFFICES ASSUME PipelineInv, [Next]_pipeVars
                 PROVE  PipelineInv'
      OBVIOUS
    <2>1. CASE Driver
      BY <2>1, DriverPlace, DriverFiles, DriverFresh, DriverRead DEF PipelineInv
    <2>2. ASSUME NEW k \in TestIds, Mover(k)
          PROVE  PipelineInv'
      BY <2>2, MoverStep
    <2>3. CASE UNCHANGED pipeVars
      BY <2>3 DEF PipelineInv, DriverOK, FreshOK, Fresh, FilesOK, ReadOK, Ahead
    <2> QED
      BY <2>1, <2>2, <2>3 DEF Next
  <1> QED
    BY <1>1, PipelineInit, PTL DEF Spec

\* Every test that the driver has left behind is archived in a directory of its own, which
\* holds every file that the detectors have read for it.
THEOREM TestsAreArchived == Spec => []EarlierArchived
  <1>1. ASSUME PipelineInv
        PROVE  EarlierArchived
    <2>1. \A k \in TestIds : k < test => archive[k] = k
      BY <1>1 DEF PipelineInv, DriverOK
    <2>2. \A c \in ToSet(Cusums) : \E d \in Detectors : c = Cusums[d]
      BY DEF ToSet, Detectors
    <2>3. \A k \in TestIds : \A c \in ToSet(Cusums) :
            read[k][c] = "read" => <<c, "txt">> \in moved[k]
      BY <1>1, <2>2 DEF PipelineInv, ReadOK
    <2> QED
      BY <2>1, <2>3 DEF EarlierArchived
  <1> QED
    BY <1>1, PipelineInvariant, PTL

\* Where a name is in the order of the shell.
LEMMA PlaceIs ==
  ASSUME NEW d \in Detectors
  PROVE  Place(Cusums[d]) \in Names /\ TxtFiles[Place(Cusums[d])] = Cusums[d]
  BY ListFacts DEF Place, Names

\* Once a detector has found its file, those that run after it find theirs, if the shell
\* moves theirs before: whatever the shells and the driver do in between.
THEOREM DetectorsFollow == Spec => []LaterDetectorsFollow
  <1>1. Init => LaterDetectorsFollow
    BY ListFacts DEF Init, LaterDetectorsFollow, Detectors
  <1>2. PipelineInv /\ LaterDetectorsFollow /\ [Next]_pipeVars => LaterDetectorsFollow'
    <2> SUFFICES ASSUME PipelineInv, LaterDetectorsFollow, [Next]_pipeVars,
                        NEW k \in TestIds, NEW n \in Detectors, NEW j \in Detectors, n < j,
                        read'[k][Cusums[n]] = "read", Place(Cusums[j]) < Place(Cusums[n])
                 PROVE  read'[k][Cusums[j]] # "absent"
      <3>1. \A n \in Detectors : \A j \in n + 1 .. Len(Cusums) : j \in Detectors /\ n < j
        BY ListFacts DEF Detectors
      <3> QED
        BY <3>1 DEF LaterDetectorsFollow, Detectors
    <2>1. CASE read' = read
      <3>1. j \in n + 1 .. Len(Cusums) /\ n \in 1 .. Len(Cusums)
        BY ListFacts DEF Detectors
      <3> QED
        BY <2>1, <3>1 DEF LaterDetectorsFollow
    <2>2. CASE Detect
      <3>1. /\ test \in TestIds /\ det \in Detectors /\ output = test /\ pc = "detect"
            /\ DOMAIN read = TestIds /\ \A m \in TestIds : DOMAIN read[m] = ToSet(Cusums)
        BY <2>2 DEF Detect, PipelineInv, DriverOK, Working, Detecting, ReadOK
      <3> DEFINE found == IF <<Cusums[det], "txt">> \in moved[test] THEN "read" ELSE "absent"
      <3>2. read' = [read EXCEPT ![test][Cusums[det]] = found]
        BY <2>2, <3>1 DEF Detect
      <3>3. \A m \in TestIds : \A d \in Detectors :
              read'[m][Cusums[d]] = IF m = test /\ d = det THEN found ELSE read[m][Cusums[d]]
        <4> HIDE DEF found
        <4> QED
          BY <3>1, <3>2, ListFacts
      <3>4. CASE k = test /\ j = det
        <4>1. read'[k][Cusums[n]] = read[k][Cusums[n]] /\ n # det
          BY <3>3, <3>4, ListFacts DEF Detectors
        <4>2. <<Cusums[n], "txt">> \in moved[k]
          BY <4>1 DEF PipelineInv, ReadOK
        <4>3. <<Cusums[j], "txt">> \in moved[k]
          <5>1. \A p, q \in Names : q < p => q <= p
            BY ListFacts DEF Names
          <5> QED
            BY <4>2, <5>1, PlaceIs DEF PipelineInv, FilesOK
        <4> QED
          BY <3>3, <3>4, <4>3
      <3>5. CASE k = test /\ n = det
        <4>1. Ahead(j) /\ j # det
          BY <3>1, <3>5, ListFacts DEF Ahead, Detectors
        <4> QED
          BY <3>1, <3>3, <3>5, <4>1 DEF PipelineInv, ReadOK
      <3>6. CASE k # test \/ (n # det /\ j # det)
        <4>1. j \in n + 1 .. Len(Cusums) /\ n \in 1 .. Len(Cusums)
          BY ListFacts DEF Detectors
        <4> QED
          BY <3>3, <3>6, <4>1 DEF LaterDetectorsFollow
      <3> QED
        BY <3>4, <3>5, <3>6
    <2>3. Detect \/ read' = read
      BY DEF Next, Driver, Make, Clean, Prepare, Analyse, Plot, StartMover, MakeData,
             SaveData, MakeDirs, Archive, Mover, MakeEntropy, NextCommand, MoveFile
    <2> QED
      BY <2>1, <2>2, <2>3
  <1> QED
    BY <1>1, <1>2, PipelineInvariant, PTL DEF Spec

-------------------------------------------------------------------------------------
(* The detectors that the driver starts: what is proved of Sweep, for every detector,  *)
(* every file of attacks and either script.                                           *)

USE DEF sweepVars, inputs, results

-------------------------------------------------------------------------------------
(* Numbers.                                                                          *)

\* Rounding down a quotient.
LEMMA BelowQuotient ==
  ASSUME NEW x \in Int, NEW c \in Nat \ {0}, NEW n \in Int
  PROVE  x \div c \in Int /\ (n <= x \div c <=> c * n <= x)
  <1> DEFINE q == x \div c
  <1>1. q \in Int /\ c * q <= x /\ x < c * q + c
    BY Z3
  <1> HIDE DEF q
  <1>2. n <= q => c * n <= c * q
    BY <1>1, Z3
  <1>3. n >= q + 1 => c * n >= c * (q + 1)
    BY <1>1, Z3
  <1>4. c * (q + 1) = c * q + c
    BY <1>1, Z3
  <1>5. c * n \in Int /\ c * q \in Int /\ c * (q + 1) \in Int
    BY <1>1
  <1>6. CASE n <= q
    BY <1>1, <1>2, <1>5, <1>6 DEF q
  <1>7. CASE n >= q + 1
    BY <1>1, <1>3, <1>4, <1>5, <1>7 DEF q
  <1> QED
    BY <1>1, <1>6, <1>7

LEMMA MinIs ==
  ASSUME NEW S \in SUBSET Nat, S # {}
  PROVE  Min(S) \in S /\ \A n \in S : Min(S) <= n
  <1>1. \E k \in S : \A n \in S : k <= n
    BY SmallestElement
  <1> QED
    BY <1>1 DEF Min

LEMMA LeastIs ==
  ASSUME NEW S \in SUBSET Int, NEW x \in S, \A n \in S : x <= n
  PROVE  Min(S) = x
  <1>1. \A y \in S : (\A n \in S : y <= n) => y = x
    BY SMT
  <1> QED
    BY <1>1 DEF Min

LEMMA MaxIs ==
  ASSUME NEW bound \in Nat, NEW S \in SUBSET (0 .. bound), S # {}
  PROVE  Max(S) \in S /\ \A n \in S : Max(S) >= n
  <1> DEFINE R == {bound - n : n \in S}
  <1>1. R \in SUBSET Nat /\ R # {}
    <2>1. \A n \in S : bound - n \in Nat
      OBVIOUS
    <2> QED
      BY <2>1
  <1>2. PICK r \in R : \A x \in R : r <= x
    BY <1>1, SmallestElement
  <1>3. PICK k \in S : r = bound - k
    BY <1>2
  <1>4. \A n \in S : bound - k <= bound - n
    BY <1>2, <1>3
  <1>5. \A n \in S : k >= n
    BY <1>4
  <1> QED
    BY <1>5 DEF Max

-------------------------------------------------------------------------------------
(* The attacks and the samples that are searched.                                    *)

InputOK ==
  /\ script \in {"i3", "i5"}
  /\ level \in [1 .. Samples -> 0 .. Thresholds]
  /\ attacks \in AttackTimes

LEMMA AttackFacts ==
  ASSUME InputOK
  PROVE  /\ Len(attacks) \in Nat \ {0} /\ numAttacks \in Nat \ {0}
         /\ \A k \in 1 .. Len(attacks) : /\ attacks[k].start \in Nat
                                         /\ attacks[k].end \in Nat
                                         /\ attacks[k].start < attacks[k].end
         /\ \A k \in 1 .. Len(attacks) - 1 : attacks[k].end <= attacks[k + 1].start
         /\ TicksPerSecond \in Nat \ {0} /\ Subintervals \in Nat \ {0}
         /\ Samples \in Nat \ {0} /\ Thresholds \in Nat \ {0}
         /\ ~NoAttack(1) \/ numAttacks > 1
  <1>1. attacks \in Seq([start : Nat, end : Nat]) /\ attacks # << >>
    BY SweepAssumption DEF InputOK
  <1>2. Len(attacks) \in Nat \ {0}
    BY <1>1, EmptySeq, LenProperties
  <1>3. \A k \in 1 .. Len(attacks) : attacks[k] \in [start : Nat, end : Nat]
    BY <1>1, ElementOfSeq
  <1>4. numAttacks \in Nat \ {0}
    BY <1>2, SweepAssumption DEF numAttacks
  <1>5. /\ \A k \in 1 .. Len(attacks) : attacks[k].start < attacks[k].end
        /\ \A k \in 1 .. Len(attacks) - 1 : attacks[k].end <= attacks[k + 1].start
    BY SweepAssumption DEF InputOK
  <1>6. ~NoAttack(1) \/ numAttacks > 1
    BY <1>2, <1>4 DEF NoAttack
  <1> QED
    BY <1>2, <1>3, <1>4, <1>5, <1>6, SweepAssumption

\* The first hit is in the range, and there is one before the end of the samples exactly
\* when some sample is a detection.
LEMMA FirstHitFacts ==
  ASSUME InputOK, th \in Nat, NEW R \in SUBSET (Nat \ {0})
  PROVE  /\ FirstHit(R) \in Nat
         /\ FirstHit(R) > 0 => FirstHit(R) \in R
         /\ FirstHit(R) <= Samples =>
              (FirstHit(R) > 0 <=> \E n \in R \cap (1 .. Samples) : level[n] >= th + 1)
         /\ FirstHit(R) > 0 /\ FirstHit(R) <= Samples => level[FirstHit(R)] >= th + 1
         /\ FirstHit(R) > 0 =>
              \A n \in R \cap (1 .. Samples) : level[n] >= th + 1 => FirstHit(R) <= n
  <1> DEFINE hits == {n \in R : n > Samples \/ Detected(n)}
  <1>0. Samples \in Nat \ {0}
    BY AttackFacts
  <1>1. FirstHit(R) = IF hits = {} THEN 0 ELSE Min(hits)
    BY DEF FirstHit
  <1>2. \A n \in 1 .. Samples : Detected(n) <=> level[n] >= th + 1
    <2>1. \A n \in 1 .. Samples : level[n] \in Int
      BY AttackFacts DEF InputOK
    <2> QED
      BY <2>1 DEF Detected
  <1>3. CASE hits = {}
    <2>1. ~ \E n \in R \cap (1 .. Samples) : level[n] >= th + 1
      BY <1>2, <1>3
    <2> QED
      BY <1>0, <1>1, <1>3, <2>1
  <1>4. CASE hits # {}
    <2>1. hits \in SUBSET Nat
      OBVIOUS
    <2> DEFINE h == FirstHit(R)
    <2>2. h \in hits /\ \A n \in hits : h <= n
      <3> HIDE DEF hits
      <3>1. Min(hits) \in hits /\ \A n \in hits : Min(hits) <= n
        BY <1>4, <2>1, MinIs
      <3>2. h = Min(hits)
        BY <1>1, <1>4
      <3> HIDE DEF h
      <3> QED
        BY <3>1, <3>2
    <2>3. h \in R /\ h \in Nat \ {0} /\ (h > Samples \/ Detected(h))
      BY <2>2
    <2> HIDE DEF h
    <2>4. h <= Samples => h \in 1 .. Samples /\ level[h] >= th + 1
      BY <1>0, <1>2, <2>3
    <2>5. \A n \in R \cap (1 .. Samples) : level[n] >= th + 1 => h <= n
      BY <1>2, <2>2
    <2> QED
      BY <2>3, <2>4, <2>5 DEF h
  <1> QED
    BY <1>3, <1>4

\* The bounds of an attack that is in the file.
LEMMA BoundFacts ==
  ASSUME InputOK, NEW m \in 1 .. numAttacks, ~NoAttack(m)
  PROVE  /\ m \in 1 .. Len(attacks) /\ (m < numAttacks => m + 1 \in 1 .. Len(attacks))
         /\ attacks[m].start \in Nat /\ attacks[m].end \in Nat
         /\ m < numAttacks => attacks[m + 1].start \in Nat
         /\ a(m) \in Nat /\ NextStart(m) \in Nat
         /\ \A n \in Int : n <= a(m) <=> n * TicksPerSecond <= attacks[m].start * Subintervals
         /\ m < numAttacks => \A n \in Int :
              n <= NextStart(m) <=> n * TicksPerSecond <= attacks[m + 1].start * Subintervals
         /\ m = numAttacks => NextStart(m) = Samples
  <1>1. m \in 1 .. Len(attacks) /\ (m < numAttacks => m + 1 \in 1 .. Len(attacks))
    BY AttackFacts DEF NoAttack
  <1>2. TicksPerSecond \in Nat \ {0} /\ Subintervals \in Nat \ {0} /\ Samples \in Nat
    BY AttackFacts
  <1>3. attacks[m].start \in Nat /\ attacks[m].end \in Nat
        /\ (m < numAttacks => attacks[m + 1].start \in Nat)
    BY <1>1, AttackFacts
  <1>4. ASSUME NEW t \in Nat
        PROVE  /\ Sample(t) \in Nat
               /\ \A n \in Int : n <= Sample(t) <=> n * TicksPerSecond <= t * Subintervals
    <2> DEFINE x == t * Subintervals
    <2>1. x \in Nat
      BY <1>2
    <2> HIDE DEF x
    <2>2. \A n \in Int : /\ x \div TicksPerSecond \in Int
                         /\ n <= x \div TicksPerSecond <=> TicksPerSecond * n <= x
      BY <1>2, <2>1, BelowQuotient
    <2>3. \A n \in Int : TicksPerSecond * n = n * TicksPerSecond
      BY <1>2
    <2>4. 0 <= x \div TicksPerSecond /\ x \div TicksPerSecond \in Int
      BY <1>2, <2>1, <2>2
    <2>5. \A n \in Int : n <= x \div TicksPerSecond <=> n * TicksPerSecond <= x
      BY <2>2, <2>3
    <2> QED
      BY <2>4, <2>5 DEF x, Sample
  <1>5. /\ a(m) \in Nat
        /\ \A n \in Int : n <= a(m) <=> n * TicksPerSecond <= attacks[m].start * Subintervals
    BY <1>3, <1>4 DEF a
  <1>6. ASSUME m < numAttacks
        PROVE  /\ NextStart(m) \in Nat
               /\ \A n \in Int : n <= NextStart(m)
                                 <=> n * TicksPerSecond <= attacks[m + 1].start * Subintervals
    <2>1. NextStart(m) = Sample(attacks[m + 1].start)
      BY <1>6 DEF NextStart
    <2> QED
      BY <1>3, <1>4, <1>6, <2>1
  <1>7. ASSUME ~(m < numAttacks)
        PROVE  NextStart(m) = Samples
    BY <1>7 DEF NextStart
  <1>8. m < numAttacks \/ m = numAttacks
    BY AttackFacts
  <1>9. numAttacks \in Nat /\ (m = numAttacks => ~(m < numAttacks))
    BY AttackFacts
  <1> QED
    BY <1>1, <1>2, <1>3, <1>5, <1>6, <1>7, <1>8, <1>9

LEMMA EndFacts ==
  ASSUME InputOK, NEW m \in 1 .. numAttacks, ~NoAttack(m)
  PROVE  /\ b1(m) \in Nat
         /\ \A n \in Int : n <= b1(m) <=> ~Over(n, m)
  <1>0. /\ TicksPerSecond \in Nat \ {0} /\ Subintervals \in Nat \ {0}
        /\ attacks[m].end \in Nat /\ a(m) \in Nat /\ NextStart(m) \in Nat
    BY AttackFacts, BoundFacts
  <1>1. CASE script = "i3"
    <2> DEFINE x == attacks[m].end * Subintervals
    <2>1. b1(m) = x \div TicksPerSecond
      BY <1>1 DEF b1, Sample
    <2>2. x \in Nat
      BY <1>0
    <2>3. \A n \in Int : n * TicksPerSecond \in Int /\ n * TicksPerSecond = TicksPerSecond * n
      BY <1>0
    <2>4. \A n \in Int : ~Over(n, m) <=> ~(n * TicksPerSecond > x)
      BY <1>1 DEF Over
    <2> HIDE DEF x
    <2>5. \A n \in Int : ~Over(n, m) <=> TicksPerSecond * n <= x
      BY <2>2, <2>3, <2>4
    <2>6. \A n \in Int : /\ x \div TicksPerSecond \in Int
                         /\ n <= x \div TicksPerSecond <=> TicksPerSecond * n <= x
      BY <1>0, <2>2, BelowQuotient
    <2>7. 0 <= x \div TicksPerSecond /\ x \div TicksPerSecond \in Int
      BY <1>0, <2>2, <2>6
    <2> QED
      BY <2>1, <2>5, <2>6, <2>7
  <1>2. CASE script # "i3"
    <2> DEFINE x == 9 * (NextStart(m) - a(m))
    <2>1. x \in Int
      BY <1>0
    <2>2. b1(m) = a(m) + (x \div 10)
      BY <1>2 DEF b1, NineTenths, b
    <2>3. \A n \in Int : Over(n, m) <=> 10 * (n - a(m)) > x
      BY <1>2 DEF Over
    <2>4. 10 * (0 - a(m)) <= x
      BY <1>0
    <2> HIDE DEF x
    <2>5. \A n \in Int : x \div 10 \in Int /\ (n <= x \div 10 <=> 10 * n <= x)
      BY <2>1, BelowQuotient
    <2>6. 0 - a(m) <= x \div 10
      BY <1>0, <2>4, <2>5
    <2>7. \A n \in Int : n - a(m) \in Int /\ (n <= b1(m) <=> n - a(m) <= x \div 10)
      BY <1>0, <2>2, <2>5
    <2>8. \A n \in Int : n <= b1(m) <=> 10 * (n - a(m)) <= x
      BY <2>5, <2>7
    <2>9. \A n \in Int : 10 * (n - a(m)) <= x <=> ~(10 * (n - a(m)) > x)
      BY <1>0, <2>1
    <2> QED
      BY <1>0, <2>2, <2>3, <2>5, <2>6, <2>8, <2>9
  <1> QED
    BY <1>1, <1>2

\* The end of the quiet samples behind an attack.
LEMMA QuietFacts ==
  ASSUME InputOK, NEW m \in 1 .. numAttacks, ~NoAttack(m)
  PROVE  /\ b(m) \in Nat
         /\ \A n \in 1 .. Samples :
              n <= b(m) - 1 <=>
                /\ n < Samples \/ (script = "i5" /\ m < numAttacks)
                /\ m < numAttacks =>
                     (n + 1) * TicksPerSecond <= attacks[m + 1].start * Subintervals
  <1> DEFINE N == NextStart(m)
  <1>1. Samples \in Nat /\ N \in Nat /\ (m = numAttacks => N = Samples)
        /\ m \in Nat /\ numAttacks \in Nat /\ m <= numAttacks
    BY AttackFacts, BoundFacts
  <1>2. m < numAttacks => \A n \in 1 .. Samples :
           n + 1 <= N <=> (n + 1) * TicksPerSecond <= attacks[m + 1].start * Subintervals
    BY <1>1, BoundFacts
  <1> HIDE DEF N
  <1>3. CASE script = "i3"
    <2>1. b(m) = Min({Samples, N})
      BY <1>3 DEF b, N
    <2>2. b(m) \in {Samples, N} /\ b(m) <= Samples /\ b(m) <= N
      <3>1. {Samples, N} \in SUBSET Nat
        BY <1>1
      <3> QED
        BY <2>1, <3>1, MinIs
    <2>3. b(m) \in Nat /\ \A n \in 1 .. Samples : n <= b(m) - 1
            <=> n < Samples /\ n + 1 <= N
      BY <1>1, <2>2
    <2>4. CASE m < numAttacks
      BY <1>2, <1>3, <2>3, <2>4
    <2>5. CASE m = numAttacks
      BY <1>1, <1>3, <2>3, <2>5
    <2> QED
      BY <1>1, <2>4, <2>5
  <1>4. CASE script = "i5"
    <2>1. b(m) = N
      BY <1>4 DEF b, N
    <2>2. CASE m < numAttacks
      <3>1. \A n \in 1 .. Samples : n <= b(m) - 1 <=> n + 1 <= N
        BY <1>1, <2>1
      <3> QED
        BY <1>1, <1>2, <1>4, <2>1, <2>2, <3>1
    <2>3. CASE m = numAttacks
      BY <1>1, <1>4, <2>1, <2>3
    <2> QED
      BY <1>1, <2>2, <2>3
  <1> QED
    BY <1>3, <1>4 DEF InputOK

\* The samples that are searched are those that the properties name by their times.
LEMMA RangeFacts ==
  ASSUME InputOK, NEW m \in 1 .. numAttacks, ~NoAttack(m), NEW k \in Nat
  PROVE  /\ AttackRange(m) \in SUBSET (Nat \ {0}) /\ QuietRange(m) \in SUBSET (Nat \ {0})
         /\ \A n \in AttackRange(m) : n > a(m)
         /\ During(k, m) = {n \in AttackRange(m) \cap (1 .. Samples) : level[n] >= k}
         /\ After(k, m) = {n \in QuietRange(m) \cap (1 .. Samples) : level[n] >= k}
  <1>1. a(m) \in Nat /\ b1(m) \in Nat /\ b(m) \in Nat /\ Samples \in Nat
    BY AttackFacts, BoundFacts, EndFacts, QuietFacts
  <1>2. AttackRange(m) = a(m) + 1 .. b1(m) /\
          QuietRange(m) = b1(m) + 1 .. b(m) - 1
    BY DEF AttackRange, QuietRange
  <1>3. \A n \in 1 .. Samples : n <= b1(m) <=> ~Over(n, m)
    BY EndFacts
  <1>4. \A n \in 1 .. Samples :
          n > a(m) <=> attacks[m].start * Subintervals < n * TicksPerSecond
    <2>0. attacks[m].start \in Nat /\ Subintervals \in Nat /\ TicksPerSecond \in Nat
      BY AttackFacts, BoundFacts
    <2>1. attacks[m].start * Subintervals \in Int /\ TicksPerSecond \in Nat
      BY <2>0
    <2>2. \A n \in 1 .. Samples : n * TicksPerSecond \in Int
      BY <2>1
    <2>3. \A n \in 1 .. Samples :
            n <= a(m) <=> n * TicksPerSecond <= attacks[m].start * Subintervals
      BY BoundFacts
    <2> QED
      BY <1>1, <2>1, <2>2, <2>3
  <1>5. During(k, m) = {n \in AttackRange(m) \cap (1 .. Samples) : level[n] >= k}
    <2>1. \A n \in 1 .. Samples :
            n \in AttackRange(m) <=> attacks[m].start * Subintervals < n * TicksPerSecond
                                     /\ ~Over(n, m)
      BY <1>1, <1>2, <1>3, <1>4
    <2> QED
      BY <2>1 DEF During
  <1>6. After(k, m) = {n \in QuietRange(m) \cap (1 .. Samples) : level[n] >= k}
    <2>1. \A n \in 1 .. Samples : n \in QuietRange(m) <=> Over(n, m) /\ n <= b(m) - 1
      BY <1>1, <1>2, <1>3
    <2> DEFINE QuietBefore(n) ==
                 /\ n < Samples \/ (script = "i5" /\ m < numAttacks)
                 /\ m < numAttacks =>
                      (n + 1) * TicksPerSecond <= attacks[m + 1].start * Subintervals
    <2>2. \A n \in 1 .. Samples : n <= b(m) - 1 <=> QuietBefore(n)
      BY QuietFacts
    <2>3. After(k, m) = {n \in 1 .. Samples : level[n] >= k /\ Over(n, m) /\ QuietBefore(n)}
      BY DEF After
    <2> HIDE DEF QuietBefore
    <2> QED
      BY <2>1, <2>2, <2>3
  <1> QED
    BY <1>1, <1>2, <1>5, <1>6

\* The two searches for an attack find something exactly when the attack is detected, and
\* when there is a false alarm behind it.
LEMMA SearchFacts ==
  ASSUME InputOK, th \in Nat, NEW m \in 1 .. numAttacks, ~OutOfRange(m)
  PROVE  LET hit == FirstHit(AttackRange(m))  alarm == FirstHit(QuietRange(m))
         IN  /\ ~NoAttack(m)
             /\ hit \in Nat /\ (hit > 0 <=> During(th + 1, m) # {})
             /\ hit > 0 => Delay(m, hit) \in Nat /\ Delay(m, hit) >= 1
             /\ alarm \in Nat /\ (alarm > 0 <=> After(th + 1, m) # {})
  <1> DEFINE hit == FirstHit(AttackRange(m))  alarm == FirstHit(QuietRange(m))
  <1>1. ~NoAttack(m) /\ ~(hit > Samples) /\ ~(alarm > Samples)
    BY DEF OutOfRange
  <1>2. /\ AttackRange(m) \in SUBSET (Nat \ {0}) /\ QuietRange(m) \in SUBSET (Nat \ {0})
        /\ \A n \in AttackRange(m) : n > a(m)
        /\ During(th + 1, m)
             = {n \in AttackRange(m) \cap (1 .. Samples) : level[n] >= th + 1}
        /\ After(th + 1, m) = {n \in QuietRange(m) \cap (1 .. Samples) : level[n] >= th + 1}
    BY <1>1, RangeFacts
  <1>3. Samples \in Nat /\ Subintervals \in Nat /\ a(m) \in Nat
    BY <1>1, AttackFacts, BoundFacts
  <1>4. /\ hit \in Nat /\ (hit > 0 => hit \in AttackRange(m))
        /\ hit <= Samples =>
             (hit > 0 <=> \E n \in AttackRange(m) \cap (1 .. Samples) : level[n] >= th + 1)
    BY <1>2, FirstHitFacts
  <1>5. /\ alarm \in Nat
        /\ alarm <= Samples =>
             (alarm > 0 <=> \E n \in QuietRange(m) \cap (1 .. Samples) : level[n] >= th + 1)
    BY <1>2, FirstHitFacts
  <1> HIDE DEF hit, alarm
  <1>6. hit <= Samples /\ alarm <= Samples
    BY <1>1, <1>3, <1>4, <1>5
  <1>7. hit > 0 <=> During(th + 1, m) # {}
    BY <1>2, <1>4, <1>6
  <1>8. alarm > 0 <=> After(th + 1, m) # {}
    BY <1>2, <1>5, <1>6
  <1>9. hit > 0 => Delay(m, hit) \in Nat /\ Delay(m, hit) >= 1
    <2> SUFFICES ASSUME hit > 0 PROVE Delay(m, hit) \in Nat /\ Delay(m, hit) >= 1
      OBVIOUS
    <2>1. hit > a(m)
      BY <1>2, <1>4
    <2> QED
      BY <1>3, <1>4, <2>1 DEF Delay
  <1> QED
    BY <1>1, <1>4, <1>5, <1>7, <1>8, <1>9 DEF hit, alarm

-------------------------------------------------------------------------------------
(* The inductive invariant.                                                          *)

\* The attacks that are detected at a threshold, and those with a false alarm behind them.
Found(k, n) == {m \in 1 .. n : During(k, m) # {}}
Alarms(k, n) == {m \in 1 .. n : After(k, m) # {}}

\* Where the sweep is: all attacks that were looked at are in the file.
PlaceOK ==
  /\ phase \in {"sweep", "sample", "done", "error"}
  /\ th \in Nat /\ sampleAttack \in 1 .. numAttacks
  /\ tpplot \in Seq(Nat) /\ fpplot \in Seq(Nat) /\ delays \in Seq(Nat) /\ sdelay \in Seq(Int)
  /\ Len(fpplot) = Len(tpplot) /\ Len(delays) = Len(tpplot)
  /\ phase = "sweep" =>
       /\ th < Thresholds /\ i \in 1 .. numAttacks + 1
       /\ Len(tpplot) = th /\ sdelay = << >>
       /\ \A m \in 1 .. i - 1 : ~NoAttack(m)
       /\ th > 0 => \A m \in 1 .. numAttacks : ~NoAttack(m)
  /\ phase = "sample" => Len(sdelay) = th
  /\ phase \in {"sample", "done"} => \A m \in 1 .. numAttacks : ~NoAttack(m)

\* The counters of the threshold that is looked at are those of the attacks so far.
CountOK ==
  phase = "sweep" =>
    /\ entropy_tp_count = Cardinality(Found(th + 1, i - 1))
    /\ entropy_fp_count = Cardinality(Alarms(th + 1, i - 1))
    /\ tot_delay \in Nat /\ tot_delay >= entropy_tp_count

\* How far an attack was detected at the thresholds at which it was looked at so far; the
\* attack to follow is the last one of those that came farthest.
Reached(m, n, k) ==
  LET limit == IF m < n THEN k + 1 ELSE k
  IN  IF Peak(m) <= limit THEN Peak(m) ELSE limit
Foremost(s, n, k) ==
  \A m \in 1 .. numAttacks :
    /\ Reached(m, n, k) <= Reached(s, n, k)
    /\ Reached(m, n, k) = Reached(s, n, k) /\ Reached(m, n, k) > 0 => m <= s
FollowOK == phase = "sweep" => Foremost(sampleAttack, i, th)

SweepInv ==
  /\ InputOK /\ PlaceOK /\ CountOK /\ FollowOK
  /\ CountsExact /\ SampleMostPersistent /\ SampleDelaysExact

\* The samples and the attacks never change, so neither does what is said of them.
LEMMA SameInputs ==
  ASSUME UNCHANGED inputs
  PROVE  /\ numAttacks' = numAttacks /\ (InputOK => InputOK')
         /\ \A m : (NoAttack(m)' <=> NoAttack(m))
         /\ \A k, m : During(k, m)' = During(k, m) /\ After(k, m)' = After(k, m)
         /\ \A m : Peak(m)' = Peak(m)
         /\ \A k, n : Found(k, n)' = Found(k, n) /\ Alarms(k, n)' = Alarms(k, n)
         /\ \A s, n, k : (Foremost(s, n, k)' <=> Foremost(s, n, k))
  <1>1. script' = script /\ level' = level /\ attacks' = attacks
    OBVIOUS
  <1>2. numAttacks' = numAttacks /\ (InputOK => InputOK')
    BY <1>1 DEF numAttacks, InputOK
  <1>3. \A m : (NoAttack(m)' <=> NoAttack(m)) /\ NextStart(m)' = NextStart(m) /\ a(m)' = a(m)
    BY <1>1, <1>2 DEF NoAttack, NextStart, a
  <1>4. \A n, m : (Over(n, m)' <=> Over(n, m))
    BY <1>1, <1>3 DEF Over
  <1>5. \A k, m : During(k, m)' = During(k, m)
    BY <1>1, <1>4 DEF During
  <1>6. \A k, m : After(k, m)' = After(k, m)
    BY <1>1, <1>2, <1>4 DEF After
  <1>7. \A m : Peak(m)' = Peak(m)
    BY <1>1, <1>5 DEF Peak
  <1>8. \A k, n : Found(k, n)' = Found(k, n) /\ Alarms(k, n)' = Alarms(k, n)
    BY <1>5, <1>6 DEF Found, Alarms
  <1>9. \A s, n, k : (Foremost(s, n, k)' <=> Foremost(s, n, k))
    BY <1>2, <1>7 DEF Foremost, Reached
  <1> QED
    BY <1>2, <1>3, <1>5, <1>6, <1>7, <1>8, <1>9

\* The highest level in an attack is the last threshold at which it is detected.
LEMMA PeakFacts ==
  ASSUME InputOK, NEW m
  PROVE  /\ Peak(m) \in 0 .. Thresholds
         /\ \A k \in Nat \ {0} : Peak(m) >= k <=> During(k, m) # {}
  <1> DEFINE S == {0} \cup {level[n] : n \in During(0, m)}
  <1>1. \A n \in 1 .. Samples : level[n] \in 0 .. Thresholds /\ level[n] \in Int
    BY AttackFacts DEF InputOK
  <1>2. \A k \in Nat : During(k, m) = {n \in During(0, m) : level[n] >= k}
    BY <1>1 DEF During
  <1>3. Thresholds \in Nat /\ S \in SUBSET (0 .. Thresholds) /\ S # {}
    <2>1. \A n \in During(0, m) : level[n] \in 0 .. Thresholds
      BY <1>1 DEF During
    <2>2. Thresholds \in Nat /\ 0 \in 0 .. Thresholds
      BY AttackFacts
    <2> QED
      BY <2>1, <2>2
  <1>4. Peak(m) = Max(S)
    BY DEF Peak
  <1>5. Peak(m) \in S /\ \A n \in S : Peak(m) >= n
    <2> HIDE DEF S
    <2> QED
      BY <1>3, <1>4, MaxIs
  <1>6. ASSUME NEW k \in Nat \ {0}
        PROVE  Peak(m) >= k <=> During(k, m) # {}
    <2>1. ASSUME Peak(m) >= k PROVE During(k, m) # {}
      <3>1. PICK n \in During(0, m) : Peak(m) = level[n]
        BY <1>5, <2>1
      <3> QED
        BY <1>2, <2>1, <3>1
    <2>2. ASSUME NEW n \in During(k, m) PROVE Peak(m) >= k
      <3>1. n \in During(0, m) /\ level[n] >= k
        BY <1>2
      <3>2. level[n] \in S /\ level[n] \in Int
        BY <1>1, <3>1 DEF During
      <3>3. Peak(m) >= level[n] /\ Peak(m) \in Int
        BY <1>3, <1>5, <3>2
      <3> QED
        BY <3>1, <3>2, <3>3
    <2> QED
      BY <2>1, <2>2
  <1> QED
    BY <1>3, <1>5, <1>6

\* Looking at one more attack adds it, if it is found.
LEMMA FoundAdds ==
  ASSUME NEW n \in Nat, NEW k
  PROVE  /\ Cardinality(Found(k, n)) \in Nat /\ Cardinality(Alarms(k, n)) \in Nat
         /\ Cardinality(Found(k, n + 1))
              = Cardinality(Found(k, n)) + (IF During(k, n + 1) # {} THEN 1 ELSE 0)
         /\ Cardinality(Alarms(k, n + 1))
              = Cardinality(Alarms(k, n)) + (IF After(k, n + 1) # {} THEN 1 ELSE 0)
         /\ Cardinality(Found(k, 0)) = 0 /\ Cardinality(Alarms(k, 0)) = 0
  <1>1. IsFiniteSet(1 .. n) /\ n + 1 \notin 1 .. n /\ 1 .. n + 1 = (1 .. n) \cup {n + 1}
    BY FS_Interval
  <1>2. Found(k, n) \subseteq 1 .. n /\ Alarms(k, n) \subseteq 1 .. n
    BY DEF Found, Alarms
  <1>3. /\ IsFiniteSet(Found(k, n)) /\ Cardinality(Found(k, n)) \in Nat
        /\ IsFiniteSet(Alarms(k, n)) /\ Cardinality(Alarms(k, n)) \in Nat
    BY <1>1, <1>2, FS_Subset, FS_CardinalityType
  <1>4. n + 1 \notin Found(k, n) /\ n + 1 \notin Alarms(k, n)
    BY <1>1, <1>2
  <1>5. Found(k, n + 1) = IF During(k, n + 1) # {} THEN Found(k, n) \cup {n + 1}
                                                   ELSE Found(k, n)
    BY <1>1 DEF Found
  <1>6. Alarms(k, n + 1) = IF After(k, n + 1) # {} THEN Alarms(k, n) \cup {n + 1}
                                                   ELSE Alarms(k, n)
    BY <1>1 DEF Alarms
  <1>7. /\ Cardinality(Found(k, n) \cup {n + 1}) = Cardinality(Found(k, n)) + 1
        /\ Cardinality(Alarms(k, n) \cup {n + 1}) = Cardinality(Alarms(k, n)) + 1
    BY <1>3, <1>4, FS_AddElement
  <1>8. Found(k, 0) = {} /\ Alarms(k, 0) = {}
    BY DEF Found, Alarms
  <1>9. Cardinality({}) = 0
    BY FS_EmptySet
  <1> QED
    BY <1>3, <1>5, <1>6, <1>7, <1>8, <1>9

\* Looking at an attack makes it the one to follow, if it is found.
LEMMA ForemostChecked ==
  ASSUME InputOK, NEW k \in Nat, NEW n \in 1 .. numAttacks, NEW s \in 1 .. numAttacks,
         Foremost(s, n, k), NEW t, t = IF During(k + 1, n) # {} THEN n ELSE s
  PROVE  Foremost(t, n + 1, k)
  <1>0. numAttacks \in Nat /\ n \in Nat
    BY AttackFacts
  <1>3. \A m \in 1 .. numAttacks : /\ Peak(m) \in Int
                                   /\ Peak(m) >= k + 1 <=> During(k + 1, m) # {}
    <2>1. k + 1 \in Nat \ {0}
      OBVIOUS
    <2> QED
      BY <2>1, PeakFacts
  <1>1. CASE During(k + 1, n) # {}
    <2>1. t = n /\ Reached(n, n + 1, k) = k + 1
      <3>1. n < n + 1 /\ Peak(n) >= k + 1 /\ Peak(n) \in Int
        BY <1>0, <1>1, <1>3
      <3> QED
        BY <1>1, <3>1 DEF Reached
    <2>2. ASSUME NEW m \in 1 .. numAttacks
          PROVE  Reached(m, n + 1, k) <= k + 1 /\ (Reached(m, n + 1, k) = k + 1 => m <= n)
      <3>1. /\ m \in Nat /\ Peak(m) \in Int
            /\ Reached(m, n + 1, k) = IF m < n + 1
                                        THEN IF Peak(m) <= k + 1 THEN Peak(m) ELSE k + 1
                                        ELSE IF Peak(m) <= k THEN Peak(m) ELSE k
        BY <1>0, <1>3 DEF Reached
      <3> QED
        BY <1>0, <3>1
    <2> QED
      BY <2>1, <2>2 DEF Foremost
  <1>2. CASE During(k + 1, n) = {}
    <2>1. ASSUME NEW m \in 1 .. numAttacks
          PROVE  Reached(m, n + 1, k) = Reached(m, n, k)
      <3>1. CASE m = n
        <4>1. n < n + 1 /\ ~(n < n) /\ ~(Peak(n) >= k + 1) /\ Peak(n) \in Int
          BY <1>0, <1>2, <1>3
        <4> QED
          BY <3>1, <4>1 DEF Reached
      <3>2. CASE m # n
        <4>1. m < n + 1 <=> m < n
          BY <1>0, <3>2
        <4> QED
          BY <4>1 DEF Reached
      <3> QED
        BY <3>1, <3>2
    <2> QED
      BY <1>2, <2>1 DEF Foremost
  <1> QED
    BY <1>1, <1>2

\* At the end of a threshold, all attacks were looked at as often.
LEMMA ForemostNext ==
  ASSUME InputOK, NEW k \in Nat, NEW s \in 1 .. numAttacks, Foremost(s, numAttacks + 1, k)
  PROVE  /\ Foremost(s, 1, k + 1)
         /\ k + 1 = Thresholds =>
              \A m \in 1 .. numAttacks :
                Peak(m) <= Peak(s) /\ (Peak(m) = Peak(s) /\ Peak(m) > 0 => m <= s)
  <1>0. numAttacks \in Nat
    BY AttackFacts
  <1>1. ASSUME NEW m \in 1 .. numAttacks
        PROVE  /\ Reached(m, 1, k + 1) = Reached(m, numAttacks + 1, k)
               /\ k + 1 = Thresholds => Peak(m) = Reached(m, numAttacks + 1, k)
    <2>1. m < numAttacks + 1 /\ ~(m < 1) /\ m \in Nat
      BY <1>0
    <2>2. /\ Reached(m, 1, k + 1) = IF Peak(m) <= k + 1 THEN Peak(m) ELSE k + 1
          /\ Reached(m, numAttacks + 1, k) = IF Peak(m) <= k + 1 THEN Peak(m) ELSE k + 1
      BY <2>1 DEF Reached
    <2>3. Peak(m) \in 0 .. Thresholds
      BY PeakFacts
    <2> QED
      BY <2>2, <2>3
  <1>2. Foremost(s, 1, k + 1)
    BY <1>1 DEF Foremost
  <1>3. k + 1 = Thresholds =>
          \A m \in 1 .. numAttacks :
            Peak(m) <= Peak(s) /\ (Peak(m) = Peak(s) /\ Peak(m) > 0 => m <= s)
    BY <1>1 DEF Foremost
  <1> QED
    BY <1>2, <1>3

LEMMA SweepInvInit ==
  ASSUME InitSweep
  PROVE  SweepInv
  <1>1. InputOK
    BY DEF InitSweep, InputOK
  <1>2. numAttacks \in Nat \ {0} /\ Thresholds \in Nat \ {0}
    BY <1>1, AttackFacts
  <1>3. /\ tpplot = << >> /\ fpplot = << >> /\ delays = << >> /\ sdelay = << >>
        /\ Len(tpplot) = 0 /\ Len(sdelay) = 0
        /\ phase = "sweep" /\ th = 0 /\ i = 1 /\ sampleAttack = 1
        /\ entropy_tp_count = 0 /\ entropy_fp_count = 0 /\ tot_delay = 0
    BY EmptySeq DEF InitSweep
  <1>4. PlaceOK
    <2>1. tpplot \in Seq(Nat) /\ fpplot \in Seq(Nat) /\ delays \in Seq(Nat) /\ sdelay \in Seq(Int)
      BY <1>3, EmptySeq
    <2> QED
      BY <1>2, <1>3, <2>1 DEF PlaceOK
  <1>5. CountOK
    <2>1. Cardinality(Found(1, 0)) = 0 /\ Cardinality(Alarms(1, 0)) = 0
      BY FoundAdds
    <2> QED
      BY <1>3, <2>1 DEF CountOK
  <1>6. FollowOK
    <2>1. ASSUME NEW m \in 1 .. numAttacks
          PROVE  Reached(m, 1, 0) = 0
      <3>1. Reached(m, 1, 0) = IF Peak(m) <= 0 THEN Peak(m) ELSE 0
        BY <1>2 DEF Reached
      <3>2. Peak(m) \in 0 .. Thresholds
        BY <1>1, PeakFacts
      <3> QED
        BY <1>2, <3>1, <3>2
    <2>2. 1 \in 1 .. numAttacks
      BY <1>2
    <2>3. Reached(1, 1, 0) = 0
      BY <2>1, <2>2
    <2>4. Foremost(1, 1, 0)
      BY <2>1, <2>3 DEF Foremost
    <2> QED
      BY <1>3, <2>4 DEF FollowOK
  <1>7. CountsExact /\ SampleMostPersistent /\ SampleDelaysExact
    BY <1>3 DEF CountsExact, SampleMostPersistent, SampleDelaysExact
  <1> QED
    BY <1>1, <1>4, <1>5, <1>6, <1>7 DEF SweepInv

LEMMA CheckStep ==
  ASSUME SweepInv, CheckAttack
  PROVE  SweepInv'
  <1> DEFINE hit == FirstHit(AttackRange(i))  alarm == FirstHit(QuietRange(i))
  <1>0. InputOK /\ PlaceOK /\ CountOK /\ FollowOK /\ CountsExact
    BY DEF SweepInv
  <1>1. /\ UNCHANGED inputs /\ UNCHANGED results /\ phase = "sweep" /\ phase' = phase
        /\ th' = th /\ th \in Nat /\ sdelay' = sdelay /\ i' = i + 1 /\ ~OutOfRange(i)
        /\ i <= numAttacks
        /\ entropy_fp_count' = entropy_fp_count + (IF alarm > 0 THEN 1 ELSE 0)
        /\ hit > 0 => /\ entropy_tp_count' = entropy_tp_count + 1
                      /\ tot_delay' = tot_delay + Delay(i, hit)
                      /\ sampleAttack' = i
        /\ ~(hit > 0) => /\ entropy_tp_count' = entropy_tp_count
                         /\ tot_delay' = tot_delay
                         /\ sampleAttack' = sampleAttack
    BY <1>0 DEF CheckAttack, NewSample, PlaceOK
  <1>2. i \in 1 .. numAttacks /\ i \in Nat /\ numAttacks \in Nat /\
          sampleAttack \in 1 .. numAttacks
    <2>1. numAttacks \in Nat \ {0}
      BY <1>0, AttackFacts
    <2>2. i \in 1 .. numAttacks + 1 /\ sampleAttack \in 1 .. numAttacks
      BY <1>0, <1>1 DEF PlaceOK
    <2> QED
      BY <1>1, <2>1, <2>2
  <1>3. /\ ~NoAttack(i)
        /\ hit \in Nat /\ (hit > 0 <=> During(th + 1, i) # {})
        /\ hit > 0 => Delay(i, hit) \in Nat /\ Delay(i, hit) >= 1
        /\ alarm > 0 <=> After(th + 1, i) # {}
    BY <1>0, <1>1, <1>2, SearchFacts
  <1> HIDE DEF hit, alarm
  <1>4. InputOK' /\ numAttacks' = numAttacks /\ (\A m : NoAttack(m)' <=> NoAttack(m))
        /\ (\A k, m : During(k, m)' = During(k, m) /\ After(k, m)' = After(k, m))
        /\ (\A k, n : Found(k, n)' = Found(k, n) /\ Alarms(k, n)' = Alarms(k, n))
        /\ (\A s, n, k : Foremost(s, n, k)' <=> Foremost(s, n, k))
    BY <1>0, <1>1, SameInputs
  <1>5. sampleAttack' \in 1 .. numAttacks
    BY <1>1, <1>2
  <1>6. PlaceOK'
    <2>1. \A m \in 1 .. i' - 1 : ~NoAttack(m)
      BY <1>0, <1>1, <1>2, <1>3 DEF PlaceOK
    <2>2. i' \in 1 .. numAttacks + 1
      BY <1>1, <1>2
    <2> QED
      BY <1>0, <1>1, <1>4, <1>5, <2>1, <2>2 DEF PlaceOK
  <1>7. CountOK'
    <2>1. i - 1 \in Nat /\ (i - 1) + 1 = i /\ i' - 1 = i
      BY <1>1, <1>2
    <2>2. /\ Cardinality(Found(th + 1, i - 1)) \in Nat
          /\ Cardinality(Found(th + 1, i))
               = Cardinality(Found(th + 1, i - 1)) + (IF During(th + 1, i) # {} THEN 1 ELSE 0)
          /\ Cardinality(Alarms(th + 1, i - 1)) \in Nat
          /\ Cardinality(Alarms(th + 1, i))
               = Cardinality(Alarms(th + 1, i - 1)) + (IF After(th + 1, i) # {} THEN 1 ELSE 0)
      BY <2>1, FoundAdds
    <2>3. /\ entropy_tp_count = Cardinality(Found(th + 1, i - 1))
          /\ entropy_fp_count = Cardinality(Alarms(th + 1, i - 1))
          /\ tot_delay \in Nat /\ tot_delay >= entropy_tp_count
      BY <1>0, <1>1 DEF CountOK
    <2>4. entropy_fp_count' = Cardinality(Alarms(th + 1, i))
      BY <1>1, <1>3, <2>2, <2>3
    <2>5. entropy_tp_count' = Cardinality(Found(th + 1, i))
      BY <1>1, <1>3, <2>2, <2>3
    <2>6. tot_delay' \in Nat /\ tot_delay' >= entropy_tp_count'
      <3>1. CASE hit > 0
        BY <1>1, <1>3, <2>2, <2>3, <3>1
      <3>2. CASE ~(hit > 0)
        BY <1>1, <2>3, <3>2
      <3> QED
        BY <3>1, <3>2
    <2>7. /\ (Found(th + 1, i - 1))' = Found(th + 1, i)
          /\ (Alarms(th + 1, i - 1))' = Alarms(th + 1, i)
      BY <1>1, <1>4, <2>1
    <2> QED
      BY <1>1, <2>4, <2>5, <2>6, <2>7 DEF CountOK
  <1>8. FollowOK'
    <2>1. Foremost(sampleAttack, i, th)
      BY <1>0, <1>1 DEF FollowOK
    <2>2. sampleAttack' = IF During(th + 1, i) # {} THEN i ELSE sampleAttack
      BY <1>1, <1>3
    <2>3. Foremost(sampleAttack', i + 1, th)
      BY <1>0, <1>1, <1>2, <2>1, <2>2, ForemostChecked
    <2> QED
      BY <1>1, <1>4, <2>3 DEF FollowOK
  <1>9. CountsExact'
    BY <1>0, <1>1, <1>4 DEF CountsExact
  <1>10. SampleMostPersistent' /\ SampleDelaysExact'
    <2>1. Len(sdelay') = 0
      BY <1>0, <1>1, EmptySeq DEF PlaceOK
    <2> QED
      BY <1>1, <2>1 DEF SampleMostPersistent, SampleDelaysExact
  <1> QED
    BY <1>4, <1>6, <1>7, <1>8, <1>9, <1>10 DEF SweepInv

\* Appending to one of the results.
LEMMA AppendFacts ==
  ASSUME NEW S, NEW q \in Seq(S), NEW x \in S
  PROVE  /\ Append(q, x) \in Seq(S) /\ Len(q) \in Nat /\ Len(Append(q, x)) = Len(q) + 1
         /\ \A k \in 1 .. Len(q) : Append(q, x)[k] = q[k]
         /\ Append(q, x)[Len(q) + 1] = x
  BY AppendProperties, LenProperties

LEMMA EndStep ==
  ASSUME SweepInv, EndThreshold
  PROVE  SweepInv'
  <1>0. InputOK /\ PlaceOK /\ CountOK /\ FollowOK /\ CountsExact
    BY DEF SweepInv
  <1>1. /\ UNCHANGED inputs /\ phase = "sweep" /\ i > numAttacks /\ th \in Nat
        /\ tpplot' = Append(tpplot, entropy_tp_count)
        /\ fpplot' = Append(fpplot, entropy_fp_count)
        /\ delays' = Append(delays, tot_delay)
        /\ entropy_tp_count' = 0 /\ entropy_fp_count' = 0 /\ tot_delay' = 0 /\ i' = 1
        /\ sampleAttack' = sampleAttack /\ sdelay' = sdelay
    BY <1>0 DEF EndThreshold, PlaceOK
  <1>2. \/ th + 1 < Thresholds /\ th' = th + 1 /\ phase' = "sweep"
        \/ th + 1 = Thresholds /\ th' = 0 /\ phase' = "sample"
    <2>1. Thresholds \in Nat /\ th < Thresholds
      BY <1>0, <1>1, AttackFacts DEF PlaceOK
    <2> QED
      BY <1>1, <2>1 DEF EndThreshold
  <1>3. i = numAttacks + 1 /\ numAttacks \in Nat \ {0} /\
          sampleAttack \in 1 .. numAttacks
    <2>1. numAttacks \in Nat \ {0}
      BY <1>0, AttackFacts
    <2>2. i \in 1 .. numAttacks + 1 /\ sampleAttack \in 1 .. numAttacks
      BY <1>0, <1>1 DEF PlaceOK
    <2> QED
      BY <1>1, <2>1, <2>2
  <1>4. InputOK' /\ numAttacks' = numAttacks /\ (\A m : NoAttack(m)' <=> NoAttack(m))
        /\ (\A k, m : During(k, m)' = During(k, m) /\ After(k, m)' = After(k, m))
        /\ (\A m : Peak(m)' = Peak(m))
        /\ (\A k, n : Found(k, n)' = Found(k, n) /\ Alarms(k, n)' = Alarms(k, n))
        /\ (\A s, n, k : Foremost(s, n, k)' <=> Foremost(s, n, k))
    BY <1>0, <1>1, SameInputs
  <1>5. /\ entropy_tp_count = Cardinality(Found(th + 1, numAttacks))
        /\ entropy_fp_count = Cardinality(Alarms(th + 1, numAttacks))
        /\ tot_delay \in Nat /\ tot_delay >= entropy_tp_count
        /\ entropy_tp_count \in Nat /\ entropy_fp_count \in Nat
    <2>1. i - 1 = numAttacks
      BY <1>3
    <2>2. /\ entropy_tp_count = Cardinality(Found(th + 1, numAttacks))
          /\ entropy_fp_count = Cardinality(Alarms(th + 1, numAttacks))
          /\ tot_delay \in Nat /\ tot_delay >= entropy_tp_count
      BY <1>0, <1>1, <2>1 DEF CountOK
    <2> QED
      BY <1>3, <2>2, FoundAdds
  <1>6. /\ tpplot' \in Seq(Nat) /\ fpplot' \in Seq(Nat) /\ delays' \in Seq(Nat)
        /\ Len(tpplot) = th /\ Len(fpplot) = th /\ Len(delays) = th
        /\ Len(tpplot') = th + 1 /\ Len(fpplot') = th + 1 /\ Len(delays') = th + 1
        /\ \A k \in 1 .. th : /\ tpplot'[k] = tpplot[k] /\ fpplot'[k] = fpplot[k]
                              /\ delays'[k] = delays[k]
        /\ tpplot'[th + 1] = entropy_tp_count /\ fpplot'[th + 1] = entropy_fp_count
        /\ delays'[th + 1] = tot_delay
    <2>1. /\ tpplot \in Seq(Nat) /\ fpplot \in Seq(Nat) /\ delays \in Seq(Nat)
          /\ Len(tpplot) = th /\ Len(fpplot) = th /\ Len(delays) = th
      BY <1>0, <1>1 DEF PlaceOK
    <2>2. ASSUME NEW q \in Seq(Nat), NEW x \in Nat, Len(q) = th
          PROVE  /\ Append(q, x) \in Seq(Nat) /\ Len(Append(q, x)) = th + 1
                 /\ \A k \in 1 .. th : Append(q, x)[k] = q[k]
                 /\ Append(q, x)[th + 1] = x
      BY <2>2, AppendFacts
    <2>3. tpplot' \in Seq(Nat) /\ Len(tpplot') = th + 1
          /\ (\A k \in 1 .. th : tpplot'[k] = tpplot[k]) /\ tpplot'[th + 1] = entropy_tp_count
      BY <1>1, <1>5, <2>1, <2>2
    <2>4. fpplot' \in Seq(Nat) /\ Len(fpplot') = th + 1
          /\ (\A k \in 1 .. th : fpplot'[k] = fpplot[k]) /\ fpplot'[th + 1] = entropy_fp_count
      BY <1>1, <1>5, <2>1, <2>2
    <2>5. delays' \in Seq(Nat) /\ Len(delays') = th + 1
          /\ (\A k \in 1 .. th : delays'[k] = delays[k]) /\ delays'[th + 1] = tot_delay
      BY <1>1, <1>5, <2>1, <2>2
    <2> QED
      BY <2>1, <2>3, <2>4, <2>5
  <1>7. \A m \in 1 .. numAttacks : ~NoAttack(m)
    <2>1. \A m \in 1 .. i - 1 : ~NoAttack(m)
      BY <1>0, <1>1 DEF PlaceOK
    <2>2. 1 .. i - 1 = 1 .. numAttacks
      BY <1>3
    <2> QED
      BY <2>1, <2>2
  <1>8. sdelay = << >> /\ Len(sdelay') = 0 /\ sdelay \in Seq(Int)
    BY <1>0, <1>1, EmptySeq DEF PlaceOK
  <1>9. PlaceOK'
    <2>1. 1 \in 1 .. numAttacks + 1 /\ 1 .. 1 - 1 = {}
      BY <1>3
    <2>2. CASE th + 1 < Thresholds /\ th' = th + 1 /\ phase' = "sweep"
      BY <1>1, <1>3, <1>4, <1>6, <1>7, <1>8, <2>1, <2>2 DEF PlaceOK
    <2>3. CASE th + 1 = Thresholds /\ th' = 0 /\ phase' = "sample"
      BY <1>1, <1>3, <1>4, <1>6, <1>7, <1>8, <2>3 DEF PlaceOK
    <2> QED
      BY <1>2, <2>2, <2>3
  <1>10. CountOK'
    <2>1. \A k : Cardinality(Found(k, 0)) = 0 /\ Cardinality(Alarms(k, 0)) = 0
      BY FoundAdds
    <2>2. CASE phase' = "sweep"
      <3>1. th' = th + 1 /\ i' - 1 = 0
        BY <1>1, <1>2, <2>2
      <3>2. (Found(th + 1, i - 1))' = Found(th + 2, 0)
            /\ (Alarms(th + 1, i - 1))' = Alarms(th + 2, 0)
        BY <1>1, <1>4, <3>1
      <3> QED
        BY <1>1, <2>1, <3>2 DEF CountOK
    <2>3. CASE phase' # "sweep"
      BY <2>3 DEF CountOK
    <2> QED
      BY <2>2, <2>3
  <1>11. /\ Foremost(sampleAttack, 1, th + 1)
         /\ th + 1 = Thresholds =>
              \A m \in 1 .. numAttacks :
                /\ Peak(m) <= Peak(sampleAttack)
                /\ Peak(m) = Peak(sampleAttack) /\ Peak(m) > 0 => m <= sampleAttack
    <2>1. Foremost(sampleAttack, numAttacks + 1, th)
      BY <1>0, <1>1, <1>3 DEF FollowOK
    <2> QED
      BY <1>0, <1>1, <1>3, <2>1, ForemostNext
  <1>12. FollowOK'
    BY <1>1, <1>2, <1>4, <1>11 DEF FollowOK
  <1>13. SampleMostPersistent'
    BY <1>1, <1>2, <1>4, <1>11 DEF SampleMostPersistent
  <1>14. SampleDelaysExact'
    BY <1>8 DEF SampleDelaysExact
  <1>15. CountsExact'
    <2> SUFFICES ASSUME NEW k \in 1 .. Len(tpplot')
                 PROVE  /\ tpplot'[k] = Cardinality(Found(k, numAttacks))
                        /\ fpplot'[k] = Cardinality(Alarms(k, numAttacks))
                        /\ delays'[k] >= tpplot'[k]
      BY <1>4 DEF CountsExact, Found, Alarms
    <2>1. CASE k = th + 1
      BY <1>5, <1>6, <2>1
    <2>2. CASE k \in 1 .. th
      BY <1>0, <1>6, <2>2 DEF CountsExact, Found, Alarms
    <2> QED
      BY <1>1, <1>6, <2>1, <2>2
  <1> QED
    BY <1>4, <1>9, <1>10, <1>12, <1>13, <1>14, <1>15 DEF SweepInv

\* The search of the attack that is followed ends no later than that of the sweep.
LEMMA SampleRangeFacts ==
  ASSUME InputOK, sampleAttack \in 1 .. numAttacks, ~NoAttack(sampleAttack)
  PROVE  SampleRange \subseteq AttackRange(sampleAttack)
  <1> DEFINE s == sampleAttack  e == attacks[s].end
  <1>0. TicksPerSecond \in Nat \ {0} /\ Subintervals \in Nat \ {0} /\ e \in Nat /\ a(s) \in Nat
        /\ b1(s) \in Nat
    BY AttackFacts, BoundFacts, EndFacts
  <1>1. CASE script = "i3"
    <2> DEFINE q == e \div TicksPerSecond  x == e * Subintervals  y == q * Subintervals
    <2>1. q \in Nat /\ TicksPerSecond * q <= e
      <3>1. q \in Int /\ (q <= q <=> TicksPerSecond * q <= e) /\ (0 <= q
              <=> TicksPerSecond * 0 <= e)
        <4>1. \A n \in Int : q \in Int /\ (n <= q <=> TicksPerSecond * n <= e)
          BY <1>0, BelowQuotient
        <4> HIDE DEF q
        <4>2. q \in Int
          BY <4>1
        <4> QED
          BY <4>1, <4>2
      <3> HIDE DEF q
      <3> QED
        BY <1>0, <3>1
    <2>2. WholeSeconds(e) = y /\ b1(s) = x \div TicksPerSecond
      BY <1>1 DEF WholeSeconds, b1, Sample
    <2> HIDE DEF q, e
    <2>3. x \in Nat /\ y \in Nat /\ TicksPerSecond * q \in Nat
      BY <1>0, <2>1
    <2>4. TicksPerSecond * y <= x
      <3>1. TicksPerSecond * y = (TicksPerSecond * q) * Subintervals
        BY <1>0, <2>1, Z3
      <3>2. (TicksPerSecond * q) * Subintervals <= e * Subintervals
        <4> DEFINE z == TicksPerSecond * q
        <4> HIDE DEF z
        <4>1. z \in Nat /\ z <= e
          BY <2>1, <2>3 DEF z
        <4>2. z * Subintervals <= e * Subintervals
          BY <1>0, <4>1, Z3
        <4> QED
          BY <4>2 DEF z
      <3> QED
        BY <3>1, <3>2
    <2> HIDE DEF x, y
    <2>5. y <= x \div TicksPerSecond
      BY <1>0, <2>3, <2>4, BelowQuotient
    <2>6. SampleRange = a(s) + 1 .. y
      BY <1>1, <2>2 DEF SampleRange, e
    <2> QED
      BY <1>0, <2>2, <2>3, <2>5, <2>6 DEF AttackRange
  <1>2. CASE script # "i3"
    BY <1>2 DEF SampleRange, AttackRange
  <1> QED
    BY <1>1, <1>2

\* What it can find, in terms of samples.
LEMMA FollowedIs ==
  ASSUME InputOK, sampleAttack \in 1 .. numAttacks, ~NoAttack(sampleAttack), NEW k \in Nat
  PROVE  Followed(k) = {n \in SampleRange \cap (1 .. Samples) : level[n] >= k}
  <1> DEFINE s == sampleAttack  e == attacks[s].end  q == e \div TicksPerSecond
             y == q * Subintervals
             within(n) == \E d \in 0 .. e : n <= d * Subintervals /\ d * TicksPerSecond <= e
  <1>0. TicksPerSecond \in Nat \ {0} /\ Subintervals \in Nat \ {0} /\ e \in Nat /\ a(s) \in Nat
        /\ b1(s) \in Nat
    BY AttackFacts, BoundFacts, EndFacts
  <1>1. /\ SampleRange \subseteq AttackRange(s)
        /\ During(k, s) = {n \in AttackRange(s) \cap (1 .. Samples) : level[n] >= k}
    BY SampleRangeFacts, RangeFacts
  <1>2. CASE script # "i3"
    <2>1. SampleRange = AttackRange(s)
      BY <1>2 DEF SampleRange, AttackRange
    <2>2. Followed(k) = During(k, s)
      BY <1>2 DEF Followed
    <2> QED
      BY <1>1, <2>1, <2>2
  <1>3. CASE script = "i3"
    <2>1. SampleRange = a(s) + 1 .. y /\ AttackRange(s) = a(s) + 1 .. b1(s)
      BY <1>3 DEF SampleRange, AttackRange, WholeSeconds
    <2>2. \A d \in Int : q \in Int /\ (d <= q <=> TicksPerSecond * d <= e)
      BY <1>0, BelowQuotient
    <2> HIDE DEF q, e
    <2>3. q \in Int /\ (q <= q <=> TicksPerSecond * q <= e)
      BY <2>2
    <2>4. q \in 0 .. e /\ q * TicksPerSecond <= e
      <3>1. 0 <= q
        BY <1>0, <2>2
      <3>2. TicksPerSecond * q <= e /\ q * TicksPerSecond = TicksPerSecond * q
        BY <1>0, <2>3
      <3>3. q <= TicksPerSecond * q
        BY <1>0, <2>3, <3>1, Z3
      <3>4. TicksPerSecond * q \in Int
        BY <1>0, <2>3
      <3> QED
        BY <1>0, <2>3, <3>1, <3>2, <3>3, <3>4
    <2>5. y \in Int
      BY <1>0, <2>3
    <2>6. ASSUME NEW n \in Int PROVE n <= y <=> within(n)
      <3>1. ASSUME NEW d \in 0 .. e, n <= d * Subintervals, d * TicksPerSecond <= e
            PROVE  n <= y
        <4>1. d \in Int /\ d * TicksPerSecond = TicksPerSecond * d
          BY <1>0
        <4>2. d <= q
          BY <2>2, <3>1, <4>1
        <4>3. d * Subintervals <= q * Subintervals /\ d * Subintervals \in Int
          BY <1>0, <2>3, <4>1, <4>2, Z3
        <4> QED
          BY <2>5, <3>1, <4>3
      <3>2. ASSUME n <= y PROVE within(n)
        BY <2>4, <3>2
      <3> QED
        BY <3>1, <3>2
    <2>7. Followed(k) = {n \in During(k, s) : within(n)}
      BY <1>3 DEF Followed, e
    <2> HIDE DEF y, within
    <2>8. \A n \in Int : n \in SampleRange <=> n \in AttackRange(s) /\ n <= y
      BY <1>0, <1>1, <2>1, <2>5
    <2> QED
      BY <1>1, <2>6, <2>7, <2>8
  <1> QED
    BY <1>2, <1>3

LEMMA SameFollowed ==
  ASSUME UNCHANGED <<inputs, sampleAttack>>
  PROVE  /\ \A k : Followed(k)' = Followed(k)
         /\ \A n : SampleDelay(n)' = SampleDelay(n)
  <1>1. \A k, m : During(k, m)' = During(k, m)
    BY SameInputs
  <1>2. \A k : Followed(k)' = Followed(k)
    BY <1>1 DEF Followed
  <1> QED
    BY <1>2 DEF SampleDelay

LEMMA FollowStep ==
  ASSUME SweepInv, FollowSample
  PROVE  SweepInv'
  <1> DEFINE hit == FirstHit(SampleRange)
             v == IF hit > 0 THEN SampleDelay(hit) ELSE 0
  <1>0. InputOK /\ PlaceOK /\ CountsExact /\ SampleMostPersistent /\
          SampleDelaysExact
    BY DEF SweepInv
  <1>1. /\ UNCHANGED inputs /\ UNCHANGED results /\ phase = "sample" /\
             phase' \in {"sample", "done"}
        /\ th \in Nat /\ th' = th + 1 /\ sampleAttack' = sampleAttack
        /\ hit <= Samples /\ sdelay' = Append(sdelay, v)
    BY <1>0 DEF FollowSample, PlaceOK
  <1>2. /\ sampleAttack \in 1 .. numAttacks /\ (\A m \in 1 .. numAttacks : ~NoAttack(m))
        /\ sdelay \in Seq(Int) /\ Len(sdelay) = th
    BY <1>0, <1>1 DEF PlaceOK
  <1>3. InputOK' /\ numAttacks' = numAttacks /\ (\A m : NoAttack(m)' <=> NoAttack(m))
        /\ (\A k, m : During(k, m)' = During(k, m) /\ After(k, m)' = After(k, m))
        /\ (\A m : Peak(m)' = Peak(m))
    BY <1>0, <1>1, SameInputs
  <1>4. SampleRange \subseteq AttackRange(sampleAttack)
    BY <1>0, <1>2, SampleRangeFacts
  <1>5. /\ AttackRange(sampleAttack) \in SUBSET (Nat \ {0})
        /\ During(th + 1, sampleAttack)
             = {n \in AttackRange(sampleAttack) \cap (1 .. Samples) : level[n] >= th + 1}
    BY <1>0, <1>1, <1>2, RangeFacts
  <1>6. /\ hit \in Nat
        /\ hit > 0 <=> Followed(th + 1) # {}
        /\ hit > 0 => hit = Min(Followed(th + 1))
    <2>1. SampleRange \in SUBSET (Nat \ {0})
      BY <1>4, <1>5
    <2>2. Followed(th + 1) = {n \in SampleRange \cap (1 .. Samples) : level[n] >= th + 1}
      BY <1>0, <1>1, <1>2, FollowedIs
    <2>3. /\ hit \in Nat /\ (hit > 0 => hit \in SampleRange /\ level[hit] >= th + 1)
          /\ hit > 0 <=> \E n \in SampleRange \cap (1 .. Samples) : level[n] >= th + 1
          /\ hit > 0 => \A n \in SampleRange \cap (1 .. Samples) : level[n] >= th + 1 => hit <= n
      BY <1>0, <1>1, <2>1, FirstHitFacts
    <2> HIDE DEF hit
    <2>4. hit > 0 => hit \in Followed(th + 1) /\ \A n \in Followed(th + 1) : hit <= n
      BY <1>1, <2>2, <2>3
    <2>5. Followed(th + 1) \in SUBSET Int
      BY <2>2
    <2>6. ASSUME hit > 0 PROVE hit = Min(Followed(th + 1))
      <3>1. hit \in Followed(th + 1) /\ \A n \in Followed(th + 1) : hit <= n
        BY <2>4, <2>6
      <3> QED
        BY <2>5, <3>1, LeastIs
    <2> QED
      BY <2>2, <2>3, <2>6
  <1>7. v \in Int
    <2> HIDE DEF hit
    <2>1. attacks[sampleAttack].start \in Nat /\ TicksPerSecond \in Nat /\ Subintervals \in Nat
      BY <1>0, <1>2, AttackFacts, BoundFacts
    <2>2. SampleDelay(hit) \in Int
      BY <1>6, <2>1 DEF SampleDelay
    <2> QED
      BY <2>2
  <1> HIDE DEF hit
  <1>8. v = IF Followed(th + 1) = {} THEN 0 ELSE SampleDelay(Min(Followed(th + 1)))
    BY <1>6
  <1> HIDE DEF v
  <1>9. /\ sdelay' \in Seq(Int) /\ Len(sdelay') = th + 1
        /\ \A k \in 1 .. th : sdelay'[k] = sdelay[k]
        /\ sdelay'[th + 1] = v
    BY <1>1, <1>2, <1>7, AppendFacts
  <1>10. PlaceOK'
    BY <1>0, <1>1, <1>2, <1>3, <1>9 DEF PlaceOK
  <1>11. CountOK' /\ FollowOK'
    BY <1>1 DEF CountOK, FollowOK
  <1>12. CountsExact'
    BY <1>0, <1>1, <1>3 DEF CountsExact
  <1>13. SampleMostPersistent'
    BY <1>0, <1>1, <1>3 DEF SampleMostPersistent
  <1>14. SampleDelaysExact'
    <2> SUFFICES ASSUME NEW k \in 1 .. Len(sdelay')
                 PROVE  sdelay'[k] = IF Followed(k) = {} THEN 0
                                                         ELSE SampleDelay(Min(Followed(k)))
      BY <1>1, SameFollowed DEF SampleDelaysExact
    <2>1. CASE k = th + 1
      BY <1>8, <1>9, <2>1
    <2>2. CASE k \in 1 .. th
      BY <1>0, <1>2, <1>9, <2>2 DEF SampleDelaysExact
    <2> QED
      BY <1>1, <1>9, <2>1, <2>2
  <1> QED
    BY <1>3, <1>10, <1>11, <1>12, <1>13, <1>14 DEF SweepInv

LEMMA SweepInvStep == SweepInv /\ [NextSweep]_sweepVars => SweepInv'
  <1> SUFFICES ASSUME SweepInv, [NextSweep]_sweepVars
               PROVE  SweepInv'
    OBVIOUS
  <1>0. /\ InputOK /\ PlaceOK /\ CountOK /\ FollowOK
        /\ CountsExact /\ SampleMostPersistent /\ SampleDelaysExact
    BY DEF SweepInv
  <1>1. CASE CheckAttack
    BY <1>1, CheckStep
  <1>2. CASE EndThreshold
    BY <1>2, EndStep
  <1>3. CASE FollowSample
    BY <1>3, FollowStep
  \* Steps that change nothing but the phase.
  <1>4. ASSUME UNCHANGED <<inputs, th, i, entropy_tp_count, entropy_fp_count, tot_delay,
                           sampleAttack, results, sdelay>>,
               phase' \in {phase, "error"}
        PROVE  SweepInv'
    <2>1. InputOK' /\ numAttacks' = numAttacks /\ (\A m : NoAttack(m)' <=> NoAttack(m))
          /\ (\A k, m : During(k, m)' = During(k, m) /\ After(k, m)' = After(k, m))
          /\ (\A m : Peak(m)' = Peak(m))
          /\ (\A k, n : Found(k, n)' = Found(k, n) /\ Alarms(k, n)' = Alarms(k, n))
          /\ (\A s, n, k : Foremost(s, n, k)' <=> Foremost(s, n, k))
      BY <1>0, <1>4, SameInputs
    <2>2. PlaceOK'
      BY <1>0, <1>4, <2>1 DEF PlaceOK
    <2>3. CountOK'
      <3>1. (Found(th + 1, i - 1))' = Found(th + 1, i - 1)
            /\ (Alarms(th + 1, i - 1))' = Alarms(th + 1, i - 1)
        BY <1>4, <2>1
      <3> QED
        BY <1>0, <1>4, <3>1 DEF CountOK
    <2>4. FollowOK'
      BY <1>0, <1>4, <2>1 DEF FollowOK
    <2>5. CountsExact'
      BY <1>0, <1>4, <2>1 DEF CountsExact
    <2>6. SampleMostPersistent'
      BY <1>0, <1>4, <2>1 DEF SampleMostPersistent
    <2>7. SampleDelaysExact'
      BY <1>0, <1>4, SameFollowed DEF SampleDelaysExact
    <2> QED
      BY <2>1, <2>2, <2>3, <2>4, <2>5, <2>6, <2>7 DEF SweepInv
  <1>5. CASE IndexError
    BY <1>4, <1>5 DEF IndexError
  <1>6. CASE UNCHANGED sweepVars
    BY <1>4, <1>6
  <1> QED
    BY <1>1, <1>2, <1>3, <1>5, <1>6 DEF NextSweep

LEMMA SweepInvariant == SpecSweep => []SweepInv
  <1>1. InitSweep => SweepInv
    BY SweepInvInit
  <1> QED
    BY <1>1, SweepInvStep, PTL DEF SpecSweep
-------------------------------------------------------------------------------------
\* For every detector, every file of attacks and either script, the hits and the false
\* alarms counted for a threshold are those that the times of the attacks tell apart.
THEOREM CountsAreExact == SpecSweep => []CountsExact
  <1>1. SweepInv => CountsExact
    BY DEF SweepInv
  <1> QED
    BY <1>1, SweepInvariant, PTL

\* The attack that is followed through all thresholds is the last one of those that are
\* detected up to the highest threshold.
THEOREM FollowedIsMostPersistent == SpecSweep => []SampleMostPersistent
  <1>1. SweepInv => SampleMostPersistent
    BY DEF SweepInv
  <1> QED
    BY <1>1, SweepInvariant, PTL

\* At every threshold that attack is given the delay of its first detection in a second that
\* is over when the attack is, or in its nine tenths; so it is found only at thresholds at
\* which the sweep counted it.
THEOREM FollowedIsCounted == SpecSweep => []SampleDelaysExact
  <1>1. SweepInv => SampleDelaysExact
    BY DEF SweepInv
  <1> QED
    BY <1>1, SweepInvariant, PTL

-------------------------------------------------------------------------------------
(* The generator of the attacks: what is proved of SynFlood, for any number of sockets  *)
(* that share any number of files.                                                    *)

\* What is known of Max.
LEMMA MaxOf ==
  ASSUME NEW S \in SUBSET Int, NEW x \in S, \A n \in S : n <= x
  PROVE  Max(S) = x
  <1>1. \A y \in S : (\A n \in S : n <= y) => y = x
    BY SMT
  <1> QED
    BY <1>1 DEF Max

Characters == [at : Nat, digit : Nat]

\* What is printed of a sequence of times is a sequence of characters.
LEMMA TextType ==
  ASSUME NEW q \in Seq(Nat)
  PROVE  Text(q) \in Seq(Characters)
  <1> DEFINE len == Len(q)  total == Before(q, Len(q) + 1)
  <1>0. len \in Nat /\ \A n \in 1 .. len : q[n] \in Nat
    BY LenProperties, ElementOfSeq
  <1>1. \A n \in Int : Before(q, n) \in Nat
    <2> SUFFICES ASSUME NEW n \in Int PROVE Before(q, n) \in Nat
      OBVIOUS
    <2> DEFINE P == (1 .. n - 1) \X {1, 2}  C == {c \in P : c[2] <= Width(q[c[1]])}
    <2>1. IsFiniteSet(P)
      <3>1. \A m \in Int : IsFiniteSet(1 .. m)
        BY FS_Interval
      <3>2. n - 1 \in Int /\ 2 \in Int
        OBVIOUS
      <3>3. 1 .. 2 = {1, 2}
        OBVIOUS
      <3> QED
        BY <3>1, <3>2, <3>3, FS_Product
    <2>2. IsFiniteSet(C)
      BY <2>1, FS_Subset
    <2>3. Cardinality(C) \in Nat
      BY <2>2, FS_CardinalityType
    <2> QED
      BY <2>3 DEF Before
  <1>2. Before(q, 1) = 0
    <2>1. {c \in (1 .. 1 - 1) \X {1, 2} : c[2] <= Width(q[c[1]])} = {}
      OBVIOUS
    <2> QED
      BY <2>1, FS_EmptySet DEF Before
  <1>3. total \in Nat
    BY <1>0, <1>1
  <1>4. ASSUME NEW c \in 1 .. total
        PROVE  Text(q)[c] \in Characters
    <2> DEFINE E == {k \in 1 .. len : c <= Before(q, k + 1)}
               Ok(k) == Before(q, k) < c /\ c <= Before(q, k + 1)
    <2>1. len # 0
      BY <1>2, <1>3
    <2>2. len \in E
      BY <1>0, <2>1
    <2>3. PICK k \in E : \A n \in E : k <= n
      <3>1. E \in SUBSET Nat /\ E # {}
        BY <1>0, <2>2
      <3> HIDE DEF E
      <3> QED
        BY <3>1, SmallestElement
    <2>4. Ok(k)
      <3>1. CASE k = 1
        BY <1>2, <2>3, <3>1
      <3>2. CASE k # 1
        <4> DEFINE e == k - 1
        <4>1. k \in 1 .. len /\ e \in 1 .. len /\ ~(k <= e) /\ e + 1 = k
          BY <1>0, <2>3, <3>2
        <4>2. e \notin E
          BY <2>3, <4>1
        <4> HIDE DEF e
        <4>3. ~(c <= Before(q, k))
          BY <4>1, <4>2
        <4> QED
          BY <1>0, <1>1, <1>3, <2>3, <4>1, <4>3
      <3> QED
        BY <3>1, <3>2
    <2> DEFINE n == CHOOSE m \in 1 .. len : Ok(m)
    <2>5. n \in 1 .. len /\ Ok(n)
      <3>1. \E m \in 1 .. len : Ok(m)
        BY <2>3, <2>4
      <3> HIDE DEF Ok, len
      <3> QED
        BY <3>1
    <2>6. Text(q)[c] = [at |-> q[n], digit |-> c - Before(q, n)]
      BY DEF Text
    <2> HIDE DEF n
    <2>7. q[n] \in Nat /\ c - Before(q, n) \in Nat
      <3>1. n \in Int /\ Before(q, n) < c
        BY <1>0, <2>5
      <3>2. Before(q, n) \in Nat /\ c \in Nat
        BY <1>1, <1>3, <3>1
      <3>3. q[n] \in Nat
        BY <1>0, <2>5
      <3> QED
        BY <3>1, <3>2, <3>3
    <2> QED
      BY <2>6, <2>7 DEF Characters
  <1>5. Text(q) = [c \in 1 .. total |-> Text(q)[c]]
    BY DEF Text
  <1> HIDE DEF total
  <1> QED
    <2> DEFINE f == Text(q)
    <2>1. f = [c \in 1 .. total |-> f[c]] /\ \A c \in 1 .. total : f[c] \in Characters
      BY <1>4, <1>5
    <2> HIDE DEF f
    <2>2. f \in [1 .. total -> Characters]
      BY <2>1
    <2>3. f \in Seq(Characters)
      BY <1>3, <2>2, SeqDef
    <2> QED
      BY <2>3 DEF f

\* What is in a file after a stream has written over it.
LEMMA OverlaidFacts ==
  ASSUME NEW S, NEW old \in Seq(S), NEW new \in Seq(S)
  PROVE  /\ Overlaid(old, new) \in Seq(S)
         /\ Len(Overlaid(old, new)) = IF Len(old) <= Len(new) THEN Len(new) ELSE Len(old)
         /\ IsPrefix(new, Overlaid(old, new))
  <1> DEFINE rest == SubSeq(old, Len(new) + 1, Len(old))  all == new \o rest
  <1>0. Len(old) \in Nat /\ Len(new) \in Nat
    BY LenProperties
  <1>1. /\ rest \in Seq(S)
        /\ Len(rest) = IF Len(old) <= Len(new) THEN 0 ELSE Len(old) - Len(new)
    BY <1>0, SubSeqProperties
  <1> HIDE DEF rest
  <1>2. /\ all \in Seq(S) /\ Len(all) = Len(new) + Len(rest)
        /\ \A n \in 1 .. Len(new) : all[n] = new[n]
    <2>1. \A n \in 1 .. Len(new) : n \in 1 .. Len(new) + Len(rest) /\ n <= Len(new)
      BY <1>0, <1>1
    <2> QED
      BY <1>1, <2>1, ConcatProperties
  <1>3. SubSeq(new, 1, Len(new)) = SubSeq(all, 1, Len(new))
    <2> HIDE DEF all
    <2>1. Len(rest) \in Nat /\ Len(new) <= Len(all)
      BY <1>0, <1>1, <1>2
    <2> QED
      BY <1>0, <1>2, <2>1
  <1> QED
    BY <1>0, <1>1, <1>2, <1>3 DEF Overlaid, IsPrefix, rest

-------------------------------------------------------------------------------------
(* The inductive invariant.                                                          *)

FloodTypeOK ==
  /\ now \in Nat
  /\ peer \in [Sockets -> Peers]
  /\ status \in [Sockets -> {"created", "connected", "closed"}]
  /\ local \in [Sockets -> Sockets \cup {NoAddress}]
  /\ sent \in [Sockets -> Seq([at : Nat, source : Sockets \cup {NoAddress, Random}])]
  /\ m_lastAttackTime \in [Sockets -> Nat]
  /\ record \in [Sockets -> Seq(Nat)]
  /\ file \in [Peers -> Seq(Characters)]
  /\ closers \in [Peers -> Seq(Sockets)]

\* The time of the last packet is the latest one at which a packet was sent.
LastOK ==
  \A s \in Sockets :
    /\ m_lastAttackTime[s] \in Times(s) \cup {0}
    /\ m_lastAttackTime[s] <= now
    /\ \A t \in Times(s) : t <= m_lastAttackTime[s]

\* A socket in a file is closed, so that its record does not change any more.
ClosersOK ==
  \A p \in Peers : \A n \in 1 .. Len(closers[p]) : status[closers[p][n]] = "closed"


\* The times at which bursts begin, among the times at which a socket sent packets.
Onsets(T) == {t \in T : \A u \in T \cup {0} : u < t => t - u > Gap} \ {0}

\* A later packet is the beginning of a burst if the last one was long enough ago, and
\* leaves the earlier beginnings what they are.
LEMMA OnsetsGrow ==
  ASSUME NEW T \in SUBSET Nat, NEW last \in T \cup {0}, \A t \in T : t <= last,
         NEW t \in Nat, last <= t
  PROVE  /\ Onsets(T \cup {t}) = IF t - last > Gap THEN Onsets(T) \cup {t} ELSE Onsets(T)
         /\ \A u \in Onsets(T) : u <= last
  <1>0. Gap \in Nat \ {0} /\ last \in Nat
    BY FloodAssumption
  <1>1. \A u \in T : u \in Onsets(T \cup {t}) <=> u \in Onsets(T)
    <2> SUFFICES ASSUME NEW u \in T
                 PROVE  u \in Onsets(T \cup {t}) <=> u \in Onsets(T)
      OBVIOUS
    <2>1. ~(t < u) /\ u \in Nat
      BY <1>0
    <2> QED
      BY <2>1 DEF Onsets
  <1>2. t \notin T => (t \in Onsets(T \cup {t}) <=> t - last > Gap)
    <2> SUFFICES ASSUME t \notin T
                 PROVE  t \in Onsets(T \cup {t}) <=> t - last > Gap
      OBVIOUS
    <2>1. CASE t = last
      <3>1. t = 0
        BY <2>1
      <3> QED
        BY <1>0, <2>1, <3>1 DEF Onsets
    <2>2. CASE t # last
      <3>1. last < t /\ t # 0
        BY <1>0, <2>2
      <3>2. t - last > Gap => \A u \in (T \cup {t}) \cup {0} : u < t => t - u > Gap
        BY <1>0
      <3>3. last \in (T \cup {t}) \cup {0}
        OBVIOUS
      <3> QED
        BY <3>1, <3>2, <3>3 DEF Onsets
    <2> QED
      BY <2>1, <2>2
  <1>3. t \in T => t = last /\ ~(t - last > Gap)
    BY <1>0
  <1>4. \A S : Onsets(S) \subseteq S
    BY DEF Onsets
  <1>5. Onsets(T \cup {t}) = IF t - last > Gap THEN Onsets(T) \cup {t} ELSE Onsets(T)
    <2>1. CASE t \in T
      BY <1>3, <2>1
    <2>2. CASE t \notin T
      <3>1. Onsets(T \cup {t}) \subseteq T \cup {t} /\ Onsets(T) \subseteq T
        BY <1>4
      <3>2. CASE t - last > Gap
        BY <1>1, <1>2, <2>2, <3>1, <3>2
      <3>3. CASE ~(t - last > Gap)
        <4>1. t \notin Onsets(T \cup {t})
          BY <1>2, <2>2, <3>3
        <4>2. \A u : u \in Onsets(T \cup {t}) <=> u \in Onsets(T)
          BY <1>1, <3>1, <4>1
        <4>3. Onsets(T \cup {t}) = Onsets(T)
          BY <4>2
        <4> QED
          BY <3>3, <4>3
      <3> QED
        BY <3>2, <3>3
    <2> QED
      BY <2>1, <2>2
  <1> QED
    BY <1>4, <1>5

\* The file of a peer, when the sockets cs were closed in this order, without a maximum.
FileIs(f, cs, rec) ==
  LET last == Len(cs)  TextOf(n) == Text(rec[cs[n]])
      L == {0} \cup {Len(TextOf(n)) : n \in 1 .. last}
  IN  /\ last > 0 => IsPrefix(TextOf(last), f)
      /\ Len(f) \in L /\ \A n \in L : n <= Len(f)

FilesOf == \A p \in Peers : FileIs(file[p], closers[p], record)

FloodInv == FloodTypeOK /\ LastOK /\ ClosersOK /\ OnsetsExact /\ FilesOf

\* That is so of a new file, and after one more socket has written to it.
LEMMA FileIsEmpty ==
  ASSUME NEW rec
  PROVE  FileIs(<< >>, << >>, rec)
  <1>1. Len(<< >>) = 0 /\ 1 .. 0 = {}
    OBVIOUS
  <1>2. {Len(Text(rec[<< >>[n]])) : n \in 1 .. Len(<< >>)} = {}
    BY <1>1
  <1> QED
    BY <1>1, <1>2 DEF FileIs

LEMMA FileIsOverlaid ==
  ASSUME NEW rec \in [Sockets -> Seq(Nat)], NEW cs \in Seq(Sockets), NEW s \in Sockets,
         NEW f \in Seq(Characters), FileIs(f, cs, rec)
  PROVE  /\ Overlaid(f, Text(rec[s])) \in Seq(Characters)
         /\ FileIs(Overlaid(f, Text(rec[s])), Append(cs, s), rec)
  <1> DEFINE new == Text(rec[s])  g == Overlaid(f, new)  ds == Append(cs, s)
             TextOf(n) == Text(rec[cs[n]])  TextOfNew(n) == Text(rec[ds[n]])
             L == {0} \cup {Len(TextOf(n)) : n \in 1 .. Len(cs)}
             M == {0} \cup {Len(TextOfNew(n)) : n \in 1 .. Len(ds)}
  <1>1. new \in Seq(Characters) /\ Len(new) \in Nat /\ Len(f) \in Nat
    BY TextType, LenProperties
  <1>2. /\ g \in Seq(Characters) /\ IsPrefix(new, g)
        /\ Len(g) = IF Len(f) <= Len(new) THEN Len(new) ELSE Len(f)
    <2> HIDE DEF new
    <2> QED
      BY <1>1, OverlaidFacts
  <1>3. /\ Len(cs) \in Nat /\ Len(ds) = Len(cs) + 1 /\ ds[Len(cs) + 1] = s
        /\ \A n \in 1 .. Len(cs) : cs[n] \in Sockets /\ ds[n] = cs[n]
    BY AppendProperties, LenProperties, ElementOfSeq
  <1>4. \A n \in 1 .. Len(cs) : TextOfNew(n) = TextOf(n) /\ Len(TextOf(n)) \in Nat
    <2>1. \A n \in 1 .. Len(cs) : TextOf(n) \in Seq(Characters)
      BY <1>3, TextType
    <2> QED
      BY <1>3, <2>1, LenProperties
  <1>5. TextOfNew(Len(cs) + 1) = new
    BY <1>3
  <1>6. Len(f) \in L /\ \A n \in L : n <= Len(f)
    BY DEF FileIs
  <1> HIDE DEF new, TextOf, TextOfNew, ds, g
  <1>7. M = L \cup {Len(new)}
    <2>1. 1 .. Len(ds) = (1 .. Len(cs)) \cup {Len(cs) + 1}
      BY <1>3
    <2> QED
      BY <1>4, <1>5, <2>1
  <1>8. L \in SUBSET Nat
    BY <1>4
  <1>9. Len(g) \in M /\ \A n \in M : n <= Len(g)
    <2> HIDE DEF L, M
    <2>1. Len(g) \in M
      BY <1>2, <1>6, <1>7
    <2>2. \A n \in M : n <= Len(g)
      BY <1>1, <1>2, <1>6, <1>7, <1>8
    <2> QED
      BY <2>1, <2>2
  <1>10. IsPrefix(TextOfNew(Len(ds)), g)
    BY <1>2, <1>3, <1>5
  <1> QED
    BY <1>2, <1>9, <1>10 DEF FileIs, M, TextOfNew, ds, g, new

\* A file depends on the records of the sockets that were closed alone.
LEMMA FileIsSame ==
  ASSUME NEW f, NEW cs, NEW rec, NEW rec2, \A n \in 1 .. Len(cs) : rec2[cs[n]] = rec[cs[n]],
         Len(cs) \in Nat, FileIs(f, cs, rec)
  PROVE  FileIs(f, cs, rec2)
  <1>1. \A n \in 1 .. Len(cs) : Text(rec2[cs[n]]) = Text(rec[cs[n]])
    OBVIOUS
  <1>2. {Len(Text(rec2[cs[n]])) : n \in 1 .. Len(cs)}
          = {Len(Text(rec[cs[n]])) : n \in 1 .. Len(cs)}
    BY <1>1
  <1>3. Len(cs) > 0 => Len(cs) \in 1 .. Len(cs)
    OBVIOUS
  <1> QED
    BY <1>1, <1>2, <1>3 DEF FileIs

LEMMA FileOf ==
  ASSUME NEW f, NEW cs \in Seq(Sockets), NEW rec \in [Sockets -> Seq(Nat)], FileIs(f, cs, rec)
  PROVE  LET last == Len(cs)  TextOf(n) == Text(rec[cs[n]])
         IN  /\ last > 0 => IsPrefix(TextOf(last), f)
             /\ Len(f) = Max({0} \cup {Len(TextOf(n)) : n \in 1 .. last})
  <1> DEFINE L == {0} \cup {Len(Text(rec[cs[n]])) : n \in 1 .. Len(cs)}
  <1>1. \A n \in 1 .. Len(cs) : Len(Text(rec[cs[n]])) \in Nat
    <2>1. \A n \in 1 .. Len(cs) : rec[cs[n]] \in Seq(Nat)
      BY ElementOfSeq
    <2>2. \A n \in 1 .. Len(cs) : Text(rec[cs[n]]) \in Seq(Characters)
      BY <2>1, TextType
    <2> QED
      BY <2>2, LenProperties
  <1>2. L \in SUBSET Int
    BY <1>1
  <1>3. Len(f) \in L /\ \A n \in L : n <= Len(f)
    BY DEF FileIs
  <1> HIDE DEF L
  <1>4. Max(L) = Len(f)
    BY <1>2, <1>3, MaxOf
  <1> QED
    BY <1>4 DEF FileIs, L

-------------------------------------------------------------------------------------

LEMMA FloodInvInit == InitFlood => FloodInv
  <1> SUFFICES ASSUME InitFlood PROVE FloodInv
    OBVIOUS
  <1>1. << >> \in Seq(Nat) /\ << >> \in Seq(Sockets) /\ << >> \in Seq(Characters)
        /\ << >> \in Seq([at : Nat, source : Sockets \cup {NoAddress, Random}])
        /\ Len(<< >>) = 0
    OBVIOUS
  <1>2. FloodTypeOK
    BY <1>1 DEF InitFlood, FloodTypeOK
  <1>3. \A s \in Sockets : Times(s) = {}
    BY <1>1 DEF InitFlood, Times
  <1>4. LastOK
    BY <1>3 DEF InitFlood, LastOK
  <1>5. ClosersOK
    BY DEF InitFlood, ClosersOK
  <1>6. OnsetsExact
    BY <1>3 DEF InitFlood, OnsetsExact, ToSet
  <1>7. FilesOf
    BY FileIsEmpty DEF InitFlood, FilesOf
  <1> QED
    BY <1>2, <1>4, <1>5, <1>6, <1>7 DEF FloodInv

\* A packet.
LEMMA SendStep ==
  ASSUME FloodInv, NEW s \in Sockets, Send(s)
  PROVE  FloodInv'
  <1> DEFINE last == m_lastAttackTime[s]
             source == IF Randomize THEN Random ELSE local[s]
             packet == [at |-> now, source |-> source]
             q == record[s]
  <1>0. FloodTypeOK /\ LastOK /\ ClosersOK /\ OnsetsExact /\ FilesOf
    BY DEF FloodInv
  <1>1. /\ status[s] = "connected"
        /\ sent' = [sent EXCEPT ![s] = Append(sent[s], packet)]
        /\ record' = [record EXCEPT ![s] = IF now - last > Gap THEN Append(q, now) ELSE q]
        /\ m_lastAttackTime' = [m_lastAttackTime EXCEPT ![s] = now]
        /\ UNCHANGED <<now, peer, status, local, file, closers>>
    BY DEF Send, LastSent
  <1>2. /\ now \in Nat /\ last \in Nat /\ q \in Seq(Nat)
        /\ sent[s] \in Seq([at : Nat, source : Sockets \cup {NoAddress, Random}])
        /\ packet \in [at : Nat, source : Sockets \cup {NoAddress, Random}]
    BY <1>0 DEF FloodTypeOK
  <1>3. Append(q, now) \in Seq(Nat)
        /\ Append(sent[s], packet) \in Seq([at : Nat, source : Sockets \cup {NoAddress, Random}])
    <2> HIDE DEF packet, q
    <2> QED
      BY <1>2, AppendProperties
  <1> HIDE DEF last
  <1>4. FloodTypeOK'
    <2> HIDE DEF packet, q
    <2>1. /\ sent' \in [Sockets -> Seq([at : Nat, source : Sockets \cup {NoAddress, Random}])]
          /\ record' \in [Sockets -> Seq(Nat)]
          /\ m_lastAttackTime' \in [Sockets -> Nat]
      <3>1. record \in [Sockets -> Seq(Nat)] /\
              (IF now - last > Gap THEN Append(q, now) ELSE q) \in Seq(Nat)
        BY <1>0, <1>2, <1>3 DEF FloodTypeOK
      <3> QED
        BY <1>0, <1>1, <1>2, <1>3, <3>1 DEF FloodTypeOK
    <2> QED
      BY <1>0, <1>1, <2>1 DEF FloodTypeOK
  <1>5. /\ record'[s] = IF now - last > Gap THEN Append(q, now) ELSE q
        /\ m_lastAttackTime'[s] = now /\ sent'[s] = Append(sent[s], packet)
        /\ \A r \in Sockets \ {s} : /\ record'[r] = record[r] /\ sent'[r] = sent[r]
                                   /\ m_lastAttackTime'[r] = m_lastAttackTime[r]
    BY <1>0, <1>1 DEF FloodTypeOK
  <1>6. Times(s)' = Times(s) \cup {now} /\ \A r \in Sockets \ {s} : Times(r)' = Times(r)
    <2>1. \A r \in Sockets \ {s} : Times(r)' = Times(r)
      BY <1>5 DEF Times
    <2>2. Times(s)' = Times(s) \cup {now}
      <3> DEFINE n == Len(sent[s])  all == Append(sent[s], packet)
      <3>1. n \in Nat /\ Len(all) = n + 1 /\ all[n + 1] = packet
            /\ \A k \in 1 .. n : all[k] = sent[s][k]
        <4> HIDE DEF packet
        <4> QED
          BY <1>2, AppendProperties, LenProperties
      <3>2. Times(s)' = {all[k].at : k \in 1 .. Len(all)}
        BY <1>5 DEF Times
      <3>3. packet.at = now
        OBVIOUS
      <3> HIDE DEF all, packet
      <3>4. 1 .. Len(all) = (1 .. n) \cup {n + 1}
        BY <3>1
      <3>5. {all[k].at : k \in 1 .. Len(all)} = {sent[s][k].at : k \in 1 .. n} \cup {now}
        BY <3>1, <3>3, <3>4
      <3> QED
        BY <3>2, <3>5 DEF Times
    <2> QED
      BY <2>1, <2>2
  <1>7. \A r \in Sockets : Times(r) \subseteq Nat
    <2> SUFFICES ASSUME NEW r \in Sockets, NEW k \in 1 .. Len(sent[r])
                 PROVE  sent[r][k].at \in Nat
      BY DEF Times
    <2>1. sent[r] \in Seq([at : Nat, source : Sockets \cup {NoAddress, Random}])
      BY <1>0 DEF FloodTypeOK
    <2>2. sent[r][k] \in [at : Nat, source : Sockets \cup {NoAddress, Random}]
      BY <2>1, ElementOfSeq
    <2> QED
      BY <2>2
  <1>8. last \in Times(s) \cup {0} /\ last <= now /\ \A t \in Times(s) : t <= last
    BY <1>0 DEF LastOK, last
  <1>9. LastOK'
    <2> SUFFICES ASSUME NEW r \in Sockets
                 PROVE  /\ m_lastAttackTime'[r] \in Times(r)' \cup {0}
                        /\ m_lastAttackTime'[r] <= now'
                        /\ \A t \in Times(r)' : t <= m_lastAttackTime'[r]
      BY DEF LastOK
    <2>1. CASE r = s
      <3>1. \A t \in Times(s) \cup {now} : t <= now
        BY <1>2, <1>7, <1>8
      <3> QED
        BY <1>1, <1>2, <1>5, <1>6, <2>1, <3>1
    <2>2. CASE r # s
      BY <1>0, <1>1, <1>5, <1>6, <2>2 DEF LastOK
    <2> QED
      BY <2>1, <2>2
  <1>10. ClosersOK'
    BY <1>0, <1>1 DEF ClosersOK
  <1>11. /\ Onsets(Times(s) \cup {now}) = IF now - last > Gap THEN Onsets(Times(s)) \cup {now}
                                                          ELSE Onsets(Times(s))
         /\ \A u \in Onsets(Times(s)) : u <= last
    BY <1>2, <1>7, <1>8, OnsetsGrow
  <1>12. /\ ToSet(q) = Onsets(Times(s))
         /\ \A m, n \in 1 .. Len(q) : m < n => q[m] < q[n]
    BY <1>0 DEF OnsetsExact, Onsets
  <1>13. /\ ToSet(record'[s]) = Onsets(Times(s)')
         /\ \A m, n \in 1 .. Len(record'[s]) : m < n => record'[s][m] < record'[s][n]
    <2>1. CASE ~(now - last > Gap)
      BY <1>5, <1>6, <1>11, <1>12, <2>1
    <2>2. CASE now - last > Gap
      <3> DEFINE len == Len(q)  all == Append(q, now)
      <3> HIDE DEF q
      <3>1. len \in Nat /\ Len(all) = len + 1 /\ all[len + 1] = now
            /\ \A k \in 1 .. len : all[k] = q[k]
        BY <1>2, AppendProperties, LenProperties
      <3>2. DOMAIN q = 1 .. len /\ DOMAIN all = 1 .. Len(all)
        BY <1>2, <1>3, LenProperties
      <3>3. \A k \in 1 .. len : q[k] \in Nat /\ q[k] < now
        <4>1. \A k \in 1 .. len : q[k] \in Onsets(Times(s)) /\ q[k] \in Nat
          BY <1>2, <1>12, <3>2, ElementOfSeq DEF ToSet
        <4>2. Gap \in Nat \ {0}
          BY FloodAssumption
        <4>3. last < now
          BY <1>2, <2>2, <4>2
        <4> QED
          BY <1>2, <1>11, <4>1, <4>3
      <3> HIDE DEF all, len
      <3>4. 1 .. Len(all) = (1 .. len) \cup {len + 1}
        BY <3>1
      <3>5. ToSet(all) = ToSet(q) \cup {now}
        BY <3>1, <3>2, <3>4 DEF ToSet
      <3>6. \A m, n \in 1 .. Len(all) : m < n => all[m] < all[n]
        <4> SUFFICES ASSUME NEW m \in 1 .. Len(all), NEW n \in 1 .. Len(all), m < n
                     PROVE  all[m] < all[n]
          OBVIOUS
        <4>1. m \in 1 .. len
          BY <3>1, <3>4
        <4>2. CASE n = len + 1
          BY <3>1, <3>3, <4>1, <4>2
        <4>3. CASE n \in 1 .. len
          BY <1>12, <3>1, <4>1, <4>3 DEF len
        <4> QED
          BY <3>4, <4>2, <4>3
      <3> QED
        BY <1>5, <1>6, <1>11, <1>12, <2>2, <3>5, <3>6 DEF all
    <2> QED
      BY <2>1, <2>2
  <1>14. OnsetsExact'
    <2> SUFFICES ASSUME NEW r \in Sockets
                 PROVE  /\ ToSet(record'[r]) = Onsets(Times(r)')
                        /\ \A m, n \in 1 .. Len(record'[r]) :
                             m < n => record'[r][m] < record'[r][n]
      BY DEF OnsetsExact, Onsets
    <2>1. CASE r = s
      BY <1>13, <2>1
    <2>2. CASE r # s
      <3>1. record'[r] = record[r] /\ Times(r)' = Times(r)
        BY <1>5, <1>6, <2>2
      <3>2. /\ ToSet(record[r]) = Onsets(Times(r))
            /\ \A m, n \in 1 .. Len(record[r]) : m < n => record[r][m] < record[r][n]
        BY <1>0 DEF OnsetsExact, Onsets
      <3> QED
        BY <3>1, <3>2
    <2> QED
      BY <2>1, <2>2
  <1>15. FilesOf'
    <2> SUFFICES ASSUME NEW p \in Peers
                 PROVE  FileIs(file[p], closers[p], record')
      BY <1>1 DEF FilesOf
    <2>1. closers[p] \in Seq(Sockets) /\ Len(closers[p]) \in Nat
      BY <1>0, LenProperties DEF FloodTypeOK
    <2>2. \A n \in 1 .. Len(closers[p]) : record'[closers[p][n]] = record[closers[p][n]]
      <3> SUFFICES ASSUME NEW n \in 1 .. Len(closers[p])
                   PROVE  record'[closers[p][n]] = record[closers[p][n]]
        OBVIOUS
      <3>1. closers[p][n] \in Sockets
        BY <2>1, ElementOfSeq
      <3>2. status[closers[p][n]] = "closed"
        BY <1>0 DEF ClosersOK
      <3> QED
        BY <1>1, <1>5, <3>1, <3>2
    <2> QED
      BY <1>0, <2>1, <2>2, FileIsSame DEF FilesOf
  <1> QED
    BY <1>4, <1>9, <1>10, <1>14, <1>15 DEF FloodInv

\* A step that sends nothing leaves what is recorded.
LEMMA SameRecords ==
  ASSUME UNCHANGED <<sent, record>>
  PROVE  (\A s \in Sockets : Times(s)' = Times(s)) /\ (OnsetsExact => OnsetsExact')
  <1>1. \A s \in Sockets : Times(s)' = Times(s)
    BY DEF Times
  <1>2. ASSUME OnsetsExact, NEW s \in Sockets
        PROVE  /\ ToSet(record'[s]) = Onsets(Times(s)')
               /\ \A m, n \in 1 .. Len(record'[s]) : m < n => record'[s][m] < record'[s][n]
    <2>1. /\ ToSet(record[s]) = Onsets(Times(s))
          /\ \A m, n \in 1 .. Len(record[s]) : m < n => record[s][m] < record[s][n]
      BY <1>2 DEF OnsetsExact, Onsets
    <2>2. record'[s] = record[s]
      OBVIOUS
    <2> QED
      BY <1>1, <2>1, <2>2
  <1>3. OnsetsExact => OnsetsExact'
    BY <1>2 DEF OnsetsExact, Onsets
  <1> QED
    BY <1>1, <1>3

\* The file is created anew.
LEMMA ConnectStep ==
  ASSUME FloodInv, NEW s \in Sockets, Connect(s)
  PROVE  FloodInv'
  <1>0. FloodTypeOK /\ LastOK /\ ClosersOK /\ OnsetsExact /\ FilesOf
    BY DEF FloodInv
  <1>1. /\ status[s] = "created" /\ peer[s] \in Peers
        /\ status' = [status EXCEPT ![s] = "connected"]
        /\ local' = [local EXCEPT ![s] = IF s \in Routed THEN s ELSE @]
        /\ file' = [file EXCEPT ![peer[s]] = << >>]
        /\ closers' = [closers EXCEPT ![peer[s]] = << >>]
        /\ UNCHANGED <<now, peer, sent, m_lastAttackTime, record>>
    BY <1>0 DEF Connect, FloodTypeOK
  <1>2. << >> \in Seq(Characters) /\ << >> \in Seq(Sockets) /\ Len(<< >>) = 0
    OBVIOUS
  <1>3. FloodTypeOK'
    BY <1>0, <1>1, <1>2 DEF FloodTypeOK
  <1>4. LastOK' /\ OnsetsExact'
    BY <1>0, <1>1, SameRecords DEF LastOK
  <1>5. /\ file'[peer[s]] = << >> /\ closers'[peer[s]] = << >>
        /\ \A p \in Peers \ {peer[s]} : file'[p] = file[p] /\ closers'[p] = closers[p]
    BY <1>0, <1>1 DEF FloodTypeOK
  <1>6. ClosersOK'
    <2> SUFFICES ASSUME NEW p \in Peers, NEW n \in 1 .. Len(closers'[p])
                 PROVE  status'[closers'[p][n]] = "closed"
      BY DEF ClosersOK
    <2>1. p # peer[s]
      BY <1>2, <1>5
    <2>2. closers'[p] = closers[p] /\ status[closers[p][n]] = "closed"
      BY <1>0, <1>5, <2>1 DEF ClosersOK
    <2>3. closers[p][n] # s
      BY <1>1, <2>2
    <2>4. status'[closers[p][n]] = status[closers[p][n]]
      <3>1. closers[p] \in Seq(Sockets) /\ n \in 1 .. Len(closers[p])
        BY <1>0, <2>2 DEF FloodTypeOK
      <3>2. closers[p][n] \in Sockets
        BY <3>1, ElementOfSeq
      <3> QED
        BY <1>0, <1>1, <2>3, <3>2 DEF FloodTypeOK
    <2> QED
      BY <2>2, <2>4
  <1>7. FilesOf'
    <2> SUFFICES ASSUME NEW p \in Peers
                 PROVE  FileIs(file'[p], closers'[p], record)
      BY <1>1 DEF FilesOf
    <2>1. CASE p = peer[s]
      BY <1>5, <2>1, FileIsEmpty
    <2>2. CASE p # peer[s]
      BY <1>0, <1>5, <2>2 DEF FilesOf
    <2> QED
      BY <2>1, <2>2
  <1> QED
    BY <1>3, <1>4, <1>6, <1>7 DEF FloodInv

\* A stream writes over what is in the file.
LEMMA CloseStep ==
  ASSUME FloodInv, NEW s \in Sockets, Close(s)
  PROVE  FloodInv'
  <1> DEFINE P == peer[s]  new == Overlaid(file[P], Text(record[s]))
             after == Append(closers[P], s)
  <1>0. FloodTypeOK /\ LastOK /\ ClosersOK /\ OnsetsExact /\ FilesOf
    BY DEF FloodInv
  <1>1. /\ P \in Peers
        /\ status' = [status EXCEPT ![s] = "closed"]
        /\ file' = [file EXCEPT ![P] = new]
        /\ closers' = [closers EXCEPT ![P] = after]
        /\ UNCHANGED <<now, peer, local, sent, m_lastAttackTime, record>>
    BY <1>0 DEF Close, FloodTypeOK
  <1>2. record \in [Sockets -> Seq(Nat)] /\ closers[P] \in Seq(Sockets)
        /\ file[P] \in Seq(Characters) /\ FileIs(file[P], closers[P], record)
    BY <1>0, <1>1 DEF FloodTypeOK, FilesOf
  <1>3. new \in Seq(Characters) /\ FileIs(new, after, record)
    BY <1>2, FileIsOverlaid
  <1>4. /\ after \in Seq(Sockets) /\ Len(closers[P]) \in Nat
        /\ Len(after) = Len(closers[P]) + 1 /\ after[Len(closers[P]) + 1] = s
        /\ \A n \in 1 .. Len(closers[P]) : after[n] = closers[P][n]
    BY <1>2, AppendProperties, LenProperties
  <1> HIDE DEF new, after
  <1>5. FloodTypeOK'
    BY <1>0, <1>1, <1>3, <1>4 DEF FloodTypeOK
  <1>6. LastOK' /\ OnsetsExact'
    BY <1>0, <1>1, SameRecords DEF LastOK
  <1>7. /\ file'[P] = new /\ closers'[P] = after
        /\ \A p \in Peers \ {P} : file'[p] = file[p] /\ closers'[p] = closers[p]
    BY <1>0, <1>1 DEF FloodTypeOK
  <1>8. status'[s] = "closed" /\ \A r : status[r] = "closed" /\ r \in Sockets
          => status'[r] = "closed"
    BY <1>0, <1>1 DEF FloodTypeOK
  <1>9. ClosersOK'
    <2> SUFFICES ASSUME NEW p \in Peers, NEW n \in 1 .. Len(closers'[p])
                 PROVE  status'[closers'[p][n]] = "closed"
      BY DEF ClosersOK
    <2>1. \A m \in 1 .. Len(closers[p]) :
            closers[p][m] \in Sockets /\ status[closers[p][m]] = "closed"
      <3>1. closers[p] \in Seq(Sockets)
        BY <1>0 DEF FloodTypeOK
      <3> QED
        BY <1>0, <3>1, ElementOfSeq DEF ClosersOK
    <2>2. CASE p = P
      <3>1. n = Len(closers[P]) + 1 \/ n \in 1 .. Len(closers[P])
        BY <1>4, <1>7, <2>2
      <3>2. CASE n = Len(closers[P]) + 1
        BY <1>4, <1>7, <1>8, <2>2, <3>2
      <3>3. CASE n \in 1 .. Len(closers[P])
        BY <1>4, <1>7, <1>8, <2>1, <2>2, <3>3
      <3> QED
        BY <3>1, <3>2, <3>3
    <2>3. CASE p # P
      BY <1>7, <1>8, <2>1, <2>3
    <2> QED
      BY <2>2, <2>3
  <1>10. FilesOf'
    <2> SUFFICES ASSUME NEW p \in Peers
                 PROVE  FileIs(file'[p], closers'[p], record)
      BY <1>1 DEF FilesOf
    <2>1. CASE p = P
      BY <1>3, <1>7, <2>1
    <2>2. CASE p # P
      BY <1>0, <1>7, <2>2 DEF FilesOf
    <2> QED
      BY <2>1, <2>2
  <1> QED
    BY <1>5, <1>6, <1>9, <1>10 DEF FloodInv

LEMMA FloodInvStep == FloodInv /\ [NextFlood]_floodVars => FloodInv'
  <1> SUFFICES ASSUME FloodInv, [NextFlood]_floodVars
               PROVE  FloodInv'
    OBVIOUS
  <1>0. FloodTypeOK /\ LastOK /\ ClosersOK /\ OnsetsExact /\ FilesOf
    BY DEF FloodInv
  <1>1. ASSUME now' \in {now, now + 1},
               UNCHANGED <<peer, status, local, sent, m_lastAttackTime, record, file, closers>>
        PROVE  FloodInv'
    <2>1. now \in Nat /\ now' \in Nat /\ now <= now' /\
            \A s \in Sockets : m_lastAttackTime[s] \in Nat
      BY <1>0, <1>1 DEF FloodTypeOK
    <2>2. FloodTypeOK'
      BY <1>0, <1>1, <2>1 DEF FloodTypeOK
    <2>3. \A s \in Sockets : Times(s)' = Times(s)
      BY <1>1 DEF Times
    <2>4. LastOK'
      <3>1. \A s \in Sockets : m_lastAttackTime[s] <= now'
        BY <1>0, <2>1 DEF LastOK
      <3> QED
        BY <1>0, <1>1, <2>3, <3>1 DEF LastOK
    <2>5. ClosersOK' /\ FilesOf'
      BY <1>0, <1>1 DEF ClosersOK, FilesOf
    <2>6. OnsetsExact'
      BY <1>0, <1>1, SameRecords
    <2> QED
      BY <2>2, <2>4, <2>5, <2>6 DEF FloodInv
  <1>2. CASE Tick
    BY <1>1, <1>2 DEF Tick
  <1>3. CASE UNCHANGED floodVars
    BY <1>1, <1>3 DEF floodVars
  <1>4. CASE \E s \in Sockets : Connect(s) \/ Send(s) \/ Close(s)
    BY <1>4, ConnectStep, SendStep, CloseStep
  <1> QED
    BY <1>2, <1>3, <1>4 DEF NextFlood

LEMMA FloodInvariant == SpecFlood => []FloodInv
  BY FloodInvInit, FloodInvStep, PTL DEF SpecFlood
-------------------------------------------------------------------------------------
\* For any number of attackers: each has recorded the times at which its bursts began.
THEOREM OnsetsAreRecorded == SpecFlood => []OnsetsExact
  <1>1. FloodInv => OnsetsExact
    BY DEF FloodInv
  <1> QED
    BY <1>1, FloodInvariant, PTL

\* Whoever shares a file, it begins with the record of the socket closed last, and is as
\* long as the longest one closed since it was created.
THEOREM FileIsLastCloser == SpecFlood => []FileOfLastCloser
  <1>1. FloodInv => FileOfLastCloser
    <2> SUFFICES ASSUME FloodInv, NEW p \in Peers
                 PROVE  LET last == Len(closers[p])  TextOf(n) == Text(record[closers[p][n]])
                        IN  /\ last > 0 => IsPrefix(TextOf(last), file[p])
                            /\ Len(file[p]) = Max({0} \cup {Len(TextOf(n)) : n \in 1 .. last})
      BY DEF FileOfLastCloser
    <2>1. /\ closers[p] \in Seq(Sockets) /\ record \in [Sockets -> Seq(Nat)]
          /\ FileIs(file[p], closers[p], record)
      BY DEF FloodInv, FloodTypeOK, FilesOf
    <2> QED
      BY <2>1, FileOf
  <1> QED
    BY <1>1, FloodInvariant, PTL
====================================================================================
