---------------------------------- MODULE Pipeline ----------------------------------
(***********************************************************************************)
(* The test driver work.py.  For every test it runs the analyser and the plots in the  *)
(* directory output, starts a shell that moves the files into a subdirectory, runs the *)
(* detectors on these files, and archives the directory.  It waits for every program   *)
(* but the shell: the movers of several tests may run beside it, each in the directory *)
(* it was started in, wherever that directory has been moved to.                       *)
(***********************************************************************************)
EXTENDS Naturals, Sequences, SequencesExt

CONSTANTS
  Tests,       \* a sequence of [f |-> capture, entropy |-> kind of entropy]
  Cusums,      \* cusums: the names the detectors read, in the order they are run
  TxtFiles     \* the names the analyser writes, in the order in which a shell lists them

ASSUME PipelineAssumption ==
  /\ Tests \in Seq([f : STRING, entropy : STRING])
  /\ Tests # << >>
  /\ Cusums \in Seq(STRING) /\ TxtFiles \in Seq(STRING)
  /\ Cusums # << >>
  /\ IsInjective(Cusums) /\ IsInjective(TxtFiles)
  /\ ToSet(Cusums) \subseteq ToSet(TxtFiles)

TestIds == 1 .. Len(Tests)
Old == Len(Tests) + 1                 \* the directory an earlier run has left
Dirs == TestIds \cup {Old}
Kinds == {"png", "txt"}
Files == ToSet(TxtFiles) \X Kinds

VARIABLES
  pc,          \* what the driver does next
  test,        \* the test that it works on
  det,         \* the detector that it runs
  outputs,     \* a directory of that name exists
  output,      \* the directory that has the name output, or 0
  data,        \* it has a subdirectory data
  root,        \* the files in a directory,
  moved,       \*   and those in its subdirectory entropy
  mover,       \* the shell working in a directory: "none", what it moves, or "done"
  read,        \* what the detectors found: "none" yet, "absent" or "read"
  made,        \* the directories made below outputs
  archive      \* the directory that was archived for a test, or 0

driver == <<pc, test, det, output, data, read, made, archive>>
pipeVars == <<driver, outputs, root, moved, mover>>
-------------------------------------------------------------------------------------
Init ==
  /\ pc = "make"
  /\ test = 0
  /\ det = 0
  /\ outputs \in BOOLEAN
  /\ output \in {0, Old}
  /\ data = FALSE
  /\ root = [k \in Dirs |-> {}]
  /\ moved = [k \in Dirs |-> {}]
  /\ mover = [k \in Dirs |-> "none"]
  /\ read = [k \in TestIds |-> [c \in ToSet(Cusums) |-> "none"]]
  /\ made = {}
  /\ archive = [k \in TestIds |-> 0]

\* make, and the end of the driver when it fails.
Make ==
  /\ pc = "make"
  /\ pc' \in {"clean", "stopped"}
  /\ UNCHANGED <<test, det, outputs, output, data, root, moved, mover, read, made, archive>>

\* rm -rf output.
Clean ==
  /\ pc = "clean"
  /\ output' = 0
  /\ test' = 1
  /\ pc' = "prepare"
  /\ UNCHANGED <<det, outputs, data, root, moved, mover, read, made, archive>>

\* A test begins without a directory output.
Prepare ==
  /\ pc = "prepare"
  /\ output' = 0
  /\ pc' = "analyse"
  /\ UNCHANGED <<test, det, outputs, data, root, moved, mover, read, made, archive>>

\* The analyser makes the directory; when it cannot read the capture it writes no file.
\* Its exit status is not looked at.
Analyse ==
  /\ pc = "analyse"
  /\ output' = IF output = 0 THEN test ELSE output
  /\ \E written \in {{}, ToSet(TxtFiles)} :
       root' = [root EXCEPT ![output'] = @ \cup (written \X {"txt"})]
  /\ pc' = "plot"
  /\ UNCHANGED <<test, det, outputs, data, moved, mover, read, made, archive>>

\* The files are plotted one after the other, up to an error or the last.
Plot ==
  /\ pc = "plot"
  /\ \E m \in 0 .. Len(TxtFiles) :
       LET plotted == {x \in ToSet(SubSeq(TxtFiles, 1, m)) : <<x, "txt">> \in root[output]}
       IN  root' = [root EXCEPT ![output] = @ \cup (plotted \X {"png"})]
  /\ pc' = "move"
  /\ UNCHANGED <<test, det, outputs, output, data, moved, mover, read, made, archive>>

\* The shell is started, and not waited for.
StartMover ==
  /\ pc = "move"
  /\ mover' = [mover EXCEPT ![output] = "mkdir"]
  /\ det' = 1
  /\ pc' = "data"
  /\ UNCHANGED <<test, outputs, output, data, root, moved, read, made, archive>>

\* os.mkdir() fails when the directory exists.
MakeData ==
  /\ pc = "data"
  /\ data' = TRUE
  /\ pc' = IF data THEN "stopped" ELSE "detect"
  /\ UNCHANGED <<test, det, outputs, output, root, moved, mover, read, made, archive>>

\* A detector reads its file where the shell moves it, or ends when it is not there.
Detect ==
  /\ pc = "detect"
  /\ read' = [read EXCEPT ![test][Cusums[det]] =
                IF <<Cusums[det], "txt">> \in moved[output] THEN "read" ELSE "absent"]
  /\ pc' = "save"
  /\ UNCHANGED <<test, det, outputs, output, data, root, moved, mover, made, archive>>

\* The directory data is renamed after the detector; the next detector, or the archive.
SaveData ==
  /\ pc = "save"
  /\ data' = FALSE
  /\ IF det < Len(Cusums) THEN det' = det + 1 /\ pc' = "data"
                            ELSE det' = 0 /\ pc' = "outdir"
  /\ UNCHANGED <<test, outputs, output, root, moved, mover, read, made, archive>>

\* The directories of the capture and of the kind of entropy are made once.  The first
\* cannot be made when there is no directory outputs, or when it exists.
MainDir == <<Tests[test].f>>
EntropyDir == <<Tests[test].f, Tests[test].entropy>>
NotMade == MainDir \notin made
CanMake == outputs /\ MainDir \notin made

MakeDirs ==
  /\ pc = "outdir"
  /\ IF NotMade => CanMake
     THEN made' = made \cup {MainDir, EntropyDir} /\ pc' = "archive"
     ELSE made' = made /\ pc' = "stopped"
  /\ UNCHANGED <<test, det, outputs, output, data, root, moved, mover, read, archive>>

\* Mistake: only archived below a directory that has just been made.
ArchiveIfNew ==
  /\ pc = "archive"
  /\ IF \A k \in 1 .. test - 1 : Tests[k].entropy # Tests[test].entropy
     THEN archive' = [archive EXCEPT ![test] = output] /\ output' = 0
     ELSE UNCHANGED <<archive, output>>
  /\ test' = test + 1
  /\ pc' = IF test < Len(Tests) THEN "prepare" ELSE "done"
  /\ UNCHANGED <<det, outputs, data, root, moved, mover, read, made>>

Archive ==
  /\ pc = "archive"
  /\ archive' = [archive EXCEPT ![test] = output]
  /\ output' = 0
  /\ test' = test + 1
  /\ pc' = IF test < Len(Tests) THEN "prepare" ELSE "done"
  /\ UNCHANGED <<det, outputs, data, root, moved, mover, read, made>>

Driver == \/ Make \/ Clean \/ Prepare \/ Analyse \/ Plot \/ StartMover
          \/ MakeData \/ Detect \/ SaveData \/ MakeDirs \/ Archive
-------------------------------------------------------------------------------------
(* The shell in directory k: mkdir entropy; mv *.png entropy; mv *.txt entropy         *)

MakeEntropy(k) ==
  /\ mover[k] = "mkdir"
  /\ mover' = [mover EXCEPT ![k] = "png"]
  /\ UNCHANGED <<driver, outputs, root, moved>>

\* The names of one kind, by their places in the order of the shell, and the next one to
\* be moved.
Listed(k, kind) == {i \in 1 .. Len(TxtFiles) : <<TxtFiles[i], kind>> \in root[k]}
LastOf(k, kind) == TxtFiles[Max(Listed(k, kind))]   \* mistake: moved in the opposite order
NextOf(k, kind) == TxtFiles[Min(Listed(k, kind))]

MoveFile(k, kind) ==
  /\ mover[k] = kind
  /\ Listed(k, kind) # {}
  /\ root' = [root EXCEPT ![k] = @ \ {<<NextOf(k, kind), kind>>}]
  /\ moved' = [moved EXCEPT ![k] = @ \cup {<<NextOf(k, kind), kind>>}]
  /\ UNCHANGED <<driver, outputs, mover>>

\* The next command; mv fails when there is nothing to move, which stops nothing.
StopOnError(k) ==     \* mistake: && between the commands
  IF mover[k] = "png" /\ moved[k] # {} THEN "txt" ELSE "done"
NextKind(k) == IF mover[k] = "png" THEN "txt" ELSE "done"

NextCommand(k) ==
  /\ mover[k] \in Kinds
  /\ Listed(k, mover[k]) = {}
  /\ mover' = [mover EXCEPT ![k] = NextKind(k)]
  /\ UNCHANGED <<driver, outputs, root, moved>>

Mover(k) == MakeEntropy(k) \/ NextCommand(k) \/ \E kind \in Kinds : MoveFile(k, kind)

Next == Driver \/ \E k \in TestIds : Mover(k)

\* Every program that is started gets to run.
Fairness == WF_pipeVars(Driver) /\ \A k \in TestIds : WF_pipeVars(Mover(k))

Spec == Init /\ [][Next]_pipeVars /\ Fairness
-------------------------------------------------------------------------------------
(* Properties.                                                                       *)

\* A detector may run before its file is there.  When one has found its file, those run
\* after it find theirs too, if the shell moves theirs before: the first detector's is
\* the last of all to be moved, so either it finds nothing or all find their files.
Place(x) == CHOOSE i \in 1 .. Len(TxtFiles) : TxtFiles[i] = x

LaterDetectorsFollow ==
  \A k \in TestIds : \A i \in 1 .. Len(Cusums) : \A j \in i + 1 .. Len(Cusums) :
    /\ read[k][Cusums[i]] = "read"
    /\ Place(Cusums[j]) < Place(Cusums[i])
    => read[k][Cusums[j]] # "absent"

\* A test that the driver has left behind is archived, in a directory of its own; and what
\* the detectors have read for a test is in there.  So after a failed analysis they find
\* nothing, and never the files of another test.
EarlierArchived ==
  \A k \in TestIds :
    /\ k < test => archive[k] = k
    /\ \A c \in ToSet(Cusums) : read[k][c] = "read" => <<c, "txt">> \in moved[k]

\* The driver ends, and whatever was written is moved in the end, also in directories
\* that have been archived before their shell was done.
AllMoved ==
  <>[](/\ pc \in {"done", "stopped"}
       /\ \A k \in TestIds : mover[k] \in {"none", "done"} /\ root[k] = {})
=====================================================================================
