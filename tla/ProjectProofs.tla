--------------------------- MODULE ProjectProofs ---------------------------
(* Theorems about Project, for all requests, layout names, sheets of the LED *)
(* chain and numbers of attempts.                                           *)
EXTENDS Project, ProjectNamesProofs, SequenceTheorems

-----------------------------------------------------------------------------
(* NewPCB                                                                  *)

LEMMA BuildTypeInit == Init => ctxDone \in BOOLEAN /\ BuildTypeOK
BY DEF Init, BuildInit, BuildTypeOK, Commands

LEMMA BuildTypeStep ==
    ctxDone \in BOOLEAN /\ BuildTypeOK /\ [Next]_vars => (ctxDone \in BOOLEAN /\ BuildTypeOK)'
<1> SUFFICES ASSUME ctxDone \in BOOLEAN, BuildTypeOK, [Next]_vars
             PROVE  (ctxDone \in BOOLEAN /\ BuildTypeOK)'
  OBVIOUS
<1> USE DEF BuildTypeOK, Commands, Fails
<1>1. CASE NewPCBStep /\ UNCHANGED ctxDone
  <2>1. CASE ParseSettings
    BY <1>1, <2>1 DEF ParseSettings
  <2>2. CASE MakeWorkDir
    BY <1>1, <2>2 DEF MakeWorkDir
  <2>3. CASE NoMetadata
    BY <1>1, <2>3 DEF NoMetadata
  <2>4. CASE MakeProjectDir
    BY <1>1, <2>4 DEF MakeProjectDir
  <2>5. CASE MakeLogDir
    BY <1>1, <2>5 DEF MakeLogDir
  <2>6. CASE WriteInputs
    BY <1>1, <2>6 DEF WriteInputs
  <2>7. CASE StartCommand
    <3>1. CASE ctxDone
      BY <1>1, <2>7, <3>1 DEF StartCommand
    <3>2. CASE ~ctxDone
      <4>1. running' = TRUE /\ step' = step /\ step \in Commands
        BY <2>7, <3>2 DEF StartCommand
      <4>2. UNCHANGED <<inputs, sheets, svgs, cmdErr>>
        BY <2>7 DEF StartCommand
      <4> QED
        BY <1>1, <4>1, <4>2
    <3> QED
      BY <3>1, <3>2
  <2>8. CASE BundleFootprints
    BY <1>1, <2>8 DEF BundleFootprints
  <2>9. CASE NothingCollected
    BY <1>1, <2>9 DEF NothingCollected
  <2>10. CASE CollectSheets
    BY <1>1, <2>10 DEF CollectSheets
  <2>11. CASE Kill
    BY <1>1, <2>11 DEF Kill
  <2>12. CASE IOError
    BY <1>1, <2>12 DEF IOError
  <2> QED
    BY <1>1, <2>1, <2>2, <2>3, <2>4, <2>5, <2>6, <2>7, <2>8, <2>9, <2>10, <2>11, <2>12
    DEF NewPCBStep
<1>2. CASE CommandStep /\ UNCHANGED ctxDone
  <2>1. CASE KBPlacerEnds
    <3>1. sheets' \subseteq {Root} \cup ToSet(ChildSheets)
      BY <2>1 DEF KBPlacerEnds
    <3>2. svgs' = svgs /\ inputs' = inputs /\ cmdErr' = cmdErr
      BY <2>1 DEF KBPlacerEnds
    <3>3. step' = "bundle" /\ running' = FALSE
      BY <2>1 DEF KBPlacerEnds
    <3> QED
      BY <1>2, <3>1, <3>2, <3>3
  <2>2. CASE KBPlacerFails \/ ExportEnds \/ ExportFails
    BY <1>2, <2>2 DEF KBPlacerFails, ExportEnds, ExportFails
  <2>3. CASE RenderFrontEnds \/ RenderBackEnds \/ RenderFails
    BY <1>2, <2>3 DEF RenderFrontEnds, RenderBackEnds, RenderFails
  <2> QED
    BY <1>2, <2>1, <2>2, <2>3 DEF CommandStep
<1>3. CASE UNCHANGED buildVars /\ ctxDone' \in {ctxDone, TRUE}
  BY <1>3 DEF buildVars
<1> QED
  BY <1>1, <1>2, <1>3
  DEF Next, Build, BuildStep, HandOver, Upload, UploadStep, Cancel, CancelContext, vars

\* The first build step of a kind: every other step leaves NewPCB's variables alone.
LEMMA NextSplits ==
    ASSUME [Next]_vars
    PROVE  \/ (NewPCBStep \/ CommandStep) /\ UNCHANGED <<ctxDone, uploadVars>>
           \/ UNCHANGED buildVars /\ (UNCHANGED ctxDone \/ ctxDone')
BY DEF Next, Build, BuildStep, HandOver, Upload, UploadStep, Cancel, CancelContext, vars

LEMMA OptionsStep == OptionsAccepted /\ [Next]_vars => OptionsAccepted'
<1> SUFFICES ASSUME OptionsAccepted, [Next]_vars PROVE OptionsAccepted'
  OBVIOUS
<1> USE DEF OptionsAccepted, Commands, Fails
<1>1. CASE NewPCBStep
  <2>1. CASE ParseSettings
    BY <2>1 DEF ParseSettings
  <2>2. CASE MakeWorkDir \/ NoMetadata \/ MakeProjectDir \/ MakeLogDir
    BY <2>2 DEF MakeWorkDir, NoMetadata, MakeProjectDir, MakeLogDir
  <2>3. CASE WriteInputs
    BY <2>3 DEF WriteInputs
  <2>4. CASE StartCommand
    BY <2>4 DEF StartCommand
  <2>5. CASE BundleFootprints \/ NothingCollected \/ CollectSheets \/ IOError
    BY <2>5 DEF BundleFootprints, NothingCollected, CollectSheets, IOError
  <2>6. CASE Kill
    BY <2>6 DEF Kill
  <2> QED
    BY <1>1, <2>1, <2>2, <2>3, <2>4, <2>5, <2>6 DEF NewPCBStep
<1>2. CASE CommandStep
  BY <1>2
  DEF CommandStep, KBPlacerEnds, KBPlacerFails, ExportEnds, ExportFails, RenderFrontEnds,
      RenderBackEnds, RenderFails
<1>3. CASE UNCHANGED buildVars
  BY <1>3 DEF buildVars
<1> QED
  BY <1>1, <1>2, <1>3, NextSplits

\* kicad.go:77: for every mix of settings, what kbplacer is told to place has its
\* footprint and its placement, and the files named on its command line are written.
THEOREM ArgsAlwaysComplete == Spec => []ArgsAreComplete
<1>1. Init => OptionsAccepted
  BY DEF Init, BuildInit, OptionsAccepted
<1>2. OptionsAccepted => ArgsAreComplete
  <2> SUFFICES ASSUME OptionsAccepted, step = "kbplacer", running PROVE ArgsAreComplete
    BY DEF ArgsAreComplete
  <2>1. PICK r \in BuildRequests : Accepted(r) /\ opts = Options(r)
    BY DEF OptionsAccepted
  <2>2. r.createLedSchFile => r.field["ledFootprint"] = "ok" /\ r.field["ledPlacement"] = "ok"
    BY <2>1 DEF Accepted, LedAccepted, AllOk, LedFields
  <2>3. r.createLedSchFile /\ ~r.skipLedDecoupling =>
            r.field["ledCapacitorFootprint"] = "ok" /\ r.field["ledCapacitorPlacement"] = "ok"
    BY <2>1 DEF Accepted, LedAccepted, AllOk, CapFields
  <2>4. r.createLedSchFile \in BOOLEAN /\ r.skipLedDecoupling \in BOOLEAN
    BY RequestsAssumption DEF Requests
  <2> DEFINE a == KBPlacerArgs(opts)
  <2>5. ASSUME NEW e \in a.places
        PROVE  e \in a.footprints /\ e \in opts.placements
    BY <2>1, <2>2, <2>3, <2>4, <2>5 DEF KBPlacerArgs, Options, LedElements, Stabilizer
  <2>6. "layout" \in inputs /\ (a.preset => a.routeSwitches /\ "preset" \in inputs)
    BY <2>1 DEF OptionsAccepted, KBPlacerArgs, Options
  <2> QED
    BY <2>5, <2>6 DEF ArgsAreComplete
<1> QED
  BY <1>1, <1>2, OptionsStep, PTL DEF Spec

LEMMA MakeProjectDirStep ==
    ASSUME DirsInOrder, MakeProjectDir
    PROVE  DirsInOrder'
<1>1. step = "project" /\ dirs = {}
  BY DEF MakeProjectDir, DirsInOrder
<1>2. PICK name \in LayoutNames :
        LET dir == SanitizeFilepath(GetProjectName(name))
        IN  \/ IsWorkDir(dir) /\ step' = "failed" /\ UNCHANGED <<project, dirs>>
            \/ /\ ~IsWorkDir(dir)
               /\ step' = "logs"
               /\ project' = GetProjectName(name)
               /\ dirs' = dirs \cup {dir}
  BY DEF MakeProjectDir, Fails
<1>3. NoSlash(GetProjectName(name)) /\ SanitizeFilepath(GetProjectName(name)) = GetProjectName(name)
  BY NamesAssumption, ProjectNameIsDirectory
<1>4. CASE step' = "failed" /\ UNCHANGED <<project, dirs>>
  BY <1>1, <1>4 DEF DirsInOrder, ProjectIsContained
<1>5. CASE /\ step' = "logs" /\ dirs' = {project'} /\ ~IsWorkDir(project') /\ NoSlash(project')
  BY <1>5 DEF DirsInOrder, ProjectIsContained, NoSlash
<1> QED
  BY <1>1, <1>2, <1>3, <1>4, <1>5

LEMMA DirsStep == DirsInOrder /\ [Next]_vars => DirsInOrder'
<1> SUFFICES ASSUME DirsInOrder, [Next]_vars PROVE DirsInOrder'
  OBVIOUS
<1>1. CASE NewPCBStep
  <2>1. CASE MakeProjectDir
    BY <2>1, MakeProjectDirStep
  <2>2. CASE MakeLogDir
    BY <2>2 DEF MakeLogDir, Fails, DirsInOrder, ProjectIsContained, IsWorkDir
  <2>3. CASE ParseSettings \/ MakeWorkDir \/ NoMetadata \/ WriteInputs \/ BundleFootprints
    BY <2>3
    DEF ParseSettings, MakeWorkDir, NoMetadata, WriteInputs, BundleFootprints, Fails,
        DirsInOrder, ProjectIsContained, IsWorkDir
  <2>4. CASE StartCommand \/ NothingCollected \/ CollectSheets \/ Kill \/ IOError
    BY <2>4
    DEF StartCommand, NothingCollected, CollectSheets, Kill, IOError, Fails, Commands,
        DirsInOrder, ProjectIsContained, IsWorkDir
  <2> QED
    BY <1>1, <2>1, <2>2, <2>3, <2>4 DEF NewPCBStep
<1>2. CASE CommandStep
  BY <1>2
  DEF CommandStep, KBPlacerEnds, KBPlacerFails, ExportEnds, ExportFails, RenderFrontEnds,
      RenderBackEnds, RenderFails, Fails, DirsInOrder, ProjectIsContained, IsWorkDir
<1>3. CASE UNCHANGED buildVars
  BY <1>3 DEF buildVars, DirsInOrder, ProjectIsContained, IsWorkDir
<1> QED
  BY <1>1, <1>2, <1>3, NextSplits

\* kicad.go:477: for a name of any length, its directory has just the project's name,
\* lies below the work directory and is not that of the logs.
THEOREM ProjectAlwaysContained == Spec => []ProjectIsContained
<1>1. Init => DirsInOrder
  BY DEF Init, BuildInit, DirsInOrder, ProjectIsContained
<1>2. DirsInOrder => ProjectIsContained
  BY DEF DirsInOrder
<1> QED
  BY <1>1, <1>2, DirsStep, PTL DEF Spec

LEMMA SettledStep == ExportSettled /\ [Next]_vars => ExportSettled'
<1> SUFFICES ASSUME ExportSettled, [Next]_vars PROVE ExportSettled'
  OBVIOUS
<1> USE NextSplits DEF ExportSettled, Commands, Fails
<1>1. CASE NewPCBStep
  <2>1. CASE ParseSettings \/ MakeWorkDir \/ NoMetadata \/ MakeProjectDir \/ MakeLogDir
    BY <1>1, <2>1, NextSplits
    DEF ParseSettings, MakeWorkDir, NoMetadata, MakeProjectDir, MakeLogDir, buildVars
  <2>2. CASE WriteInputs \/ BundleFootprints \/ NothingCollected \/ CollectSheets \/ IOError
    BY <1>1, <2>2, NextSplits
    DEF WriteInputs, BundleFootprints, NothingCollected, CollectSheets, IOError, buildVars
  <2>3. CASE StartCommand
    BY <1>1, <2>3, NextSplits DEF StartCommand, buildVars
  <2>4. CASE Kill
    BY <1>1, <2>4, NextSplits DEF Kill, buildVars
  <2> QED
    BY <1>1, <2>1, <2>2, <2>3, <2>4 DEF NewPCBStep
<1>2. CASE CommandStep
  BY <1>2, NextSplits
  DEF CommandStep, KBPlacerEnds, KBPlacerFails, ExportEnds, ExportFails, RenderFrontEnds,
      RenderBackEnds, RenderFails, buildVars
<1>3. CASE UNCHANGED buildVars
  BY <1>3, NextSplits DEF buildVars
<1> QED
  BY <1>1, <1>2, <1>3, NextSplits

\* kicad.go:385: no manifest is made from an export that was cut short, although the
\* error of the export is not looked at once the root sheet is there.
THEOREM ExportAlwaysWhole == Spec => []ExportIsWhole
<1>1. Init => ExportSettled
  BY DEF Init, BuildInit, ExportSettled
<1>2. ctxDone \in BOOLEAN /\ BuildTypeOK /\ ExportSettled => ExportIsWhole
  BY DEF BuildTypeOK, ExportSettled, ExportIsWhole
<1> QED
  BY <1>1, <1>2, SettledStep, BuildTypeInit, BuildTypeStep, PTL DEF Spec

LEMMA ListedStep == ListedAreThere /\ [Next]_vars => ListedAreThere'
<1> SUFFICES ASSUME ListedAreThere, [Next]_vars PROVE ListedAreThere'
  OBVIOUS
<1> USE DEF ListedAreThere, Commands, Fails
<1>1. CASE NewPCBStep
  <2>1. CASE ParseSettings \/ MakeWorkDir \/ NoMetadata \/ MakeProjectDir \/ MakeLogDir
    BY <2>1 DEF ParseSettings, MakeWorkDir, NoMetadata, MakeProjectDir, MakeLogDir
  <2>2. CASE WriteInputs \/ BundleFootprints \/ NothingCollected \/ IOError
    BY <2>2 DEF WriteInputs, BundleFootprints, NothingCollected, IOError
  <2>3. CASE StartCommand \/ Kill
    BY <2>3 DEF StartCommand, Kill
  <2>4. CASE CollectSheets
    <3>1. PICK n \in 0..Len(ChildSheets) + 1 : \E list \in [1..n -> Found] :
            /\ renders' = [i \in 1..n |-> RenderName(list[i])]
            /\ logs' = logs \cup {CopyName(list[i]) : i \in 1..n}
      BY <2>4 DEF CollectSheets
    <3>2. PICK list \in [1..n -> Found] :
            /\ renders' = [i \in 1..n |-> RenderName(list[i])]
            /\ logs' = logs \cup {CopyName(list[i]) : i \in 1..n}
      BY <3>1
    <3>3. n \in Nat
      BY SheetsAssumption
    <3>4. \A i \in 1..n : RenderName(list[i]) \in logs'
      BY <3>2 DEF CopyName
    <3>5. renders' \in Seq(logs')
      BY <3>2, <3>3, <3>4, IsASeq
    <3> QED
      BY <2>4, <3>5 DEF CollectSheets
  <2> QED
    BY <1>1, <2>1, <2>2, <2>3, <2>4 DEF NewPCBStep
<1>2. CASE CommandStep
  <2>1. CASE KBPlacerEnds \/ KBPlacerFails \/ ExportEnds \/ ExportFails \/ RenderFails
    BY <2>1 DEF KBPlacerEnds, KBPlacerFails, ExportEnds, ExportFails, RenderFails
  <2>2. CASE RenderFrontEnds
    <3>1. renders \in Seq(logs) /\ renders' = renders /\ logs' = logs \cup {<<"front">>}
      BY <2>2 DEF RenderFrontEnds
    <3>2. renders' \in Seq(logs')
      BY <3>1, SeqMonotonic
    <3> QED
      BY <2>2, <3>1, <3>2 DEF RenderFrontEnds
  <2>3. CASE RenderBackEnds
    <3>1. renders \in Seq(logs) /\ <<"front">> \in logs /\ logs' = logs \cup {<<"back">>}
      BY <2>3 DEF RenderBackEnds
    <3> DEFINE pcb == <<<<"front">>, <<"back">>>>
    <3>2. renders \in Seq(logs') /\ pcb \in Seq(logs')
      BY <3>1, SeqMonotonic
    <3>3. renders' = pcb \o renders
      BY <2>3 DEF RenderBackEnds
    <3> HIDE DEF pcb
    <3>4. renders' \in Seq(logs')
      BY <3>2, <3>3, ConcatProperties
    <3> QED
      BY <2>3, <3>1, <3>4 DEF RenderBackEnds
  <2> QED
    BY <1>2, <2>1, <2>2, <2>3 DEF CommandStep
<1>3. CASE UNCHANGED buildVars
  BY <1>3 DEF buildVars
<1> QED
  BY <1>1, <1>2, <1>3, NextSplits

LEMMA ListedInvariant == Spec => []ListedAreThere
<1>1. Init => ListedAreThere
  BY DEF Init, BuildInit, ListedAreThere
<1> QED
  BY <1>1, ListedStep, PTL DEF Spec

\* filer.go:123: UploadSVG never asks for a render that NewPCB did not make, whatever
\* the sheets are called and however many there are.
THEOREM ManifestAlwaysReadable == Spec => []ManifestIsReadable
<1>1. ListedAreThere => ManifestIsReadable
  BY DEF ListedAreThere, ManifestIsReadable
<1> QED
  BY <1>1, ListedInvariant, PTL

-----------------------------------------------------------------------------
(* The sheets of a manifest                                                *)

LEMMA BeforeOnce == \A s : ~Before(s, s)
<1> SUFFICES ASSUME NEW s, Before(s, s) PROVE FALSE
  OBVIOUS
<1>1. PICK i, j \in DOMAIN ChildSheets : i < j /\ ChildSheets[i] = s /\ ChildSheets[j] = s
  BY DEF Before
<1>2. i = j /\ i \in Nat
  BY <1>1, SheetsAssumption
<1> QED
  BY ONLY <1>1, <1>2

\* A sorted list of a set has its members once each.
LEMMA SortedCounts ==
    ASSUME NEW S, NEW n \in Nat, NEW list \in [1..n -> S], ToSet(list) = S, Sorted(list)
    PROVE  Cardinality(S) = n
<1>1. list \in Surjection(1..n, S)
  <2>1. ASSUME NEW s \in S PROVE \E i \in 1..n : list[i] = s
    BY <2>1 DEF ToSet
  <2> QED
    BY <2>1 DEF Surjection
<1>2. ASSUME NEW i \in 1..n, NEW j \in 1..n, list[i] = list[j] PROVE i = j
  <2>1. ~(i < j) /\ ~(j < i)
    BY <1>2, BeforeOnce DEF Sorted
  <2> QED
    BY <2>1
<1>3. list \in Bijection(1..n, S)
  BY <1>1, <1>2 DEF Bijection, Injection, IsInjective, Surjection
<1> QED
  BY <1>3, FS_CountingElements DEF ExistsBijection

LEMMA BothSidesFirst ==
    ASSUME NEW S, NEW s \in Seq(S), NEW x, NEW y, NEW t, t = <<x, y>> \o s
    PROVE  ToSet(t) = {x, y} \cup ToSet(s) /\ Len(t) = Len(s) + 2
<1>1. /\ Len(t) = Len(s) + 2 /\ DOMAIN t = 1..Len(s) + 2 /\ Len(s) \in Nat /\ DOMAIN s = 1..Len(s)
      /\ t[1] = x /\ t[2] = y /\ \A i \in 1..Len(s) : t[i + 2] = s[i]
  OBVIOUS
<1>2. ASSUME NEW i \in DOMAIN t PROVE t[i] \in {x, y} \cup ToSet(s)
  <2>1. CASE i > 2
    <3>1. i - 2 \in 1..Len(s) /\ (i - 2) + 2 = i
      BY ONLY <1>1, <2>1
    <3> QED
      BY ONLY <1>1, <3>1 DEF ToSet
  <2>2. CASE i \in {1, 2}
    BY ONLY <1>1, <2>2
  <2>3. i > 2 \/ i \in {1, 2}
    BY ONLY <1>1
  <2> QED
    BY <2>1, <2>2, <2>3
<1>3. x \in ToSet(t) /\ y \in ToSet(t)
  <2>1. 1 \in DOMAIN t /\ 2 \in DOMAIN t
    BY ONLY <1>1
  <2> QED
    BY ONLY <1>1, <2>1 DEF ToSet
<1>4. ASSUME NEW i \in DOMAIN s PROVE s[i] \in ToSet(t)
  <2>1. i + 2 \in DOMAIN t /\ t[i + 2] = s[i]
    BY ONLY <1>1
  <2> QED
    BY ONLY <2>1 DEF ToSet
<1> QED
  BY ONLY <1>1, <1>2, <1>3, <1>4 DEF ToSet

LEMMA CollectSheetsStep ==
    ASSUME CollectSheets, ~HasMeta(project)
    PROVE  ToSet(renders') = {RenderName(s) : s \in svgs} /\ Len(renders') = Cardinality(svgs)
<1>1. Found = svgs
  BY DEF Found
<1>2. PICK n \in 0..Len(ChildSheets) + 1 : \E list \in [1..n -> Found] :
        ToSet(list) = Found /\ Sorted(list) /\ renders' = [i \in 1..n |-> RenderName(list[i])]
  BY DEF CollectSheets
<1>3. PICK list \in [1..n -> svgs] :
        ToSet(list) = svgs /\ Sorted(list) /\ renders' = [i \in 1..n |-> RenderName(list[i])]
  BY <1>1, <1>2
<1>4. n \in Nat
  BY SheetsAssumption
<1>5. Cardinality(svgs) = n
  BY <1>3, <1>4, SortedCounts
<1>6. DOMAIN renders' = 1..n /\ Len(renders') = n
  BY <1>3, <1>4
<1>7. ToSet(renders') = {RenderName(s) : s \in svgs}
  <2>1. ToSet(renders') = {RenderName(list[i]) : i \in 1..n}
    BY <1>3, <1>6 DEF ToSet
  <2>2. svgs = {list[i] : i \in 1..n}
    BY <1>3 DEF ToSet
  <2> QED
    BY ONLY <2>1, <2>2
<1> QED
  BY <1>5, <1>6, <1>7

LEMMA CollectedStep == ListedAreThere /\ SheetsCollected /\ [Next]_vars => SheetsCollected'
<1> SUFFICES ASSUME ListedAreThere, SheetsCollected, [Next]_vars PROVE SheetsCollected'
  OBVIOUS
<1> USE DEF SheetsCollected, Commands, Fails
<1>1. CASE NewPCBStep
  <2>1. CASE ParseSettings \/ MakeWorkDir \/ NoMetadata \/ MakeProjectDir \/ MakeLogDir
    BY <2>1 DEF ParseSettings, MakeWorkDir, NoMetadata, MakeProjectDir, MakeLogDir
  <2>2. CASE WriteInputs \/ BundleFootprints \/ NothingCollected \/ IOError
    BY <2>2 DEF WriteInputs, BundleFootprints, NothingCollected, IOError
  <2>3. CASE StartCommand
    BY <2>3 DEF StartCommand
  <2>4. CASE Kill
    BY <2>4 DEF Kill
  <2>5. CASE CollectSheets
    <3>1. step' = "front" /\ svgs' = svgs /\ project' = project
      BY <2>5 DEF CollectSheets
    <3>2. HasMeta(project)' <=> HasMeta(project)
      BY <3>1
    <3> QED
      BY <2>5, <3>1, <3>2, CollectSheetsStep
  <2> QED
    BY <1>1, <2>1, <2>2, <2>3, <2>4, <2>5 DEF NewPCBStep
<1>2. CASE CommandStep
  <2>1. CASE KBPlacerEnds \/ KBPlacerFails \/ ExportEnds \/ ExportFails \/ RenderFails
    BY <2>1 DEF KBPlacerEnds, KBPlacerFails, ExportEnds, ExportFails, RenderFails
  <2>2. CASE RenderFrontEnds
    BY <2>2 DEF RenderFrontEnds
  <2>3. CASE RenderBackEnds
    <3>1. /\ step = "back" /\ step' = "built" /\ svgs' = svgs /\ project' = project
          /\ renders' = <<<<"front">>, <<"back">>>> \o renders
      BY <2>3 DEF RenderBackEnds
    <3>2. renders \in Seq(logs)
      BY <3>1 DEF ListedAreThere
    <3>3. /\ ToSet(renders') = {<<"front">>, <<"back">>} \cup ToSet(renders)
          /\ Len(renders') = Len(renders) + 2
      BY <3>1, <3>2, BothSidesFirst
    <3> QED
      BY <3>1, <3>3
  <2> QED
    BY <1>2, <2>1, <2>2, <2>3 DEF CommandStep
<1>3. CASE UNCHANGED buildVars
  BY <1>3 DEF buildVars
<1> QED
  BY <1>1, <1>2, <1>3, NextSplits

\* kicad.go:365: for any sheets, a manifest lists each of them, and each once, unless
\* the layout's name has brackets or kicad-cli failed by itself.
THEOREM SheetsAlwaysComplete == Spec => []SheetsComplete
<1>1. Init => SheetsCollected
  BY DEF Init, BuildInit, SheetsCollected
<1>2. ExportIsWhole /\ SheetsCollected => SheetsComplete
  BY DEF ExportIsWhole, SheetsCollected, SheetsComplete, AllRenders
<1> QED
  BY <1>1, <1>2, CollectedStep, ListedInvariant, ExportAlwaysWhole, PTL DEF Spec

-----------------------------------------------------------------------------
(* UploadToStorage                                                         *)

LEMMA AttemptsPositive == Attempts \in Nat /\ Attempts >= 1
BY AttemptsAssumption DEF Attempts

\* NewPCB's manifest is what UploadToStorage works through.
HandedOver == pc # "idle" => step = "built" /\ numRenders = Len(renders)

Uploading == UploadTypeOK /\ InOrder /\ HandedOver

LEMMA UploadingInit == Init => Uploading
<1> SUFFICES ASSUME Init PROVE Uploading
  OBVIOUS
<1>1. 0 \in Objects /\ 0 \in 0..numRenders + 1 /\ 0 \in 0..Attempts - 1
  BY AttemptsPositive DEF Objects, Init, UploadInit
<1> QED
  BY <1>1 DEF Init, UploadInit, Uploading, UploadTypeOK, InOrder, HandedOver

\* A step of the upload itself.
LEMMA UploadStepKeeps ==
    ASSUME UploadTypeOK, InOrder, UploadStep
    PROVE  (UploadTypeOK /\ InOrder)'
<1> USE AttemptsPositive DEF UploadTypeOK, InOrder, Objects
<1>0. numRenders' = numRenders
  BY DEF UploadStep
<1>1. CASE Unreadable
  BY <1>0, <1>1 DEF Unreadable
<1>2. CASE Post
  BY <1>0, <1>2 DEF Post
<1>3. CASE PostCancelled
  BY <1>0, <1>3 DEF PostCancelled, AfterTransient
<1>4. CASE AnswerOk
  <2>1. obj \in Objects /\ obj \in Nat
    BY <1>4 DEF AnswerOk
  <2>2. 0..obj' - 1 \subseteq stored'
    BY <1>4, <2>1 DEF AnswerOk
  <2>3. posted' \subseteq 0..obj'
    BY <1>4, <2>1 DEF AnswerOk
  <2> QED
    BY <1>0, <1>4, <2>1, <2>2, <2>3 DEF AnswerOk
<1>5. CASE AnswerTransient
  BY <1>0, <1>5 DEF AnswerTransient, AfterTransient
<1>6. CASE AnswerPermanent
  BY <1>0, <1>6 DEF AnswerPermanent
<1>7. CASE TimerFires
  BY <1>0, <1>7 DEF TimerFires
<1>8. CASE DelayCancelled
  BY <1>0, <1>8 DEF DelayCancelled
<1>9. CASE Land
  BY <1>0, <1>9 DEF Land
<1> QED
  BY <1>1, <1>2, <1>3, <1>4, <1>5, <1>6, <1>7, <1>8, <1>9 DEF UploadStep, Uploader, Answer

LEMMA UploadingStep ==
    BuildTypeOK /\ ListedAreThere /\ Uploading /\ [Next]_vars => Uploading'
<1> SUFFICES ASSUME BuildTypeOK, ListedAreThere, Uploading, [Next]_vars PROVE Uploading'
  OBVIOUS
<1>1. CASE Build
  <2>1. UNCHANGED uploadVars /\ (NewPCBStep \/ CommandStep)
    BY <1>1 DEF Build, BuildStep
  <2>2. NewPCBStep => step # "built"
    BY DEF NewPCBStep, ParseSettings, MakeWorkDir, NoMetadata, MakeProjectDir, MakeLogDir,
        WriteInputs, StartCommand, BundleFootprints, NothingCollected, CollectSheets, Kill,
        IOError, BuildTypeOK, Commands
  <2>3. CommandStep => step # "built"
    BY DEF CommandStep, KBPlacerEnds, KBPlacerFails, ExportEnds, ExportFails,
        RenderFrontEnds, RenderBackEnds, RenderFails
  <2> QED
    BY <2>1, <2>2, <2>3
    DEF Uploading, UploadTypeOK, InOrder, HandedOver, uploadVars, Objects
<1>2. CASE HandOver
  <2>1. renders \in Seq(logs) /\ Len(renders) \in Nat
    BY <1>2, LenProperties DEF HandOver, ListedAreThere
  <2>2. numRenders' = Len(renders) /\ pc' = "ready" /\ pc = "idle" /\ step = "built"
    BY <1>2 DEF HandOver, CallUpload
  <2>3. UNCHANGED <<obj, attempt, posted, stored, step, renders>>
    BY <1>2 DEF HandOver, CallUpload, buildVars
  <2> QED
    BY <2>1, <2>2, <2>3, AttemptsPositive
    DEF Uploading, UploadTypeOK, InOrder, HandedOver, Objects
<1>3. CASE Upload
  <2>1. (UploadTypeOK /\ InOrder)'
    BY <1>3, UploadStepKeeps DEF Uploading, Upload
  <2>2. numRenders' = numRenders /\ step' = step /\ renders' = renders
    BY <1>3 DEF Upload, UploadStep, buildVars
  <2>3. pc # "idle"
    BY <1>3
    DEF Upload, UploadStep, Uploader, Answer, Unreadable, Post, PostCancelled, AnswerOk,
        AnswerTransient, AnswerPermanent, TimerFires, DelayCancelled, Land, Uploading,
        UploadTypeOK
  <2> QED
    BY <2>1, <2>2, <2>3 DEF Uploading, HandedOver
<1>4. CASE Cancel \/ UNCHANGED vars
  BY <1>4
  DEF Cancel, vars, buildVars, uploadVars, Uploading, UploadTypeOK, InOrder, HandedOver, Objects
<1> QED
  BY <1>1, <1>2, <1>3, <1>4 DEF Next

LEMMA UploadingInvariant == Spec => []Uploading
BY UploadingInit, UploadingStep, ListedInvariant, BuildTypeInit, BuildTypeStep, PTL DEF Spec

\* The types of the whole build.
THEOREM TypeCorrect == Spec => []TypeOK
<1>1. ctxDone \in BOOLEAN /\ BuildTypeOK /\ Uploading => TypeOK
  BY DEF Uploading, TypeOK
<1> QED
  BY <1>1, BuildTypeInit, BuildTypeStep, UploadingInvariant, PTL DEF Spec

\* filer.go:154: the files of a task appear in their order, the zip first, also
\* when requests land after their sender was told of an error.
THEOREM PrefixAlways == Spec => []StoredIsPrefix
<1>1. Uploading => StoredIsPrefix
  <2> SUFFICES ASSUME Uploading, NEW o \in stored, NEW p \in 0..o PROVE p \in stored
    BY DEF StoredIsPrefix
  <2>1. o \in 0..obj /\ obj \in Nat
    BY DEF Uploading, UploadTypeOK, InOrder
  <2>2. p = o \/ p \in 0..obj - 1
    BY <2>1
  <2> QED
    BY <2>2 DEF Uploading, InOrder
<1> QED
  BY <1>1, UploadingInvariant, PTL

\* filer.go:161: when UploadToStorage returns nil the Filer holds the zip and each
\* render of the manifest, and these are renders that NewPCB made.
THEOREM NilAlwaysDelivers == Spec => []NilDelivers
<1>1. ListedAreThere /\ Uploading => NilDelivers
  <2> SUFFICES ASSUME ListedAreThere, Uploading, pc = "nil"
               PROVE  0 \in stored /\ \A i \in DOMAIN renders : i \in stored /\ renders[i] \in logs
    BY DEF NilDelivers
  <2>1. renders \in Seq(logs) /\ numRenders = Len(renders)
    BY DEF Uploading, HandedOver, ListedAreThere
  <2>2. 0..numRenders \subseteq stored /\ numRenders \in Nat
    BY DEF Uploading, InOrder, UploadTypeOK
  <2>3. DOMAIN renders = 1..numRenders
    BY <2>1, LenProperties
  <2> QED
    BY <2>1, <2>2, <2>3
<1> QED
  BY <1>1, ListedInvariant, UploadingInvariant, PTL

-----------------------------------------------------------------------------
(* The build as the handler of its task knows it                           *)

\* A build that failed is not gone on with.
LEMMA BuildUnderWay == BuildTypeOK /\ (NewPCBStep \/ CommandStep) => step # "failed"
BY DEF NewPCBStep, ParseSettings, MakeWorkDir, NoMetadata, MakeProjectDir, MakeLogDir,
    WriteInputs, StartCommand, BundleFootprints, NothingCollected, CollectSheets, Kill,
    IOError, CommandStep, KBPlacerEnds, KBPlacerFails, ExportEnds, ExportFails,
    RenderFrontEnds, RenderBackEnds, RenderFails, BuildTypeOK, Commands

\* While the uploader works, the phase is told by pc alone.
LEMMA UploadPhase ==
    /\ pc \in {"ready", "flight", "delay"} => Phase = "upload"
    /\ pc \in {"nil", "error"} => Phase = pc
BY DEF Phase

LEMMA UploadPhases ==
    ASSUME Uploading, UploadStep, UNCHANGED buildVars
    PROVE  [Phases!Step(1)]_(Phases!vars)
<1> USE UploadPhase DEF Phases!vars
<1>0. UNCHANGED <<numRenders, ctxDone, step>> /\ (Uploader \/ Land)
  BY DEF UploadStep, buildVars
<1>1. Phase' = "error" /\ Phase = "upload" /\ UNCHANGED <<obj, posted, stored>> => Phases!Fails(1)
  BY <1>0 DEF Phases!Fails
<1>2. Phase' = Phase /\ UNCHANGED <<obj, posted, stored>> => UNCHANGED Phases!vars
  BY <1>0
<1>3. CASE Post
  <2>1. Phase = "upload" /\ Phase' = "upload" /\ ~ctxDone
    BY <1>3 DEF Post, Phase
  <2>2. posted' = posted \cup {obj} /\ UNCHANGED <<obj, stored>>
    BY <1>3 DEF Post
  <2> QED
    BY <1>0, <2>1, <2>2 DEF Phases!Step, Phases!Send
<1>4. CASE AnswerOk
  <2>1. Phase = "upload" /\ Phase' = IF obj = numRenders THEN "nil" ELSE "upload"
    BY <1>4 DEF AnswerOk, Phase
  <2>2. obj \in posted \cap stored /\ obj' = obj + 1 /\ UNCHANGED <<posted, stored>>
    BY <1>4 DEF AnswerOk, Uploading, UploadTypeOK
  <2>3. obj \in Nat /\ numRenders \in Nat
    BY <1>4 DEF AnswerOk, Uploading, UploadTypeOK, Objects
  <2>4. Phase' = IF obj + 1 = numRenders + 1 THEN "nil" ELSE "upload"
    BY <2>1, <2>3
  <2> QED
    BY <1>0, <2>1, <2>2, <2>4 DEF Phases!Step, Phases!Answered
<1>5. CASE Land
  <2>1. Phase' = Phase /\ UNCHANGED <<obj, posted>>
    BY <1>0, <1>5 DEF Land, Phase
  <2>2. PICK o \in posted : stored' = stored \cup {o}
    BY <1>5 DEF Land
  <2> QED
    BY <1>0, <2>1, <2>2 DEF Phases!Step, Phases!Land
<1>6. CASE Unreadable \/ PostCancelled \/ AnswerTransient \/ AnswerPermanent \/ TimerFires
           \/ DelayCancelled
  <2>1. UNCHANGED <<obj, posted, stored>>
    BY <1>6 DEF Unreadable, PostCancelled, AnswerTransient, AnswerPermanent, TimerFires,
      DelayCancelled
  <2>2. Phase = "upload" /\ (Phase' = "upload" \/ Phase' = "error")
    BY <1>6 DEF Unreadable, PostCancelled, AnswerTransient, AnswerPermanent, TimerFires,
      DelayCancelled, AfterTransient, Phase
  <2> QED
    BY <1>1, <1>2, <2>1, <2>2 DEF Phases!Step
<1> QED
  BY <1>0, <1>3, <1>4, <1>5, <1>6 DEF Uploader, Answer

LEMMA PhasesStep ==
    BuildTypeOK /\ ListedAreThere /\ Uploading /\ [Next]_vars => [Phases!Next]_(Phases!vars)
<1> SUFFICES ASSUME BuildTypeOK, ListedAreThere, Uploading, [Next]_vars
             PROVE  [Phases!Step(1)]_(Phases!vars)
  BY DEF Phases!Next
<1>1. CASE Build
  <2>1. step # "failed" /\ UNCHANGED <<ctxDone, uploadVars>>
    BY <1>1, BuildUnderWay DEF Build, BuildStep
  <2>2. UNCHANGED <<pc, numRenders, obj, posted, stored>>
    BY <2>1 DEF uploadVars
  <2>3. CASE Phase' = Phase
    BY <2>1, <2>2, <2>3 DEF Phases!vars
  <2>4. CASE Phase' # Phase
    <3>1. Phase = "generate" /\ Phase' = "error"
      BY <2>1, <2>2, <2>4 DEF Phase
    <3> QED
      BY <2>1, <2>2, <3>1 DEF Phases!Step, Phases!Fails
  <2> QED
    BY <2>3, <2>4
<1>2. CASE HandOver
  <2>1. pc = "idle" /\ pc' = "ready" /\ step = "built" /\ numRenders' = Len(renders)
        /\ UNCHANGED <<obj, posted, stored, ctxDone>>
    BY <1>2 DEF HandOver, CallUpload
  <2>2. Phase = "generate" /\ Phase' = "upload"
    BY <2>1 DEF Phase
  <2>3. numRenders' + 1 \in Nat \ {0}
    <3>1. renders \in Seq(logs)
      BY <2>1 DEF ListedAreThere
    <3>2. Len(renders) \in Nat
      BY ONLY <3>1, LenProperties
    <3> QED
      BY <2>1, <3>2
  <2> QED
    BY <2>1, <2>2, <2>3 DEF Phases!Step, Phases!Generated
<1>3. CASE Upload
  BY <1>3, UploadPhases DEF Upload
<1>4. CASE Cancel
  <2>1. UNCHANGED <<pc, step, numRenders, obj, posted, stored>> /\ ctxDone'
    BY <1>4 DEF Cancel, CancelContext, buildVars, uploadVars
  <2>2. ctxDone' = TRUE
    BY <1>4 DEF Cancel, CancelContext
  <2>3. Phase' = Phase
    BY <2>1 DEF Phase
  <2> QED
    BY <2>1, <2>2, <2>3 DEF Phases!Step, Phases!Cancel
<1>5. CASE UNCHANGED vars
  BY <1>5 DEF vars, buildVars, uploadVars, Phases!vars, Phase
<1> QED
  BY <1>1, <1>2, <1>3, <1>4, <1>5 DEF Next

LEMMA PhasesInit == Init => Phases!Init
<1> SUFFICES ASSUME Init PROVE Phases!Init
  OBVIOUS
<1>1. numRenders = 0 /\ posted = {} /\ obj = 0 /\ ctxDone = FALSE /\ stored = {}
  BY DEF Init, UploadInit
<1>2. Phase = "generate"
  BY DEF Init, BuildInit, UploadInit, Phase
<1>3. [a \in {1} |-> numRenders + 1] \in [{1} -> Nat]
  BY ONLY <1>1
<1> QED
  BY ONLY <1>1, <1>2, <1>3 DEF Phases!Init

\* kicad.go:564-881, filer.go:140-162, retry.go:21-49: whatever is asked for, and
\* however commands, requests and delays turn out, a build is no more than the two
\* phases that the handler of its task takes it for.
THEOREM BuildIsPhases == Spec => ImplementsPhases
<1> DEFINE IInv == BuildTypeOK /\ ListedAreThere /\ Uploading
<1>1. IInv /\ [Next]_vars => [Phases!Next]_(Phases!vars)
  BY PhasesStep
<1>2. Spec => []IInv
  <2>1. Spec => []BuildTypeOK
    BY BuildTypeInit, BuildTypeStep, PTL DEF Spec
  <2> QED
    BY <2>1, ListedInvariant, UploadingInvariant, PTL
<1> HIDE DEF IInv
<1> QED
  BY <1>1, <1>2, PhasesInit, PTL DEF Spec, ImplementsPhases, Phases!Spec
-----------------------------------------------------------------------------
(* How far a build has come                                                *)

StepRank ==
    (CASE step = "parse" -> 0
       [] step = "workdir" -> 1
       [] step = "project" -> 2
       [] step = "logs" -> 3
       [] step = "inputs" -> 4
       [] step = "kbplacer" -> 5
       [] step = "bundle" -> 7
       [] step = "schematic" -> 8
       [] step = "collect" -> 10
       [] step = "front" -> 11
       [] step = "back" -> 13
       [] step = "built" -> 15
       [] step = "failed" -> 16) + (IF running THEN 1 ELSE 0)

AttemptRank ==
    CASE pc = "idle" -> 0
      [] pc = "ready" -> 1
      [] pc = "flight" -> 2
      [] pc = "delay" -> 3
      [] pc \in {"nil", "error"} -> 4

\* By step of NewPCB, object, attempt at it, and part of the attempt.
Advanced ==
    \/ StepRank < StepRank'
    \/ StepRank' = StepRank /\ obj < obj'
    \/ StepRank' = StepRank /\ obj' = obj /\ attempt < attempt'
    \/ StepRank' = StepRank /\ obj' = obj /\ attempt' = attempt /\ AttemptRank < AttemptRank'

BuildAdvances ==
    /\ StepRank \in 0..16 /\ AttemptRank \in 0..4
    /\ obj \in 0..numRenders + 1 /\ attempt \in 0..Attempts - 1
    /\ pc # "idle" => numRenders' = numRenders
    /\ Build \/ HandOver \/ (Uploader /\ Upload) => Advanced
    /\ Advanced \/ UNCHANGED <<StepRank, obj, attempt, AttemptRank>>

LEMMA StepAdvances ==
    ASSUME BuildTypeOK, NewPCBStep \/ CommandStep
    PROVE  StepRank < StepRank'
<1> USE DEF Fails, Commands
<1>0. running \in BOOLEAN /\ (running => step \in Commands)
  BY DEF BuildTypeOK
<1>1. CASE ParseSettings \/ MakeWorkDir \/ NoMetadata
  <2>1. /\ \/ step = "parse" /\ step' \in {"workdir", "failed"}
           \/ step = "workdir" /\ step' = "project"
           \/ step = "project" /\ step' = "failed"
        /\ running' = running
    BY <1>1 DEF ParseSettings, MakeWorkDir, NoMetadata
  <2> QED
    BY ONLY <1>0, <2>1 DEF StepRank
<1>2. CASE MakeProjectDir \/ MakeLogDir \/ WriteInputs \/ BundleFootprints
  <2>1. /\ \/ step = "project" /\ step' \in {"logs", "failed"}
           \/ step = "logs" /\ step' \in {"inputs", "failed"}
           \/ step = "inputs" /\ step' = "kbplacer"
           \/ step = "bundle" /\ step' = "schematic"
        /\ running' = running
    BY <1>2 DEF MakeProjectDir, MakeLogDir, WriteInputs, BundleFootprints
  <2> QED
    BY ONLY <1>0, <2>1 DEF StepRank
<1>3. CASE StartCommand
  <2>1. /\ step \in Commands /\ ~running
        /\ \/ step' = step /\ running' = TRUE
           \/ step' = "failed" /\ running' = running
    BY <1>3 DEF StartCommand
  <2> QED
    BY ONLY <1>0, <2>1 DEF StepRank
<1>4. CASE NothingCollected \/ CollectSheets
  <2>1. step = "collect" /\ step' \in {"front", "failed"} /\ running' = running
    BY <1>4 DEF NothingCollected, CollectSheets
  <2> QED
    BY ONLY <1>0, <2>1 DEF StepRank
<1>5. CASE IOError
  <2>1. /\ step \in {"workdir", "project", "logs", "inputs", "collect", "kbplacer", "bundle"}
        /\ step' = "failed" /\ running' = running /\ (step = "kbplacer" => ~running)
    BY <1>5 DEF IOError
  <2> QED
    BY ONLY <1>0, <2>1 DEF StepRank
<1>6. CASE Kill \/ CommandStep
  <2>1. /\ running /\ running' = FALSE
        /\ \/ step \in Commands /\ step' = "failed"
           \/ step = "kbplacer" /\ step' = "bundle"
           \/ step = "schematic" /\ step' = "collect"
           \/ step = "front" /\ step' = "back"
           \/ step = "back" /\ step' = "built"
    BY <1>0, <1>6 DEF Kill, CommandStep, KBPlacerEnds, KBPlacerFails, ExportEnds, ExportFails,
      RenderFrontEnds, RenderBackEnds, RenderFails
  <2> QED
    BY ONLY <1>0, <2>1 DEF StepRank
<1> QED
  BY <1>1, <1>2, <1>3, <1>4, <1>5, <1>6 DEF NewPCBStep

LEMMA UploaderAdvances ==
    ASSUME UploadTypeOK, Uploader
    PROVE  \/ obj < obj'
           \/ obj' = obj /\ attempt < attempt'
           \/ obj' = obj /\ attempt' = attempt /\ AttemptRank < AttemptRank'
<1>0. obj \in Nat /\ attempt \in Nat
  BY AttemptsPositive DEF UploadTypeOK
<1>1. CASE Unreadable \/ Post \/ PostCancelled \/ AnswerTransient \/ AnswerPermanent \/ DelayCancelled
  <2>1. /\ obj' = obj /\ attempt' = attempt
        /\ \/ pc = "ready" /\ pc' \in {"flight", "delay", "error"}
           \/ pc = "flight" /\ pc' \in {"delay", "error"}
           \/ pc = "delay" /\ pc' = "error"
    BY <1>1 DEF Unreadable, Post, PostCancelled, AnswerTransient, AnswerPermanent,
      DelayCancelled, AfterTransient
  <2> QED
    BY ONLY <2>1 DEF AttemptRank
<1>2. CASE AnswerOk
  BY <1>0, <1>2 DEF AnswerOk
<1>3. CASE TimerFires
  BY <1>0, <1>3 DEF TimerFires
<1> QED
  BY <1>1, <1>2, <1>3 DEF Uploader, Answer

\* kicad.go:560-881, filer.go:140-162, retry.go:22-47: a build never comes back to where
\* it was.  Each call, command, request and delay is a step forward through a finite
\* order, whatever fails, and nothing that happens beside it is a step back.
THEOREM BuildsAdvance == Spec => [][BuildAdvances]_vars
<1>1. BuildTypeOK /\ Uploading /\ [Next]_vars => [BuildAdvances]_vars
  <2> SUFFICES ASSUME BuildTypeOK, Uploading, Next PROVE BuildAdvances
    OBVIOUS
  <2>1. StepRank \in 0..16 /\ AttemptRank \in 0..4
    <3>1. /\ step \in Commands \cup {"parse", "workdir", "project", "logs", "inputs", "bundle",
                                     "collect", "built", "failed"}
          /\ running \in BOOLEAN /\ (running => step \in Commands)
      BY DEF BuildTypeOK
    <3>2. pc \in {"idle", "ready", "flight", "delay", "nil", "error"}
      BY DEF Uploading, UploadTypeOK
    <3>3. StepRank \in 0..16
      BY ONLY <3>1 DEF StepRank, Commands
    <3> QED
      BY ONLY <3>2, <3>3 DEF AttemptRank
  <2>2. obj \in 0..numRenders + 1 /\ attempt \in 0..Attempts - 1
    BY DEF Uploading, UploadTypeOK
  <2>3. CASE Build
    <3>1. StepRank < StepRank' /\ UNCHANGED uploadVars
      BY <2>3, StepAdvances DEF Build, BuildStep
    <3> QED
      BY <2>1, <2>2, <3>1 DEF BuildAdvances, Advanced, uploadVars
  <2>4. CASE HandOver
    <3>1. /\ StepRank' = StepRank /\ obj' = obj /\ attempt' = attempt
          /\ pc = "idle" /\ pc' = "ready"
      BY <2>4 DEF HandOver, CallUpload, buildVars, StepRank
    <3>2. Advanced
      BY ONLY <3>1 DEF Advanced, AttemptRank
    <3> QED
      BY <2>1, <2>2, <3>1, <3>2 DEF BuildAdvances
  <2>5. CASE Upload /\ Uploader
    <3>1. StepRank' = StepRank /\ numRenders' = numRenders
      BY <2>5 DEF Upload, UploadStep, buildVars, StepRank
    <3>2. Advanced
      BY <2>5, <3>1, UploaderAdvances DEF Advanced, Uploading
    <3> QED
      BY <2>1, <2>2, <3>1, <3>2 DEF BuildAdvances
  <2>6. CASE (Upload /\ ~Uploader) \/ Cancel
    <3>1. UNCHANGED <<buildVars, pc, numRenders, obj, attempt>>
      BY <2>6 DEF Upload, UploadStep, Land, Cancel, CancelContext, uploadVars
    <3>2. UNCHANGED <<StepRank, obj, attempt, AttemptRank, numRenders>>
      BY <3>1 DEF buildVars, StepRank, AttemptRank
    <3> QED
      BY <2>1, <2>2, <2>3, <2>4, <2>5, <3>2 DEF BuildAdvances
  <2> QED
    BY <2>3, <2>4, <2>5, <2>6 DEF Next
<1> QED
  BY <1>1, BuildTypeInit, BuildTypeStep, UploadingInvariant, PTL DEF Spec
=============================================================================
