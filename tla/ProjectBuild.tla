---------------------------- MODULE ProjectBuild ----------------------------
(***************************************************************************)
(* NewPCB of backend/internal/kicad/kicad.go: the settings are checked,    *)
(* directories and inputs made, kbplacer and then kicad-cli run three      *)
(* times, and the renders listed in a manifest.  The handler of a task     *)
(* (BuildTask) calls it; what it returns goes to FilerUpload.              *)
(*                                                                         *)
(* A command is started with the task's context: not at all when that is   *)
(* cancelled already, and killed when it is cancelled later.               *)
(***************************************************************************)
EXTENDS TaskContext, BuildSettings, ProjectNames, FiniteSets

CONSTANTS
    BuildRequests,  \* requests, of which one is built
    LayoutNames,    \* names a layout may have, <<>> for none
    ChildSheets,    \* the LED chain's sheets below the root, as KiCad displays
                    \* them, in the order of their names
    CommandFaults   \* TRUE: kicad-cli and the file system may fail

\* The display name of the root sheet.
Root == <<>>

ASSUME RequestsAssumption == BuildRequests \subseteq Requests

ASSUME NamesAssumption == LayoutNames \subseteq Seq(STRING)

\* Two sheets of one project never have one name.
ASSUME SheetsAssumption ==
    /\ ChildSheets \in Seq(Seq(STRING))
    /\ Root \notin ToSet(ChildSheets)
    /\ \A i, j \in DOMAIN ChildSheets : ChildSheets[i] = ChildSheets[j] => i = j

VARIABLES
    step,     \* where NewPCB stands; "built" and "failed" when it has returned
    running,  \* the step's command is running
    opts,     \* Options of the request, until kbplacer has them
    project,  \* projectName
    dirs,     \* directories below the work directory, by name
    inputs,   \* files written for kbplacer
    sheets,   \* schematic sheets in the project directory
    svgs,     \* their SVG exports beside them
    cmdErr,   \* how the export of the schematic ended
    logs,     \* renders in the logs directory, by name
    renders   \* the manifest's renders, in order

buildVars ==
    <<step, running, opts, project, dirs, inputs, sheets, svgs, cmdErr, logs, renders>>

Commands == {"kbplacer", "schematic", "front", "back"}

NoOptions == [ledChain |-> FALSE]
LogDir == <<"logs">>

\* The render of a sheet, and the file it is copied to.
RenderName(sheet) ==
    IF sheet = Root THEN <<"schematic">>
    ELSE <<"schematic", "-">> \o SlugifySheet(sheet)

\* Mutant: the copy keeps the name kicad-cli gave it.
CopyNameDisplayed(sheet) == IF sheet = Root THEN <<"schematic">> ELSE sheet

CopyName(sheet) == RenderName(sheet)

BuildInit ==
    /\ step = "parse"
    /\ running = FALSE
    /\ opts = NoOptions
    /\ project = <<>>
    /\ dirs = {}
    /\ inputs = {}
    /\ sheets = {}
    /\ svgs = {}
    /\ cmdErr = "none"
    /\ logs = {}
    /\ renders = <<>>

\* NewPCB returns an error.  The work directory stays.
Fails == step' = "failed"

-----------------------------------------------------------------------------
(* Up to kbplacer                                                          *)

ParseSettings ==
    /\ step = "parse"
    /\ \E r \in BuildRequests :
        \/ ~Accepted(r) /\ Fails /\ UNCHANGED opts
        \/ Accepted(r) /\ step' = "workdir" /\ opts' = Options(r)
    /\ UNCHANGED <<running, project, dirs, inputs, sheets, svgs, cmdErr, logs, renders>>

\* The layout's metadata is looked at only now.
MakeWorkDir ==
    /\ step = "workdir"
    /\ step' = "project"
    /\ UNCHANGED <<running, opts, project, dirs, inputs, sheets, svgs, cmdErr, logs, renders>>

NoMetadata ==
    /\ step = "project"
    /\ Fails
    /\ UNCHANGED <<running, opts, project, dirs, inputs, sheets, svgs, cmdErr, logs, renders>>

\* os.Mkdir refuses what exists already, the work directory to begin with.
MakeProjectDir ==
    /\ step = "project"
    /\ \E name \in LayoutNames :
        LET dir == SanitizeFilepath(GetProjectName(name))
        IN  \/ IsWorkDir(dir) /\ Fails /\ UNCHANGED <<project, dirs>>
            \/ /\ ~IsWorkDir(dir)
               /\ step' = "logs"
               /\ project' = GetProjectName(name)
               /\ dirs' = dirs \cup {dir}
    /\ UNCHANGED <<running, opts, inputs, sheets, svgs, cmdErr, logs, renders>>

MakeLogDir ==
    /\ step = "logs"
    /\ \/ LogDir \in dirs /\ Fails /\ UNCHANGED dirs
       \/ LogDir \notin dirs /\ step' = "inputs" /\ dirs' = dirs \cup {LogDir}
    /\ UNCHANGED <<running, opts, project, inputs, sheets, svgs, cmdErr, logs, renders>>

\* The layout, and the track preset if it is used.
WriteInputs ==
    /\ step = "inputs"
    /\ step' = "kbplacer"
    /\ inputs' = {"layout"} \cup {f \in {"preset"} : opts.usePreset}
    /\ UNCHANGED <<running, opts, project, dirs, sheets, svgs, cmdErr, logs, renders>>

-----------------------------------------------------------------------------
(* Commands                                                                *)

\* Mutant: kicad-cli is started whatever became of the context.
StartCommandAlways ==
    /\ step \in Commands
    /\ ~running
    /\ running' = TRUE
    /\ UNCHANGED <<step, opts, project, dirs, inputs, sheets, svgs, cmdErr, logs, renders>>

\* Start fails when the context is cancelled.  GenerateSchematicImage notices by
\* the missing result only.
StartCommand ==
    /\ step \in Commands
    /\ ~running
    /\ \/ ctxDone /\ Fails /\ UNCHANGED running
       \/ ~ctxDone /\ running' = TRUE /\ UNCHANGED step
    /\ UNCHANGED <<opts, project, dirs, inputs, sheets, svgs, cmdErr, logs, renders>>

\* kbplacer wrote the board and the schematic.
KBPlacerEnds ==
    /\ step = "kbplacer"
    /\ running
    /\ running' = FALSE
    /\ step' = "bundle"
    /\ sheets' = {Root} \cup {s \in ToSet(ChildSheets) : KBPlacerArgs(opts).hierarchical}
    /\ opts' = NoOptions
    /\ UNCHANGED <<project, dirs, inputs, svgs, cmdErr, logs, renders>>

\* It does not take every layout.
KBPlacerFails ==
    /\ step = "kbplacer"
    /\ running
    /\ running' = FALSE
    /\ Fails
    /\ UNCHANGED <<opts, project, dirs, inputs, sheets, svgs, cmdErr, logs, renders>>

BundleFootprints ==
    /\ step = "bundle"
    /\ step' = "schematic"
    /\ UNCHANGED <<running, opts, project, dirs, inputs, sheets, svgs, cmdErr, logs, renders>>

\* kicad-cli exports one SVG per sheet into the project directory.
ExportEnds ==
    /\ step = "schematic"
    /\ running
    /\ running' = FALSE
    /\ step' = "collect"
    /\ svgs' = sheets
    /\ UNCHANGED <<opts, project, dirs, inputs, sheets, cmdErr, logs, renders>>

\* It may have exported some when it fails.
ExportFails ==
    /\ CommandFaults
    /\ step = "schematic"
    /\ running
    /\ running' = FALSE
    /\ step' = "collect"
    /\ svgs' \in SUBSET sheets
    /\ cmdErr' = "failed"
    /\ UNCHANGED <<opts, project, dirs, inputs, sheets, logs, renders>>

\* Mutant: only the root sheet, as when there was no other.
FoundRoot == svgs \cap {Root}

\* The exports that filepath.Glob finds.
Found == IF HasMeta(project) THEN {} ELSE svgs

\* sort.SliceStable: the root first, then the children by name.
Before(s, t) ==
    \/ s = Root /\ t # Root
    \/ \E i, j \in DOMAIN ChildSheets : i < j /\ ChildSheets[i] = s /\ ChildSheets[j] = t

Sorted(list) == \A i, j \in DOMAIN list : i < j => Before(list[i], list[j])

\* The root's export is the only sign of success: cmdErr does not matter when it
\* is there.
NothingCollected ==
    /\ step = "collect"
    /\ Root \notin svgs \/ BadPattern(project)
    /\ Fails
    /\ UNCHANGED <<running, opts, project, dirs, inputs, sheets, svgs, cmdErr, logs, renders>>

CollectSheets ==
    /\ step = "collect"
    /\ Root \in svgs
    /\ ~BadPattern(project)
    /\ step' = "front"
    /\ \E n \in 0..Len(ChildSheets) + 1 : \E list \in [1..n -> Found] :
        /\ ToSet(list) = Found
        /\ Sorted(list)
        /\ renders' = [i \in 1..n |-> RenderName(list[i])]
        /\ logs' = logs \cup {CopyName(list[i]) : i \in 1..n}
    /\ UNCHANGED <<running, opts, project, dirs, inputs, sheets, svgs, cmdErr>>

\* kicad-cli rendered one side of the board.
RenderFrontEnds ==
    /\ step = "front"
    /\ running
    /\ running' = FALSE
    /\ step' = "back"
    /\ logs' = logs \cup {<<"front">>}
    /\ UNCHANGED <<opts, project, dirs, inputs, sheets, svgs, cmdErr, renders>>

\* The manifest: the board's renders, then the schematic's.
RenderBackEnds ==
    /\ step = "back"
    /\ running
    /\ running' = FALSE
    /\ step' = "built"
    /\ logs' = logs \cup {<<"back">>}
    /\ renders' = <<<<"front">>, <<"back">>>> \o renders
    /\ UNCHANGED <<opts, project, dirs, inputs, sheets, svgs, cmdErr>>

RenderFails ==
    /\ CommandFaults
    /\ step \in {"front", "back"}
    /\ running
    /\ running' = FALSE
    /\ Fails
    /\ UNCHANGED <<opts, project, dirs, inputs, sheets, svgs, cmdErr, logs, renders>>

\* Mutant: kicad-cli is started without the context.
KillKBPlacerOnly ==
    /\ running
    /\ ctxDone
    /\ step = "kbplacer"
    /\ running' = FALSE
    /\ Fails
    /\ UNCHANGED <<opts, project, dirs, inputs, sheets, svgs, cmdErr, logs, renders>>

\* The context kills the running command, which takes its output pipe with it.
Kill ==
    /\ running
    /\ ctxDone
    /\ running' = FALSE
    /\ \/ /\ step = "schematic"
          /\ step' = "collect"
          /\ svgs' \in SUBSET sheets
          /\ cmdErr' = "killed"
       \/ step # "schematic" /\ Fails /\ UNCHANGED <<svgs, cmdErr>>
    /\ UNCHANGED <<opts, project, dirs, inputs, sheets, logs, renders>>

\* A directory or a file cannot be made, read or written; a footprint library
\* cannot be copied, because a request may name one that is not there.
IOError ==
    /\ \/ CommandFaults /\ step \in {"workdir", "project", "logs", "inputs", "collect"}
       \/ CommandFaults /\ step = "kbplacer" /\ ~running
       \/ step = "bundle"
    /\ Fails
    /\ UNCHANGED <<running, opts, project, dirs, inputs, sheets, svgs, cmdErr, logs, renders>>

-----------------------------------------------------------------------------
\* What NewPCB does by itself, and what a command does.
NewPCBStep ==
    \/ ParseSettings \/ MakeWorkDir \/ NoMetadata \/ MakeProjectDir \/ MakeLogDir
    \/ WriteInputs \/ StartCommand \/ BundleFootprints \/ NothingCollected
    \/ CollectSheets \/ Kill \/ IOError

CommandStep ==
    \/ KBPlacerEnds \/ KBPlacerFails \/ ExportEnds \/ ExportFails
    \/ RenderFrontEnds \/ RenderBackEnds \/ RenderFails

BuildStep == (NewPCBStep \/ CommandStep) /\ UNCHANGED ctxDone

-----------------------------------------------------------------------------
(* Properties                                                              *)

BuildTypeOK ==
    /\ step \in Commands \cup {"parse", "workdir", "project", "logs", "inputs", "bundle",
                               "collect", "built", "failed"}
    /\ running \in BOOLEAN
    /\ running => step \in Commands
    /\ inputs \subseteq {"layout", "preset"}
    /\ sheets \subseteq {Root} \cup ToSet(ChildSheets)
    /\ svgs \subseteq {Root} \cup ToSet(ChildSheets)
    /\ cmdErr \in {"none", "failed", "killed"}

\* kbplacer never runs with an element to place whose footprint or placement was
\* not given, nor with an input file that was not written: NewPCB asks for just the
\* settings that buildKBPlacerArgs needs, for each mix of LED chain, decoupling,
\* stabilizers, preset and routing.
ArgsAreComplete ==
    step = "kbplacer" /\ running =>
        LET a == KBPlacerArgs(opts)
        IN  /\ a.places \subseteq a.footprints \cap opts.placements
            /\ "layout" \in inputs
            /\ a.preset => a.routeSwitches /\ "preset" \in inputs

\* Why: until kbplacer has them, the options are those of an accepted request.
OptionsAccepted ==
    /\ step \in {"workdir", "project", "logs", "inputs", "kbplacer"} =>
            \E r \in BuildRequests : Accepted(r) /\ opts = Options(r)
    /\ step = "kbplacer" => inputs = {"layout"} \cup {f \in {"preset"} : opts.usePreset}

\* Whatever a layout is called, its files are in a directory of that name, below the
\* work directory and apart from the logs: SanitizeFilepath finds nothing left to
\* change, and a name that is the work directory or the logs fails the build.
ProjectIsContained ==
    dirs # {} =>
        /\ project \in dirs
        /\ "/" \notin ToSet(project) /\ ~IsWorkDir(project)
        /\ step \notin {"logs", "failed"} => dirs = {project, LogDir} /\ project # LogDir

\* Why: the project's directory is the first that is made, the logs' the second.
DirsInOrder ==
    /\ step \in {"parse", "workdir", "project"} => dirs = {}
    /\ step = "logs" => dirs = {project}
    /\ ProjectIsContained

\* UploadSVG finds the file of every render the manifest lists.
ManifestIsReadable ==
    step = "built" => \A i \in DOMAIN renders : renders[i] \in logs

\* Why: an entry is added when its file is there, or just before.
ListedAreThere ==
    /\ step \in {"front", "back", "built"} => renders \in Seq(logs)
    /\ step = "back" => <<"front">> \in logs
    /\ step \notin {"front", "back", "built", "failed"} => renders = <<>>

\* The renders a returned manifest would list for all sheets.
AllRenders == {<<"front">>, <<"back">>} \cup {RenderName(s) : s \in sheets}

\* A manifest is never made from an export that the context cut short: the sheets
\* that are there are all, or kicad-cli failed by itself after the root sheet.
\* cmdErr is not looked at; the build fails because no later command starts.
ExportIsWhole == step = "built" /\ cmdErr # "failed" => svgs = sheets

\* Why: a killed export leaves a cancelled context behind.
ExportSettled ==
    /\ cmdErr # "none" => step \in {"collect", "front", "back", "built", "failed"}
    /\ cmdErr = "killed" => ctxDone /\ ~running /\ step \in {"collect", "front", "failed"}
    /\ cmdErr = "none" /\ step \in {"collect", "front", "back", "built"} => svgs = sheets
    /\ running => step \in Commands

\* A manifest lists every sheet, and each once.  Excepted are brackets in the name
\* (EverySheetListed) and a kicad-cli that fails after the root sheet.
SheetsComplete ==
    step = "built" /\ cmdErr # "failed" /\ ~HasMeta(project) =>
        /\ ToSet(renders) = AllRenders
        /\ Len(renders) = Cardinality(sheets) + 2

\* Why: once collected, the renders are those of the exports, one for one.
SheetsCollected ==
    /\ step \in {"front", "back"} /\ ~HasMeta(project) =>
        /\ ToSet(renders) = {RenderName(s) : s \in svgs}
        /\ Len(renders) = Cardinality(svgs)
    /\ step = "built" /\ ~HasMeta(project) =>
        /\ ToSet(renders) = {<<"front">>, <<"back">>} \cup {RenderName(s) : s \in svgs}
        /\ Len(renders) = Cardinality(svgs) + 2

-----------------------------------------------------------------------------
\* kicad.go:365, "Every sheet is copied into the logs directory under a distinct
\* render name so it can be uploaded and previewed individually".
EverySheetListed == step = "built" => AllRenders \subseteq ToSet(renders)

=============================================================================
