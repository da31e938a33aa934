----------------------------- MODULE ScanEngine -----------------------------
(***************************************************************************)
(* A command of the security toolkit: its targets are profiled, a pool of  *)
(* workers runs the scanners that can handle them, the results are taken   *)
(* in any order and put into one report, and the exit code follows         *)
(* (security_toolkit/src/cli.py, core/engine.py).                          *)
(***************************************************************************)
EXTENDS ScanFindings, ScanTargets, PluginRuns, FiniteSetsExt

CONSTANTS Commands,   \* name -> the arguments and the world they meet
          Results     \* name -> scanner -> the outputs its tool may have

VARIABLES
    command,     \* name of the command
    stages,      \* the halves left to run
    phase,       \* "parse", "profile", "select", "scan", "half", "write", "done"
    profile,
    queue,       \* scanners no worker has taken yet
    value,       \* scanner -> the findings it is about to return
    status,      \* scanner -> [status, count]
    findings, errors,    \* of the report in the making
    halves,      \* the reports of the halves that ran
    report,
    files,       \* path -> "json" or "md"
    code,        \* exit code
    told         \* history: every finding a scanner returned

engineVars == <<command, stages, phase, profile, queue, value, status, findings, errors, halves, report, files,
                code, told>>

vars == <<runVars, engineVars>>

ASSUME PluginsAreRegistered == Plugins = ToSet(Registry)

\* What argparse makes of --workers and --output.
ASSUME CommandsAreParsed ==
    \A c \in DOMAIN Commands :
        /\ Commands[c].workers \in Int
        /\ Commands[c].output \in Seq([dir : Seq(STRING), stem : STRING, suffix : STRING])

\* The outputs of a tool are a list; those of a container's memory two, and of a service figures.
IsList(s) == s \in Seq(ToSet(s))

ASSUME ResultsAreListed ==
    \A c \in DOMAIN Commands, p \in Plugins \ {Monitor} : \A out \in Results[c][p] :
        IF p = Memory THEN IsList(out.matches) /\ IsList(out.entropic) ELSE IsList(out)

C == Commands[command]

NoReport == [findings |-> <<>>, errors |-> {}, execution |-> <<>>]

EngineInit ==
    /\ RunInit
    /\ command \in DOMAIN Commands
    /\ stages = Stages(Commands[command])
    /\ phase = "parse" /\ profile = None
    /\ queue = {} /\ value = [p \in Plugins |-> <<>>] /\ status = <<>>
    /\ findings = <<>> /\ errors = {} /\ halves = <<>> /\ report = NoReport
    /\ files = <<>> /\ code = -1 /\ told = {}

Exit(n) == phase' = "done" /\ code' = n

(***************************************************************************)
(* Arguments and targets.                                                  *)
(***************************************************************************)
ParseArgs ==
    /\ phase = "parse"
    /\ IF Refused(C) THEN Exit(2) ELSE phase' = "profile" /\ UNCHANGED code
    /\ UNCHANGED <<command, stages, profile, queue, value, status, findings, errors, halves, report, files, told, runVars>>

ProfileStage ==
    /\ phase = "profile"
    /\ LET possible == StageProfile(C, C.world, Head(stages))
       IN  IF possible = {} THEN Exit(2) /\ UNCHANGED profile
           ELSE profile' \in possible /\ phase' = "select" /\ UNCHANGED code
    /\ UNCHANGED <<command, stages, queue, value, status, findings, errors, halves, report, files, told, runVars>>

(***************************************************************************)
(* The engine's run: who cannot handle the target is skipped; if nobody    *)
(* can, that is the only error of the report.  A pool without workers is a *)
(* ValueError, taken for a bad target.                                     *)
(***************************************************************************)
Selected == SelectPlugins(profile, C.world)

Skipped == [status |-> "skipped", count |-> 0]

RunEngine ==
    /\ phase = "select"
    /\ status' = [p \in Plugins |-> IF p \in Selected THEN [status |-> "running", count |-> 0] ELSE Skipped]
    /\ IF Selected # {} /\ C.workers < 1 THEN Exit(2) /\ UNCHANGED <<queue, errors>>
       ELSE /\ phase' = "scan" /\ queue' = Selected
            /\ errors' = IF Selected = {} THEN {"none applicable"} ELSE {}
            /\ UNCHANGED code
    /\ findings' = <<>>
    /\ UNCHANGED <<command, stages, profile, value, halves, report, files, told, runVars>>

Busy == {p \in Plugins : at[p] \notin {"idle", "returned", "raised", "collected"}}

FirstPlace(p) ==
    CASE p = "memory-forensics" -> "network"
      [] p = "resource-monitor" -> IF profile.image = None THEN "url" ELSE IF profile.ports = {} THEN "returned" ELSE "start"
      [] OTHER -> "tool"

\* Mutant: the pool keeps one worker back.
TakeWorkOneLess ==
    /\ phase = "scan" /\ Cardinality(Busy) < C.workers - 1
    /\ \E p \in queue :
          /\ \A q \in queue \ {p} : RegistersBefore(p, q)
          /\ Begin(p, FirstPlace(p))
          /\ queue' = queue \ {p}
    /\ UNCHANGED <<command, stages, phase, profile, value, status, findings, errors, halves, report, files, code, told>>

\* They are taken in the order they were submitted, which is the one they register in.
TakeWork ==
    /\ phase = "scan" /\ Cardinality(Busy) < C.workers
    /\ \E p \in queue :
          /\ \A q \in queue \ {p} : RegistersBefore(p, q)
          /\ Begin(p, FirstPlace(p))
          /\ queue' = queue \ {p}
    /\ UNCHANGED <<command, stages, phase, profile, value, status, findings, errors, halves, report, files, code, told>>

(***************************************************************************)
(* What a scanner finds in what its tool or its container shows it.        *)
(* Semgrep only has the rules of the languages that were detected.         *)
(***************************************************************************)
Found(p, out) ==
    CASE p = "semgrep" -> SemgrepFindings(Those(out, {i \in DOMAIN out : out[i].ruleset \in BuildRulesets(profile.languages)}))
      [] p \in {"trivy-sca", "container-scanner"} -> Vulnerabilities(out)
      [] p = "iac-config" -> Misconfigurations(out)
      [] p = "gitleaks" -> Leaks(Those(out, {i \in DOMAIN out : out[i].commit => profile.git}))
      [] p = "memory-forensics" -> Secrets(profile.image, out.matches, out.entropic)
      [] p = "resource-monitor" ->
            IF profile.image = None THEN UrlFindings(profile.url, out) ELSE MonitorFindings(profile.image, out)

\* A service that is not up is not looked at.
ScannerStep(p) ==
    /\ \/ FindingStep(p) /\ \E out \in Results[command][p] : value' = [value EXCEPT ![p] = Found(p, out)]
       \/ CheckUrl(p) /\ UNCHANGED value
       \/ QuietStep(p) /\ UNCHANGED value
    /\ UNCHANGED <<command, stages, phase, profile, queue, status, findings, errors, halves, report, files, code, told>>

\* The results come in the order in which the scanners end, or any other.
Collect(p) ==
    /\ phase = "scan" /\ at[p] \in {"returned", "raised"}
    /\ Collected(p)
    /\ IF at[p] = "returned"
       THEN /\ findings' = findings \o value[p]
            /\ status' = [status EXCEPT ![p] = [status |-> "success", count |-> Len(value[p])]]
            /\ told' = told \cup ToSet(value[p])
            /\ UNCHANGED errors
       ELSE /\ status' = [status EXCEPT ![p] = [status |-> "failed", count |-> 0]]
            /\ errors' = errors \cup {p}
            /\ UNCHANGED <<findings, told>>
    /\ value' = [value EXCEPT ![p] = <<>>]
    /\ UNCHANGED <<command, stages, phase, profile, queue, halves, report, files, code>>

EngineEnds ==
    /\ phase = "scan" /\ queue = {}
    /\ \A p \in Selected : at[p] = "collected"
    /\ halves' = Append(halves, [findings |-> SortBySeverity(Deduplicate(findings)), errors |-> errors,
                                 execution |-> status])
    /\ stages' = Tail(stages)
    /\ phase' = IF stages' = <<>> THEN "half" ELSE "profile"
    /\ findings' = <<>> /\ errors' = {} /\ status' = <<>>
    /\ UNCHANGED <<command, profile, queue, value, report, files, code, told, runVars>>

(***************************************************************************)
(* One report: of "full" both halves, a scanner that one of them skipped   *)
(* standing as it does in the other.                                       *)
(***************************************************************************)
MergeExecution(a, b) == [p \in Plugins |-> IF a[p].status = "skipped" THEN b[p] ELSE a[p]]

MergeHalves ==
    IF Len(halves) = 1 THEN halves[1]
    ELSE [findings  |-> SortBySeverity(Deduplicate(halves[1].findings \o halves[2].findings)),
          errors    |-> halves[1].errors \cup halves[2].errors,
          execution |-> MergeExecution(halves[1].execution, halves[2].execution)]

MakeReport ==
    /\ phase = "half"
    /\ report' = MergeHalves
    /\ phase' = "write"
    /\ UNCHANGED <<command, stages, profile, queue, value, status, findings, errors, halves, files, code, told, runVars>>

\* The JSON report is written first, the Markdown one may be the same file.
WriteAndExit ==
    /\ phase = "write"
    /\ files' = IF C.output = <<>> THEN files
                ELSE LET json == JsonPath(Head(C.output), C.world.dirs)
                         a == Written(json, C.world.dirs, "report", ".json")
                         b == Written(MdPath(json), C.world.dirs, "report", ".md")
                     IN  [f \in {a, b} |-> IF f = b THEN "md" ELSE "json"]
    /\ Exit(ExitCode(report.findings, C.failOn))
    /\ UNCHANGED <<command, stages, profile, queue, value, status, findings, errors, halves, report, told, runVars>>

MainSteps == ParseArgs \/ ProfileStage \/ RunEngine \/ TakeWork \/ EngineEnds \/ MakeReport \/ WriteAndExit

EngineNext == MainSteps \/ \E p \in Plugins : ScannerStep(p) \/ Collect(p)

(***************************************************************************)
(* Every tool and every call of docker has a timeout, every wait a number  *)
(* of attempts, and the pool's threads all run.                            *)
(***************************************************************************)
EngineSpec == EngineInit /\ [][EngineNext]_vars /\ WF_vars(EngineNext)

(***************************************************************************)
(* Properties.                                                             *)
(***************************************************************************)
Reported == phase \in {"write", "done"} /\ report # NoReport

\* The sum of a function's values, as the size of a disjoint union.
Total(f) == Cardinality(UNION {{x} \X (1 .. f[x]) : x \in DOMAIN f})

(***************************************************************************)
(* Every scanner is told of once: it ran, it failed with an error, or it   *)
(* was skipped, and skipped only if no half of the command ran it          *)
(* (engine.py:82-84, cli.py:208-216); what was found adds up.              *)
(***************************************************************************)
ExecutionIsTold ==
    Reported =>
    LET doc == Document(report.findings, report.errors, report.execution)
    IN  /\ DOMAIN doc.executed \cup doc.failed \cup doc.skipped = Plugins
        /\ doc.skipped = {p \in Plugins : at[p] # "collected"}
        /\ doc.failed = report.errors \ {"none applicable"}
        /\ doc.total <= Total(doc.executed)
        /\ doc.total = Total(doc.counts)

(***************************************************************************)
(* Whatever the order in which the scanners ended, the report has one      *)
(* finding for every fingerprint that any of them returned, at the worst   *)
(* severity it was returned with (models.py:117-124, cli.py:217-227).      *)
(***************************************************************************)
WorstIsKept ==
    Reported =>
    /\ {<<Fingerprint(f), f.sev>> : f \in ToSet(report.findings)}
         = {<<Fingerprint(f), f.sev>> : f \in {g \in told : \A h \in told : Fingerprint(h) = Fingerprint(g) => h.sev <= g.sev}}
    /\ \A i, j \in DOMAIN report.findings :
          Fingerprint(report.findings[i]) = Fingerprint(report.findings[j]) => i = j

(***************************************************************************)
(* The worst come first: the console shows thirty of them only             *)
(* (console_report.py:82).                                                 *)
(***************************************************************************)
WorstFirst ==
    Reported => \A i, j \in DOMAIN report.findings : i < j => report.findings[i].sev >= report.findings[j].sev

(***************************************************************************)
(* The verdict of the reports and the exit code of the command agree, and  *)
(* 2 means that there is no report (cli.py:233-260, models.py:193-198).    *)
(***************************************************************************)
VerdictIsTheExit ==
    phase = "done" =>
    LET verdict == Verdict(report.findings)
    IN  /\ code = 2 <=> report = NoReport
        /\ code # 2 /\ C.failOn = "high" => (code = 1 <=> verdict = "FAIL")
        /\ code # 2 /\ C.failOn = "info" => (code = 1 <=> verdict # "PASS")
        /\ code = 1 => verdict # "PASS"

(***************************************************************************)
(* The consolidation of a noisy rule loses no hit outside the program's    *)
(* own tools and makes nothing worse; a hit inside is still counted in the *)
(* advice (semgrep.py:152-221).                                            *)
(***************************************************************************)
ReductionIsAdvice ==
    phase = "parse" =>
    \A out \in Results[command]["semgrep"] :
        LET before == MapSeq(LAMBDA r : Finding(r.id[1], r.path, r.line, <<Get(r.message, "check_id")>>,
                                               Normalize(Get(r.severity, "warning")), "sast"), out)
            after  == ToSet(ReduceFalsePositives(before))
            hits   == {i \in DOMAIN before : before[i] \notin after}
        IN  /\ \A i \in hits : Last(before[i].rule) = Noisy /\ Safe(before[i])
            /\ hits # {} => \E f \in after : f.sev = INFO /\ f.title = <<"consolidated", Cardinality(hits)>>

(***************************************************************************)
(* No container is started and no network made for a command that names no *)
(* image (cli.py:95-104).                                                  *)
(***************************************************************************)
ContainersAreForImages == nets \cup containers # {} => C.image # None

(***************************************************************************)
(* Two reports are written and the JSON one is there, unless the path that *)
(* was given ends in .md (cli.py:238-256).                                 *)
(***************************************************************************)
BothAreWritten ==
    phase = "done" /\ code # 2 /\ C.output # <<>> /\ Head(C.output).suffix # ".md" =>
        {files[f] : f \in DOMAIN files} = {"json", "md"}

\* Every command comes to an end, with an exit code.
CommandEnds == <>(phase = "done" /\ code \in {0, 1, 2})

(***************************************************************************)
(* No more scanners run at a time than the command asks for                *)
(* (engine.py:108-111).                                                    *)
(***************************************************************************)
WorkersAreEnough == Cardinality(Busy) <= Max({C.workers, 0})

(***************************************************************************)
(* The report is true: of every scanner it says what became of it, and its *)
(* verdict is the exit code (cli.py:165-260).                              *)
(***************************************************************************)
ReportIsTrue == ExecutionIsTold /\ VerdictIsTheExit

(***************************************************************************)
(* The command is done as it was given: its containers, its workers and    *)
(* its output files (cli.py:95-135).                                       *)
(***************************************************************************)
CommandIsObeyed == ContainersAreForImages /\ WorkersAreEnough /\ BothAreWritten

(***************************************************************************)
(* From a scanner's output to the report no finding is lost or made        *)
(* harmless, and the worst come first (semgrep.py:152-221,                 *)
(* models.py:117-127).                                                     *)
(***************************************************************************)
FindingsSurvive == ReductionIsAdvice /\ WorstIsKept /\ WorstFirst
=============================================================================
