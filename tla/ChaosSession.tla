---------------------------- MODULE ChaosSession ----------------------------
(***************************************************************************)
(* A session of the chaos runner (runtime_chaos/run_chaos.py): for every   *)
(* profile the submission is built, run as ChaosRunner says and cleaned    *)
(* up; when all have run the report is written.                            *)
(***************************************************************************)
EXTENDS ChaosRunner, Submission, ChaosReport

CONSTANTS Sessions,   \* name -> [sub, profiles]: a submission and the profiles asked for
          Walls,      \* wall times a run may have, by profile
          Outputs     \* [out, err]: what a program may write, by profile

\* The command line names one profile, or every profile is run, each once.
ASSUME SessionsAssumption ==
    \A s \in DOMAIN Sessions :
        LET asked == Sessions[s].profiles
        IN  asked \in Seq(Range(asked)) /\ asked # <<>> /\ IsInjective(asked)

\* What is in a directory, and a line of its dirs.txt after the other.
ASSUME SubmissionsAssumption ==
    \A s \in DOMAIN Sessions :
        LET sub == Sessions[s].sub
        IN  IsFiniteSet(sub.below) /\ sub.lines \in Seq(Range(sub.lines)) /\ sub.listing \in Seq(Range(sub.listing))

\* A wall time is the difference of two readings of a clock that never goes back.
ASSUME WallsAssumption == \A p \in DOMAIN Profiles : Walls[p] \subseteq Nat

VARIABLES
    session,     \* name of the session
    todo,        \* profiles left
    phase,       \* "start", "build", "run", "clean", "write", "done", "exit", "crash"
    work,        \* containers left of the build or the clean-up
    code,        \* exit code of the last of them
    raised,      \* an exception is on its way out
    artifacts,   \* the directory has build results
    strays,      \* containers whose client timed out: they are not killed
    slipped,     \* history: a container timed out, or cleaning failed
    results,     \* of the runs that ended
    report

sessionVars == <<session, todo, phase, work, code, raised, artifacts, strays, slipped, results, report>>

vars == <<runVars, sessionVars>>

Sub == Sessions[session].sub

SessionInit ==
    /\ RunInit
    /\ session \in DOMAIN Sessions
    /\ todo = Sessions[session].profiles
    /\ phase = "start" /\ work = <<>> /\ code = 0 /\ raised = FALSE
    /\ artifacts = FALSE /\ strays = {} /\ slipped = FALSE
    /\ results = <<>> /\ report = NoReport

(***************************************************************************)
(* A container of the submission runner: it ends, or its client is killed  *)
(* after 30 s and it goes on by itself.                                    *)
(***************************************************************************)
Builds == {"compile", "make", "script"}
Cleans == {"clean", "rm"}

Leaves(cmd, ok) ==
    CASE cmd \in Builds /\ ok -> {TRUE}
      [] cmd \in {"make", "script"} /\ ~ok -> {artifacts, TRUE}
      [] cmd \in Cleans /\ ok -> {FALSE}
      [] OTHER -> {artifacts}

RunInContainer ==
    /\ phase \in {"build", "clean"} /\ work # <<>>
    /\ work' = Tail(work)
    /\ LET cmd == Head(work)
       IN  \/ \E ok \in BOOLEAN :
                 /\ artifacts' \in Leaves(cmd, ok)
                 /\ code' = IF ok THEN 0 ELSE 1
                 /\ slipped' = (slipped \/ (cmd \in Cleans /\ ~ok))
                 /\ UNCHANGED strays
           \/ /\ strays' = strays \cup {cmd} /\ slipped' = TRUE /\ code' = -1
              /\ UNCHANGED artifacts
    /\ UNCHANGED <<session, todo, phase, raised, results, report, runVars>>

StrayEnds ==
    \E cmd \in strays, ok \in BOOLEAN :
        /\ strays' = strays \ {cmd}
        /\ artifacts' \in Leaves(cmd, ok)
        /\ UNCHANGED <<session, todo, phase, work, code, raised, slipped, results, report, runVars>>

(***************************************************************************)
(* One profile.                                                            *)
(***************************************************************************)
StartProfile ==
    /\ phase = "start"
    /\ \/ ~Supported(Sub) /\ phase' = "crash" /\ UNCHANGED <<work, code>>
       \/ Supported(Sub) /\ phase' = "build" /\ work' = BuildContainers(Sub) /\ code' = 0
    /\ UNCHANGED <<session, todo, raised, artifacts, strays, slipped, results, report, runVars>>

CleanUp(raises) ==
    /\ phase' = "clean"
    /\ work' = CleanContainers(Sub)
    /\ raised' = raises

\* A build that failed ends the session; an unknown profile raises once it is built.
BuildEnds ==
    /\ phase = "build" /\ work = <<>>
    /\ IF code # 0 \/ BuildLacksOutput(Sub)
       THEN phase' = "exit" /\ UNCHANGED <<work, raised, runVars>>
       ELSE IF Head(todo) \in DOMAIN Profiles
       THEN StartRun(Head(todo)) /\ phase' = "run" /\ UNCHANGED <<work, raised>>
       ELSE CleanUp(TRUE) /\ UNCHANGED runVars
    /\ UNCHANGED <<session, todo, code, artifacts, strays, slipped, results, report>>

Run ==
    /\ phase = "run" /\ ~RunOver
    /\ RunSteps
    /\ UNCHANGED sessionVars

\* The result of the run, with the output of a program that returned.
Result(wall, o) ==
    LET own == outcome.rc >= 0
    IN  [profile |-> profile, rc |-> outcome.rc, oom |-> outcome.rc = 137, timed |-> outcome.timed,
         rss |-> result[1], peak |-> result[2], avg |-> result[3], pids |-> result[4],
         wall |-> wall, out |-> IF own THEN o.out ELSE <<>>, err |-> IF own THEN o.err ELSE TRUE]

\* Mutant: an exception skips the clean-up.
RunEndsNoFinally ==
    /\ phase = "run" /\ RunOver
    /\ IF runner = "raised" THEN phase' = "crash" /\ UNCHANGED <<work, raised>> ELSE CleanUp(FALSE)
    /\ IF runner = "raised" THEN UNCHANGED results
       ELSE \E wall \in Walls[profile], o \in Outputs[profile] : results' = Append(results, Result(wall, o))
    /\ Returned
    /\ UNCHANGED <<session, todo, code, artifacts, strays, slipped, report>>

RunEnds ==
    /\ phase = "run" /\ RunOver
    /\ CleanUp(runner = "raised")
    /\ IF runner = "raised" THEN UNCHANGED results
       ELSE \E wall \in Walls[profile], o \in Outputs[profile] : results' = Append(results, Result(wall, o))
    /\ Returned
    /\ UNCHANGED <<session, todo, code, artifacts, strays, slipped, report>>

CleanEnds ==
    /\ phase = "clean" /\ work = <<>>
    /\ todo' = Tail(todo)
    /\ phase' = IF raised THEN "crash" ELSE IF todo' = <<>> THEN "write" ELSE "start"
    /\ UNCHANGED <<session, work, code, raised, artifacts, strays, slipped, results, report, runVars>>

\* The raw results are saved before the report's text is made up.
SaveReport ==
    /\ phase = "write"
    /\ \/ FeedbackRaises(results) /\ phase' = "crash" /\ UNCHANGED report
       \/ ~FeedbackRaises(results) /\ phase' = "done" /\ report' = Report(results)
    /\ UNCHANGED <<session, todo, work, code, raised, artifacts, strays, slipped, results, runVars>>

SessionSteps == StartProfile \/ RunInContainer \/ BuildEnds \/ RunEnds \/ CleanEnds \/ SaveReport

SessionNext == Run \/ SessionSteps \/ StrayEnds

(***************************************************************************)
(* Every container a session waits for has a timeout, and so has every     *)
(* command of the runner and the chaos thread; the sampler may poll as     *)
(* often as it likes meanwhile.                                            *)
(***************************************************************************)
Progress ==
    \/ SessionSteps
    \/ phase = "run" /\ ~RunOver /\ (RunnerSteps \/ ChaosSteps) /\ UNCHANGED sessionVars

SessionSpec == SessionInit /\ [][SessionNext]_vars /\ WF_vars(Progress)

Over == phase \in {"done", "exit", "crash"}

(***************************************************************************)
(* Every session ends, whatever the program in the container does.         *)
(***************************************************************************)
SessionEnds == <>Over

(***************************************************************************)
(* A session that built its submission leaves no build results behind,     *)
(* unless a container timed out and went on by itself, cleaning failed, or *)
(* the build is one that has nothing to clean it.  An exception does not   *)
(* change that.                                                            *)
(***************************************************************************)
BuildIsCleaned ==
    phase \in {"done", "crash"} /\ artifacts => slipped \/ CleanContainers(Sub) = <<>>

(***************************************************************************)
(* A report of success is earned: no profile failed, and none was more     *)
(* than 30.0 % slower, a percentage being rounded to tenths, if a baseline *)
(* says how fast the program is.                                           *)
(***************************************************************************)
SuccessIsEarned ==
    report.written /\ report.verdict.failures = {} /\ report.verdict.warnings = {} =>
        \A r \in Others(results) :
            /\ r.rc = 0 /\ ~r.oom /\ ~r.timed
            /\ HasBaseline(results) => 2000 * r.wall < 2601 * BaselineOf(results).wall \/ BaselineOf(results).wall = 0

(***************************************************************************)
(* The report's two views agree: a profile is among the failures of the    *)
(* verdict when its status says so, and likewise for the warnings.         *)
(***************************************************************************)
StatusIsTheVerdict ==
    report.written =>
        \A s \in report.status :
            /\ s[1] \in report.verdict.failures <=> s[2] \notin {"warn", "pass"}
            /\ s[1] \in report.verdict.warnings <=> s[2] = "warn"
            /\ s[1] \in report.verdict.passing <=> s[2] = "pass"

(***************************************************************************)
(* The analysis of the saved results fails the same profiles as the        *)
(* report, and warns of every profile the report warns of.                 *)
(***************************************************************************)
AnalysisAgrees ==
    report.written /\ HasBaseline(results) =>
        /\ Summary(results).failures = report.verdict.failures
        /\ report.verdict.warnings \subseteq Summary(results).warnings

(***************************************************************************)
(* The feedback names how a run failed: never success for one that did;    *)
(* the memory for one that was killed and for no other; the time limit as  *)
(* exceeded for one that exceeded it and for no other.  The analysis of    *)
(* the failure blames the time limit also for a program's own exit code of *)
(* 124, the one the timeout command uses, and for nothing else.            *)
(***************************************************************************)
FeedbackIsHonest ==
    report.written =>
        \A r \in Others(results), f \in report.feedback :
            f[1] = r.profile =>
                /\ <<"success", "handled_well">> \in f[2] => r.rc = 0 /\ ~r.timed
                /\ r.oom <=> <<"failure", "memory">> \in f[2]
                /\ r.timed <=> <<"fail", "time_limit">> \in f[2]
                /\ r.timed \/ r.rc = 124 <=> <<"failure", "time_limit">> \in f[2]

(***************************************************************************)
(* When all profiles have run the report is lost only to output of a run   *)
(* under chaos that does not parse.                                        *)
(***************************************************************************)
ReportIsWritten ==
    phase = "crash" /\ Len(results) = Len(Sessions[session].profiles) =>
        \E r \in Others(results) : ~Parses(r.out)

(***************************************************************************)
(* It does not matter where in dirs.txt its one OUTPUT line stands.        *)
(***************************************************************************)
OutputAnywhere ==
    phase = "start" =>
        LET lines == Sub.lines
        IN  \A i, j \in DOMAIN lines :
                (\A k \in DOMAIN lines : IsOutput(lines[k]) <=> k = i) =>
                    Settings(InsertAt(RemoveAt(lines, i), j, lines[i])) = Settings(lines)

(***************************************************************************)
(* A directory without a build system whose files are there and of one     *)
(* language runs in the image of the language it was built in.             *)
(***************************************************************************)
RunsWhereBuilt ==
    LET sources == {f \in Sub.below : Knows(f.ext)}
    IN  /\ phase = "run" /\ ~Single(Sub) /\ BuildSystem(Sub) = "none"
        /\ Range(ParseConfig(Sub).files) \subseteq Sub.below
        /\ \A f, g \in sources : f.ext = g.ext
        => InferLanguage(Sub) = DetectLanguage(Sub)

(***************************************************************************)
(* What the chaos thread does to a container is one snapshot of the        *)
(* profile at a time, also when the run ends while it works                *)
(* (_chaos_worker, to_tc_commands).                                        *)
(***************************************************************************)
SnapshotHolds == OneSnapshotAfterStop /\ RulesOfOneSnapshot

(***************************************************************************)
(* The figures of a result come from the samples of its run                *)
(* (run_in_container_with_chaos).                                          *)
(***************************************************************************)
FiguresAreReal == StatsArrive /\ FiguresAreSampled

(***************************************************************************)
(* The report, the analysis and the feedback say of every profile what its *)
(* run was, and agree (save_run_report, analyze.py, generate_feedback).    *)
(***************************************************************************)
ReportIsHonest ==
    SuccessIsEarned /\ StatusIsTheVerdict /\ AnalysisAgrees /\ FeedbackIsHonest /\ ReportIsWritten

(***************************************************************************)
(* A submission is built, run and cleaned up as what it is                 *)
(* (run_chaos_on_path).                                                    *)
(***************************************************************************)
SubmissionIsRun == BuildIsCleaned /\ OutputAnywhere /\ RunsWhereBuilt
=============================================================================
