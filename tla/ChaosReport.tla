---------------------------- MODULE ChaosReport ----------------------------
(***************************************************************************)
(* What the chaos runner says of its runs: the metrics read from a         *)
(* program's output and the feedback (runtime_chaos/report_format.py), the *)
(* comparison with the baseline (analyze.py) and the report                *)
(* (run_chaos.py).                                                         *)
(*                                                                         *)
(* A result is [profile, rc, oom, timed, rss, peak, avg, pids, wall, out,  *)
(* err], wall in hundredths of a second.  out is a sequence of lines [tag, *)
(* val, hist]; a val or hist of -1 stands for none, and a val of -2 for    *)
(* dots and digits that are no number.                                     *)
(***************************************************************************)
EXTENDS Integers, Sequences, FiniteSets, SequencesExt, FiniteSetsExt

Nothing   == -1
Malformed == -2

(***************************************************************************)
(* parse_metrics.  A number with dots that float() does not take raises.   *)
(***************************************************************************)
Parses(out) == ~\E i \in DOMAIN out : out[i].tag \in {"io", "iterations"} /\ out[i].val = Malformed

Values(out, tags) ==
    LET lines == SelectSeq(out, LAMBDA l : l.tag \in tags /\ l.val >= 0) IN [i \in DOMAIN lines |-> lines[i].val]

Histories(out) ==
    LET lines == SelectSeq(out, LAMBDA l : l.hist # Nothing) IN [i \in DOMAIN lines |-> lines[i].hist]

Metrics(out) ==
    LET cpu  == Values(out, {"cpu", "iterations"})
        hist == Histories(out)
    IN  [cpuSum |-> FoldSeq(+, 0, cpu), cpuLen |-> Len(cpu), cpuMin |-> Min(Range(cpu) \cup (IF cpu = <<>> THEN {0} ELSE {})),
         history |-> hist,
         flushed |-> Len(hist) > 10 /\ \E i \in 2 .. Len(hist) : hist[i] < hist[i - 1] - 5]

\* The average of the throughput, as baseline and chaos runs are compared by it.
Throughput(m) == IF m.cpuLen = 0 THEN 0 ELSE m.cpuSum \div m.cpuLen

FailureMode(r) ==
    CASE r.rc = 0 -> "none"
      [] r.rc # 0 /\ (r.oom \/ r.rc = 137) -> "memory"
      [] r.rc = 139 -> "segfault"
      [] r.rc = 134 -> "abort"
      [] r.rc = 136 -> "arithmetic"
      [] r.rc \notin {0, 134, 136, 137, 139} /\ ~r.oom /\ (r.timed \/ r.rc = 124) -> "time_limit"
      [] OTHER -> "exit_code"

StderrNote(r) ==
    CASE FailureMode(r) = "memory" -> "killed"
      [] FailureMode(r) = "segfault" -> "uncatchable"
      [] OTHER -> IF r.err THEN "good" ELSE "missing"

LeakSigns(r) ==
    IF r.rc \in {134, 136, 137, 139} \/ r.oom \/ r.rss = 0 THEN {}
    ELSE {"check"} \cup (IF r.wall \in 1 .. 2999 THEN {"early_exit"} ELSE {})

LeakNotes(r) == {<<"leak", sign>> : sign \in LeakSigns(r)}

FailureNotes(r) ==
    IF r.rc = 0 THEN {}
    ELSE {<<"failure", FailureMode(r)>>, <<"stderr", StderrNote(r)>>} \cup LeakNotes(r)

OtherNotes(m, r) ==
    LET history == m.history
    IN  (IF r.err /\ r.rc = 0 THEN {<<"good", "stderr">>} ELSE {})
        \cup (IF r.oom THEN {<<"fail", "memory">>} ELSE {})
        \cup (IF r.timed THEN {<<"fail", "time_limit">>} ELSE {})
        \cup (IF m.cpuSum > 0 /\ 2 * m.cpuMin * m.cpuLen < m.cpuSum THEN {<<"warn", "throughput">>} ELSE {})
        \cup (IF r.avg \in 1 .. 19 /\ r.profile \in {"cpu_half", "cpu_tenth"} THEN {<<"warn", "cpu">>} ELSE {})
        \cup (IF m.flushed THEN {<<"warn", "flush">>} ELSE {})
        \cup (IF Len(history) > 20 /\ ~m.flushed /\ Last(history) > 2 * Head(history) THEN {<<"warn", "buffer">>} ELSE {})
        \cup (IF r.pids > 20 THEN {<<"warn", "threads">>} ELSE {})

Feedback(m, r) ==
    LET notes == OtherNotes(m, r) \cup FailureNotes(r)
    IN  IF notes = {} THEN {<<"success", "handled_well">>} ELSE notes

(***************************************************************************)
(* compare_to_baseline.  A change is a percentage rounded to tenths, here  *)
(* counted in tenths; without a baseline to divide by there is none, which *)
(* every comparison takes like a change of zero.                           *)
(***************************************************************************)
Change(baseline, chaos) ==
    IF baseline = 0 THEN 0 ELSE ((chaos - baseline) * 2000 + baseline) \div (2 * baseline)

HasBaseline(results) == \E i \in DOMAIN results : results[i].profile = "none"

BaselineOf(results) == results[Min({i \in DOMAIN results : results[i].profile = "none"})]

Failed(r) == r.rc # 0 \/ r.oom \/ r.timed

Others(results) == {r \in Range(results) : r.profile # "none"}

Comparison(results, r) ==
    [profile |-> r.profile, rc |-> r.rc, oom |-> r.oom, timed |-> r.timed,
     wallPct |-> Change(BaselineOf(results).wall, r.wall),
     rssPct |-> Change(BaselineOf(results).rss, r.rss),
     failed |-> Failed(r), baselineFailed |-> Failed(BaselineOf(results))]

\* Without a baseline the comparison raises, and the report goes without.
WallPct(results, r) == IF HasBaseline(results) THEN Comparison(results, r).wallPct ELSE 0

(***************************************************************************)
(* The report: a status for each profile, and the verdict.                 *)
(***************************************************************************)
Status(results, r) ==
    LET slower == WallPct(results, r)
    IN  IF r.oom THEN "out_of_memory" ELSE IF r.timed THEN "timed_out" ELSE IF r.rc # 0 THEN "exit_code"
        ELSE IF slower > 2000 THEN "too_slow" ELSE IF slower > 300 THEN "warn" ELSE "pass"

\* Mutant: the exit code does not count.
VerdictNoExit(results) ==
    LET Failing(r) == r.oom \/ r.timed \/ WallPct(results, r) > 2000
        Warned(r)  == ~Failing(r) /\ WallPct(results, r) > 300
    IN  [failures |-> {r.profile : r \in {s \in Others(results) : Failing(s)}},
         warnings |-> {r.profile : r \in {s \in Others(results) : Warned(s)}},
         passing  |-> {r.profile : r \in {s \in Others(results) : ~Failing(s) /\ ~Warned(s)}}]

Verdict(results) ==
    LET Failing(r) == Failed(r) \/ WallPct(results, r) > 2000
        Warned(r)  == ~Failing(r) /\ WallPct(results, r) > 300
    IN  [failures |-> {r.profile : r \in {s \in Others(results) : Failing(s)}},
         warnings |-> {r.profile : r \in {s \in Others(results) : Warned(s)}},
         passing  |-> {r.profile : r \in {s \in Others(results) : ~Failing(s) /\ ~Warned(s)}}]

NeedsFeedback(results) == Others(results)

\* Output that does not parse leaves no metrics, which the feedback then misses.
FeedbackRaises(results) == \E r \in NeedsFeedback(results) : ~Parses(r.out)

NoReport == [written |-> FALSE, status |-> {}, verdict |-> [failures |-> {}, warnings |-> {}, passing |-> {}], feedback |-> {}]

Report(results) ==
    [written |-> TRUE,
     status |-> {<<r.profile, Status(results, r)>> : r \in Others(results)},
     verdict |-> Verdict(results),
     feedback |-> {<<r.profile, Feedback(Metrics(r.out), r)>> : r \in Others(results)}]

(***************************************************************************)
(* analyze.py on the saved results, which needs a baseline.                *)
(***************************************************************************)
Interpretation(c) ==
    LET slower == c.wallPct
        notes  == (IF c.rc # 0 THEN {"exit_code"} ELSE {})
                  \cup (IF slower > 2000 THEN {"too_slow"} ELSE IF slower > 500 THEN {"slow"}
                        ELSE IF slower > 200 THEN {"slower"} ELSE {})
                  \cup (IF c.rssPct > 500 THEN {"memory"} ELSE {})
    IN  IF c.oom THEN {"out_of_memory"} ELSE IF c.timed THEN {"timed_out"}
        ELSE IF notes = {} THEN {"pass"} ELSE notes

Summary(results) ==
    LET all     == {Comparison(results, r) : r \in Others(results)}
        failing == {c \in all : c.failed \/ c.wallPct > 2000}
        warned  == {c \in all : ~c.failed /\ c.wallPct \in 201 .. 2000}
    IN  [failures |-> {c.profile : c \in failing}, warnings |-> {c.profile : c \in warned},
         passing |-> {c.profile : c \in all \ (failing \cup warned)},
         notes |-> {<<c.profile, Interpretation(c)>> : c \in all}]
=============================================================================
