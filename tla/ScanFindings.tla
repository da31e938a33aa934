---------------------------- MODULE ScanFindings ----------------------------
(***************************************************************************)
(* The findings of a security scan (security_toolkit/src/core/models.py,   *)
(* the parsers of scanners/): what a scanner makes of its tool's output,   *)
(* and what a report makes of the findings of all scanners.                *)
(***************************************************************************)
EXTENDS Integers, Sequences, FiniteSets, SequencesExt

CONSTANT Endings    \* file -> the endings of its directories' names that matter

\* A value a tool may leave out is a sequence of at most one.
Get(v, default) == IF v = <<>> THEN default ELSE Head(v)

(***************************************************************************)
(* The elements of a sequence at some of its places, in their order: what  *)
(* SelectSeq makes, without its recursion.                                 *)
(***************************************************************************)
Rank(S, i) == Cardinality({j \in S : j <= i})

Nth(S, k) == CHOOSE i \in S : Rank(S, i) = k

Those(s, S) == [k \in 1 .. Cardinality(S) |-> s[Nth(S, k)]]

(***************************************************************************)
(* Severities, and the labels the tools use for them.                      *)
(***************************************************************************)
INFO     == 1
LOW      == 2
MEDIUM   == 3
HIGH     == 4
CRITICAL == 5

Normalize(label) ==
    CASE label \in {"unknown", "negligible", "info", "informative"} -> INFO
      [] label = "low" -> LOW
      [] label \in {"high", "error", "important"} -> HIGH
      [] label = "critical" -> CRITICAL
      [] OTHER -> MEDIUM    \* also "medium", "warning" and "moderate"

\* The tool and the description tell no two findings apart here; "rule" is the dotted id.
Finding(rule, file, line, title, sev, category) ==
    [rule |-> rule, file |-> file, line |-> line, title |-> title, sev |-> sev, category |-> category]

Fingerprint(f) == <<f.rule, f.file, f.line, f.title>>

(***************************************************************************)
(* Semgrep: a rule that fires often in the program's own tools is advice.  *)
(***************************************************************************)
Noisy == "dynamic-urllib-use-detected"

ConsolidationThreshold == 3

SafeEndings == {"plugins", "test", "tests", "util", "utils", "tool", "tools", "script", "scripts",
                "internal", "healthcheck"}

Safe(f) == Endings[f.file] \cap SafeEndings # {}

Advisory(hits) ==
    Finding(<<"FP-CONSOLIDATED", Noisy>>, hits[1].file, hits[1].line,
            <<"consolidated", Len(hits)>>, INFO, "sast")

ReduceFalsePositives(fs) ==
    LET noisy == {i \in DOMAIN fs : Last(fs[i].rule) = Noisy}
        safe  == {i \in noisy : Safe(fs[i])}
        clean == Those(fs, DOMAIN fs \ noisy)
    IN  IF Cardinality(noisy) < ConsolidationThreshold THEN clean \o Those(fs, noisy)
        ELSE clean \o Those(fs, noisy \ safe) \o IF safe = {} THEN <<>> ELSE <<Advisory(Those(fs, safe))>>

MapSeq(Op(_), s) == [i \in DOMAIN s |-> Op(s[i])]

SemgrepFindings(results) ==
    ReduceFalsePositives(
        MapSeq(LAMBDA r : Finding(Get(r.id, <<"unknown">>), r.path, r.line, <<Get(r.message, "check_id")>>,
                                  Normalize(Get(r.severity, "warning")), "sast"),
               results))

(***************************************************************************)
(* Trivy: vulnerable packages of a directory or an image, and wrong        *)
(* configurations.                                                         *)
(***************************************************************************)
Vulnerabilities(entries) ==
    MapSeq(LAMBDA v : Finding(<<Get(v.id, "UNKNOWN")>>, v.target, 0, <<v.pkg, Get(v.id, "")>>,
                              Normalize(Get(v.severity, "unknown")), "sca"),
           entries)

Misconfigurations(entries) ==
    MapSeq(LAMBDA m : Finding(<<Get(m.id, "UNKNOWN")>>, m.target, Get(m.line, 0), <<Get(m.title, "IaC misconfiguration")>>,
                              Normalize(Get(m.severity, "unknown")), "iac"),
           entries)

(***************************************************************************)
(* Gitleaks: a leak is critical by its rule, or high; one of the history   *)
(* is told from one of the files.                                          *)
(***************************************************************************)
CriticalLeaks == {"aws-access-token", "aws-secret-access-key", "private-key", "rsa-private-key", "github-pat",
                  "github-fine-grained-pat", "github-oauth", "gitlab-pat", "stripe-api-key"}

Leaks(entries) ==
    MapSeq(LAMBDA e : Finding(<<e.rule>>, e.file, e.line,
                              <<IF e.commit THEN "in history" ELSE "in source", e.rule>>,
                              IF e.rule \in CriticalLeaks THEN CRITICAL ELSE HIGH, "secrets"),
           entries)

(***************************************************************************)
(* Memory of a container: every literal that fits a rule once, then the    *)
(* lines of high entropy.                                                  *)
(***************************************************************************)
Once(s) == Those(s, {i \in DOMAIN s : \A j \in 1 .. i - 1 : s[j] # s[i]})

Secrets(image, matches, entropic) ==
    MapSeq(LAMBDA m : Finding(<<m.rule>>, <<"memory", image>>, 0, <<m.rule>>, CRITICAL, "memory"), Once(matches))
    \o MapSeq(LAMBDA l : Finding(<<"MEM-ENTROPY-001">>, <<"memory", image>>, 0, <<"high entropy">>, HIGH, "memory"),
              Once(entropic))

(***************************************************************************)
(* A running service: the memory of its container before and after its     *)
(* leaky pages were asked for (0: not measured), the connections it        *)
(* counts if it has the page, the allocations it accepts.                  *)
(***************************************************************************)
MemoryGrowthThreshold == 50

ConnectionLeak(label, conns) ==
    IF Get(conns, 0) <= 5 THEN <<>>
    ELSE <<Finding(<<"RESLEAK-002">>, <<"runtime", label, "connection-leak">>, 0, <<"connections">>, MEDIUM, "resource-leak")>>

MonitorFindings(image, m) ==
    IF m.initial = 0 \/ ~m.leaks \/ m.final = 0 THEN <<>>
    ELSE (IF (m.final - m.initial) * 100 <= MemoryGrowthThreshold * m.initial THEN <<>>
          ELSE <<Finding(<<"RESLEAK-001">>, <<"runtime", image>>, 0, <<"memory">>, HIGH, "resource-leak")>>)
         \o ConnectionLeak(image, m.conns)

UrlFindings(url, m) ==
    ConnectionLeak(url, m.conns)
    \o IF m.allocs < 5 THEN <<>>
       ELSE <<Finding(<<"RESLEAK-003">>, <<"runtime", url, "allocate">>, 0, <<"allocation">>, MEDIUM, "resource-leak")>>

(***************************************************************************)
(* A report: of findings with one fingerprint the first of the worst       *)
(* stays, where the first of them was; then the worst come first.          *)
(***************************************************************************)
Same(fs, i) == {j \in DOMAIN fs : Fingerprint(fs[j]) = Fingerprint(fs[i])}

FirstWorst(fs, i) ==
    CHOOSE j \in Same(fs, i) :
        \A k \in Same(fs, i) : fs[k].sev < fs[j].sev \/ (fs[k].sev = fs[j].sev /\ j <= k)

Firsts(fs) == {i \in DOMAIN fs : \A j \in Same(fs, i) : i <= j}

\* Mutant: the first finding stays, however bad the others are.
DeduplicateFirst(fs) == Those(fs, Firsts(fs))

Deduplicate(fs) == Those([i \in DOMAIN fs |-> fs[FirstWorst(fs, i)]], Firsts(fs))

Rated(fs, sev) == Those(fs, {i \in DOMAIN fs : fs[i].sev = sev})

SortBySeverity(fs) ==
    Rated(fs, CRITICAL) \o Rated(fs, HIGH) \o Rated(fs, MEDIUM) \o Rated(fs, LOW) \o Rated(fs, INFO)

AnyAtLeast(fs, sev) == \E i \in DOMAIN fs : fs[i].sev >= sev

Verdict(fs) == IF AnyAtLeast(fs, HIGH) THEN "FAIL" ELSE IF fs # <<>> THEN "WARN" ELSE "PASS"

SeverityCounts(fs) == [s \in INFO .. CRITICAL |-> Len(Rated(fs, s))]

FailOn == [critical |-> CRITICAL, high |-> HIGH, medium |-> MEDIUM, low |-> LOW, info |-> INFO]

\* Mutant: only what is worse than the threshold fails the command.
ExitCodeAbove(fs, failOn) == IF AnyAtLeast(fs, FailOn[failOn] + 1) THEN 1 ELSE 0

ExitCode(fs, failOn) == IF AnyAtLeast(fs, FailOn[failOn]) THEN 1 ELSE 0

(***************************************************************************)
(* What the report files say: the verdict, the counts, the findings by     *)
(* category, and which scanners ran, failed or were skipped.               *)
(***************************************************************************)
Category(fs, c) == Those(fs, {i \in DOMAIN fs : fs[i].category = c})

PluginsThat(execution, status) == {p \in DOMAIN execution : execution[p].status = status}

Document(fs, errors, execution) ==
    [verdict  |-> Verdict(fs),
     total    |-> Len(fs),
     counts   |-> SeverityCounts(fs),
     groups   |-> [c \in {f.category : f \in ToSet(fs)} |-> Category(fs, c)],
     executed |-> [p \in PluginsThat(execution, "success") |-> execution[p].count],
     failed   |-> PluginsThat(execution, "failed"),
     skipped  |-> PluginsThat(execution, "skipped"),
     errors   |-> errors]
=============================================================================
