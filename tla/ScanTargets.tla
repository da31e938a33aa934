---------------------------- MODULE ScanTargets ----------------------------
(***************************************************************************)
(* What a scan looks at: the commands of security_toolkit/src/cli.py, the  *)
(* profile core/profiler.py makes of a target, and which scanners can      *)
(* handle it.                                                              *)
(***************************************************************************)
EXTENDS Integers, Sequences, FiniteSets

CONSTANTS Suffix,    \* file name -> the pattern of its suffix, "*.py"
          Hidden     \* names that start with a dot

None == "none"       \* an argument that was not given

(***************************************************************************)
(* The files of a directory: paths, and which of the directories cannot    *)
(* be read.  Both walks stop four directories down and at hidden ones.     *)
(***************************************************************************)
MaxDepth == 3

Indicators ==
    [python      |-> {"pyproject.toml", "setup.py", "setup.cfg", "Pipfile", "Pipfile.lock", "requirements.txt",
                      "poetry.lock", "*.py"},
     javascript  |-> {"package.json", "package-lock.json", "yarn.lock", "*.js", "*.jsx", "*.mjs", "*.cjs"},
     typescript  |-> {"tsconfig.json", "*.ts", "*.tsx"},
     go          |-> {"go.mod", "go.sum", "*.go"},
     rust        |-> {"Cargo.toml", "Cargo.lock", "*.rs"},
     c           |-> {"*.c", "*.h", "Makefile", "CMakeLists.txt"},
     cpp         |-> {"*.cpp", "*.cc", "*.cxx", "*.hpp"},
     java        |-> {"pom.xml", "build.gradle", "build.gradle.kts", "*.java"},
     ruby        |-> {"Gemfile", "Gemfile.lock", "*.rb"},
     php         |-> {"composer.json", "composer.lock", "*.php"},
     csharp      |-> {"*.csproj", "*.sln", "*.cs"},
     kotlin      |-> {"*.kt", "*.kts"},
     scala       |-> {"*.scala", "build.sbt"},
     swift       |-> {"*.swift", "Package.swift"},
     bash        |-> {"*.sh", "*.bash"},
     dart        |-> {"*.dart", "pubspec.yaml"},
     elixir      |-> {"*.ex", "*.exs", "mix.exs"},
     haskell     |-> {"*.hs", "stack.yaml", "*.cabal"},
     lua         |-> {"*.lua"},
     perl        |-> {"*.pl", "*.pm"},
     r           |-> {"*.R", "*.r", "DESCRIPTION"},
     objective_c |-> {"*.m", "*.mm"},
     powershell  |-> {"*.ps1", "*.psm1"},
     groovy      |-> {"*.groovy", "Jenkinsfile"},
     terraform   |-> {"*.tf", "*.tfvars"}]

Seen(dir) ==
    {path \in dir.paths :
        /\ Len(path) <= MaxDepth + 1
        /\ \A k \in 0 .. Len(path) - 1 : SubSeq(path, 1, k) \notin dir.locked
        /\ \A k \in 1 .. Len(path) - 1 : path[k] \notin Hidden}

Name(path) == path[Len(path)]

DetectLanguages(dir) ==
    {l \in DOMAIN Indicators : \E path \in Seen(dir) : {Name(path), Suffix[Name(path)]} \cap Indicators[l] # {}}

HasFile(dir, names) == \E path \in Seen(dir) : Name(path) \in names

DockerFiles == {"Dockerfile", "dockerfile", "Containerfile"}
K8sFiles == {"deployment.yaml", "deployment.yml", "service.yaml", "service.yml", "kustomization.yaml",
             "kustomization.yml", "Chart.yaml"}
TerraformFiles == {"main.tf", "variables.tf", "terraform.tf"}

(***************************************************************************)
(* A profile, or None when the combination or the directory will not do.   *)
(* The ports of an image are those docker tells, none when it does not.    *)
(***************************************************************************)
SourceProfile(dir) ==
    [mode |-> "source", target |-> TRUE, image |-> None, url |-> None, ports |-> {},
     languages |-> DetectLanguages(dir), git |-> <<".git">> \in dir.paths,
     iac |-> HasFile(dir, DockerFiles) \/ HasFile(dir, K8sFiles) \/ HasFile(dir, TerraformFiles)]

RuntimeProfile(image, url, ports) ==
    [mode |-> "runtime", target |-> FALSE, image |-> image, url |-> url, ports |-> ports,
     languages |-> {}, git |-> FALSE, iac |-> FALSE]

PortFromUrl(url) == IF url.port # 0 THEN url.port ELSE IF url.scheme = "https" THEN 443 ELSE 80

ProfileTarget(w, target, image, pid, url) ==
    LET given == {a \in {<<"target", target>>, <<"image", image>>, <<"pid", pid>>, <<"url", url>>} : a[2] # None}
        args  == {a[1] : a \in given}
    IN  CASE args = {"target"} -> IF w.dir.exists THEN {SourceProfile(w.dir)} ELSE {}
          [] args \in {{"image"}, {"image", "url"}} -> {RuntimeProfile(image, url, ports) : ports \in {w.ports, {}}}
          [] args = {"url"} -> {RuntimeProfile(None, url, {PortFromUrl(w.address)})}
          [] args = {"pid"} -> {RuntimeProfile(None, None, {})}
          [] OTHER -> {}

(***************************************************************************)
(* The commands.  "inspect" and "full" want something to look at; "full"   *)
(* looks at the source first.                                              *)
(***************************************************************************)
Refused(c) ==
    \/ c.cmd = "inspect" /\ c.image = None /\ c.pid \in {None, "0"} /\ c.url = None
    \/ c.cmd = "full" /\ c.image = None /\ c.url = None

Stages(c) == IF c.cmd = "full" THEN <<"source", "runtime">> ELSE IF c.cmd = "scan" THEN <<"source">> ELSE <<"runtime">>

StageProfile(c, w, stage) ==
    IF stage = "source" THEN ProfileTarget(w, c.target, None, None, None)
    ELSE ProfileTarget(w, None, c.image, IF c.cmd = "full" THEN None ELSE c.pid, c.url)

(***************************************************************************)
(* The scanners, in the order they register.                               *)
(***************************************************************************)
Registry == <<"memory-forensics", "resource-monitor", "container-scanner", "semgrep", "trivy-sca", "iac-config",
              "gitleaks">>

Mode(p) == IF p \in {"memory-forensics", "resource-monitor", "container-scanner"} THEN "runtime" ELSE "source"

WebPorts == {80, 443, 8080, 8443, 3000, 5000, 8000, 9000}

\* Mutant: the scanners that need an image do not ask for one.
CanHandleAny(p, prof, w) ==
    CASE p \in {"trivy-sca", "container-scanner"} -> "trivy" \in w.tools
      [] p = "iac-config" -> "trivy" \in w.tools /\ prof.iac
      [] p \in {"semgrep", "gitleaks"} -> p \in w.tools
      [] p = "memory-forensics" -> p \in w.docker
      [] p = "resource-monitor" -> p \in w.docker \/ prof.url # None

\* w.docker: the scanners whose "docker info" is answered.
CanHandle(p, prof, w) ==
    CASE p = "trivy-sca" -> "trivy" \in w.tools
      [] p = "iac-config" -> "trivy" \in w.tools /\ prof.iac
      [] p \in {"semgrep", "gitleaks"} -> p \in w.tools
      [] p = "container-scanner" -> prof.image # None /\ "trivy" \in w.tools
      [] p = "memory-forensics" -> prof.image # None /\ p \in w.docker
      [] p = "resource-monitor" ->
            /\ prof.image # None \/ prof.url # None
            /\ prof.image # None => p \in w.docker
            /\ prof.url # None \/ prof.ports \cap WebPorts # {}

RegistersBefore(p, q) == \E i, j \in DOMAIN Registry : i < j /\ Registry[i] = p /\ Registry[j] = q

SelectPlugins(prof, w) ==
    {p \in {Registry[i] : i \in DOMAIN Registry} : Mode(p) = prof.mode /\ CanHandle(p, prof, w)}

(***************************************************************************)
(* The rulesets of semgrep.                                                *)
(***************************************************************************)
MandatoryRulesets == {"security-audit", "secrets", "owasp-top-ten", "ci", "supply-chain"}

LanguageRulesets == {"python", "javascript", "typescript", "go", "rust", "java", "ruby", "php", "c", "csharp",
                     "kotlin", "scala", "swift", "bash", "elixir"}

BuildRulesets(languages) == MandatoryRulesets \cup (languages \cap LanguageRulesets)

(***************************************************************************)
(* Where the reports go: a path is [dir, stem, suffix]; one without a      *)
(* suffix gets one, a directory gets report.json.  The Markdown report     *)
(* goes beside it, under the same stem.                                    *)
(***************************************************************************)
Path(dir, stem, suffix) == [dir |-> dir, stem |-> stem, suffix |-> suffix]

Inside(p) == p.dir \o <<p.stem \o p.suffix>>

JsonPath(out, dirs) ==
    IF Inside(out) \in dirs THEN Path(Inside(out), "report", ".json")
    ELSE IF out.suffix = "" THEN [out EXCEPT !.suffix = ".json"]
    ELSE out

MdPath(json) == [json EXCEPT !.suffix = ".md"]

\* What the two writers still do with the path they are given.
Written(p, dirs, name, suffix) == IF Inside(p) \in dirs THEN Path(Inside(p), name, suffix) ELSE p
=============================================================================
