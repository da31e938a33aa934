---------------------------- MODULE MCScanEngine ----------------------------
(***************************************************************************)
(* Small commands of the security toolkit.                                 *)
(***************************************************************************)
EXTENDS ScanEngine

AllPlugins == ToSet(Registry)

App == <<"app.py">>
Latest == <<"latest", "app.py">>
UtilA == <<"utils", "a.py">>
UtilB == <<"utils", "b.py">>

SomeEndings == (App :> {}) @@ (Latest :> {"test"}) @@ (UtilA :> {"utils"}) @@ (UtilB :> {"utils"})

SomeSuffixes == [n \in {"src", "a", "b", "c", ".git", "Dockerfile"} |-> "none"] @@ ("app.py" :> "*.py") @@ ("main.go" :> "*.go")
                @@ ("main.tf" :> "*.tf") @@ ("build.gradle.kts" :> "*.kts")

SomeHidden == {".git"}

Deep == <<"a", "b", "c", "src">>

Tree(paths, locked) == [exists |-> TRUE, paths |-> paths, locked |-> locked]

Small == Tree({<<"app.py">>, <<"src">>, <<"src", "main.tf">>, <<".git">>, <<".git", "main.go">>}, {})
Hard  == Tree({<<"a">>, <<"a", "b">>, <<"a", "b", "c">>, Deep, Deep \o <<"app.py">>, <<"a", "b", "c", "main.go">>,
               <<"src">>, <<"src", "Dockerfile">>, <<"build.gradle.kts">>}, {<<"src">>})
Gone == [exists |-> FALSE, paths |-> {}, locked |-> {}]

AllTools == {"semgrep", "trivy", "gitleaks"}
BothDockers == {"memory-forensics", "resource-monitor"}

World(dir, tools, docker) ==
    [dir |-> dir, tools |-> tools, docker |-> docker, ports |-> {5000}, address |-> [scheme |-> "https", port |-> 0], dirs |-> {}]

Cmd(name, w) ==
    [cmd |-> name, target |-> IF name = "inspect" THEN None ELSE "dir", image |-> None, pid |-> None, url |-> None,
     workers |-> 4, failOn |-> "high", output |-> <<>>, world |-> w]

Out(dir, stem, suffix) == <<Path(dir, stem, suffix)>>

SomeCommands ==
    [sources  |-> [Cmd("scan", World(Small, AllTools, {})) EXCEPT !.workers = 2, !.output = Out(<<>>, "report", ".json")],
     depths   |-> [Cmd("scan", World(Hard, {"semgrep", "trivy"}, {})) EXCEPT !.failOn = "info", !.output = Out(<<>>, "out", "")],
     bare     |-> [Cmd("scan", World(Small, {}, {})) EXCEPT !.output = Out(<<>>, "report", ".md")],
     missing  |-> Cmd("scan", World(Gone, AllTools, {})),
     nobody   |-> [Cmd("scan", World(Small, AllTools, {})) EXCEPT !.workers = 0],
     image    |-> [Cmd("inspect", World(Small, {}, BothDockers)) EXCEPT !.image = "app"],
     alone    |-> [Cmd("inspect", World(Small, {"trivy"}, {"memory-forensics"})) EXCEPT !.image = "app", !.workers = 1,
                       !.failOn = "critical"],
     live     |-> [Cmd("inspect", [World(Small, AllTools, BothDockers) EXCEPT !.dirs = {<<"out">>}])
                       EXCEPT !.url = "live", !.failOn = "medium", !.output = Out(<<>>, "out", "")],
     process  |-> [Cmd("inspect", World(Small, AllTools, BothDockers)) EXCEPT !.pid = "7"],
     zero     |-> [Cmd("inspect", World(Small, AllTools, BothDockers)) EXCEPT !.pid = "0"],
     mixture  |-> [Cmd("inspect", World(Small, AllTools, BothDockers)) EXCEPT !.pid = "7", !.url = "live"],
     both     |-> [Cmd("full", World(Small, {"trivy"}, {})) EXCEPT !.image = "app", !.failOn = "low"],
     served   |-> [Cmd("full", World(Small, {"gitleaks"}, {"resource-monitor"})) EXCEPT !.image = "app", !.url = "live",
                       !.workers = 1],
     whole    |-> [Cmd("full", World(Small, {"gitleaks"}, BothDockers)) EXCEPT !.image = "app", !.workers = 3],
     half     |-> Cmd("full", World(Small, AllTools, BothDockers))]

Hit(path, set) ==
    [id |-> <<<<"python", Noisy>>>>, path |-> path, line |-> 3, message |-> <<>>, severity |-> <<"warning">>, ruleset |-> set]
Sast(path, sev) ==
    [id |-> <<<<"python", "eval">>>>, path |-> path, line |-> 1, message |-> <<"eval">>, severity |-> <<sev>>, ruleset |-> "ci"]

Vuln(id, sev) == [id |-> <<id>>, target |-> <<"requirements.txt">>, pkg |-> "lib", severity |-> sev]

SomeResults ==
    [c \in DOMAIN SomeCommands |->
        [p \in Plugins |->
            CASE p = "semgrep" ->
                    IF c = "depths"
                    THEN {<<Hit(UtilA, "ci"), Hit(UtilB, "ci"), Hit(App, "python")>>, <<Hit(UtilA, "ci"), Hit(App, "golang")>>,
                          <<Hit(UtilA, "ci"), Hit(Latest, "go"), Sast(App, "error"), Hit(App, "ci"), Hit(App, "ci")>>,
                          <<Sast(App, "info"), Sast(App, "warning"), Sast(App, "error")>>}
                    ELSE {<<Sast(App, "info"), Hit(UtilA, "ci"), Hit(App, "ci"), Hit(UtilB, "python")>>}
              [] p = "trivy-sca" -> {<<Vuln("CVE-1", <<"low">>), Vuln("CVE-2", <<>>)>>}
              [] p = "container-scanner" -> {<<Vuln("CVE-1", <<"moderate">>)>>, <<Vuln("CVE-2", <<"unheard">>), Vuln("CVE-3", <<"critical">>)>>}
              [] p = "iac-config" -> {<<[id |-> <<"AVD-1">>, target |-> <<"main.tf">>, title |-> <<>>, line |-> <<4>>, severity |-> <<"high">>]>>}
              [] p = "gitleaks" -> {<<[rule |-> "jwt", file |-> App, line |-> 9, commit |-> TRUE],
                                      [rule |-> "github-pat", file |-> App, line |-> 9, commit |-> FALSE]>>}
              [] p = "memory-forensics" ->
                    {[matches |-> <<[rule |-> "MEM-SECRET-001", text |-> "x"], [rule |-> "MEM-SECRET-001", text |-> "y"],
                                    [rule |-> "MEM-SECRET-001", text |-> "x"]>>, entropic |-> <<"z">>]}
              [] p = "resource-monitor" ->
                    {[initial |-> 10, final |-> 15, leaks |-> TRUE, conns |-> <<6>>, allocs |-> 4],
                     [initial |-> 10, final |-> 16, leaks |-> TRUE, conns |-> <<>>, allocs |-> 5],
                     [initial |-> 0, final |-> 16, leaks |-> TRUE, conns |-> <<9>>, allocs |-> 5]}]]
=============================================================================
