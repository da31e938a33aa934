----------------------------- MODULE Submission -----------------------------
(***************************************************************************)
(* What the chaos runner makes of a submission                             *)
(* (runtime_chaos/submission_runner): the settings of its dirs.txt, how it *)
(* is built, and the language of the image it runs in.                     *)
(*                                                                         *)
(* A submission is [file, config, lines, listing, below]: the file given,  *)
(* or NoFile for a directory, whether it has a dirs.txt, its lines, the    *)
(* files of the directory as listed, and all files below it.  A file is    *)
(* [name, ext]; a line of dirs.txt names a file, the output or arguments.  *)
(***************************************************************************)
EXTENDS Integers, Sequences, FiniteSets, SequencesExt, FiniteSetsExt

NoFile   == [name |-> "", ext |-> ""]
Makefile == [name |-> "Makefile", ext |-> ""]

Languages == <<"python", "c", "cpp">>

Extension(lang) == CASE lang = "python" -> ".py" [] lang = "c" -> ".c" [] lang = "cpp" -> ".cpp"

Compiled(lang) == lang # "python"

Knows(ext) == \E k \in DOMAIN Languages : Extension(Languages[k]) = ext

LanguageOf(ext) == Languages[CHOOSE k \in DOMAIN Languages : Extension(Languages[k]) = ext]

FirstWhere(s, Test(_), default) ==
    LET found == {i \in DOMAIN s : Test(s[i])} IN IF found = {} THEN default ELSE s[Min(found)]

(***************************************************************************)
(* dirs.txt: the first OUTPUT line wherever it stands, then ARGS if it is  *)
(* the last of the others, then a Makefile or a script if it is the first. *)
(***************************************************************************)
IsOutput(line) == line.is = "output"

AsFile(line) == IF line.is = "file" THEN line.file ELSE NoFile

WithoutOutput(lines) ==
    LET found == {i \in DOMAIN lines : IsOutput(lines[i])}
    IN  IF found = {} THEN lines ELSE RemoveAt(lines, Min(found))

IsEntry(file) == file = Makefile \/ file.ext = ".sh"

Settings(lines) ==
    LET rest    == WithoutOutput(lines)
        hasArgs == rest # <<>> /\ Last(rest).is = "args"
        names   == [i \in DOMAIN (IF hasArgs THEN Front(rest) ELSE rest) |-> AsFile(rest[i])]
        hasEntry == names # <<>> /\ IsEntry(Head(names))
    IN  [entry |-> IF hasEntry THEN Head(names) ELSE NoFile,
         files |-> IF hasEntry THEN Tail(names) ELSE names,
         args |-> IF hasArgs THEN Last(rest).args ELSE <<>>,
         output |-> FirstWhere(lines, IsOutput, [file |-> NoFile]).file]

ParseConfig(sub) ==
    IF sub.config THEN Settings(sub.lines)
    ELSE [entry |-> NoFile, files |-> sub.listing, args |-> <<>>, output |-> NoFile]

BuildScript(sub) ==
    LET entry == ParseConfig(sub).entry
    IN  IF entry.ext = ".sh" THEN entry ELSE FirstWhere(sub.listing, LAMBDA f : f.ext = ".sh", NoFile)

BuildSystem(sub) ==
    LET entry == ParseConfig(sub).entry
    IN  IF entry = Makefile THEN "make"
        ELSE IF entry # NoFile THEN "script"
        ELSE IF Makefile \in Range(sub.listing) THEN "make"
        ELSE IF BuildScript(sub) # NoFile THEN "script"
        ELSE "none"

\* The language of the first file that has one; without any the build raises.
DetectLanguage(sub) == LanguageOf(FirstWhere(ParseConfig(sub).files, LAMBDA f : Knows(f.ext), NoFile).ext)

\* The language of most files below; of the last in the table if it is a draw.
InferLanguage(sub) ==
    LET Count(k) == Cardinality({f \in sub.below : f.ext = Extension(Languages[k])})
        most == Max({Count(k) : k \in DOMAIN Languages})
    IN  Languages[Max({k \in DOMAIN Languages : Count(k) = most})]

(***************************************************************************)
(* The containers a build runs, one after the other; the last one's exit   *)
(* code decides.  make also needs an OUTPUT, which is looked at later.     *)
(***************************************************************************)
Single(sub) == sub.file # NoFile

Supported(sub) ==
    IF Single(sub) THEN Knows(sub.file.ext) ELSE BuildSystem(sub) # "none" \/ \E f \in Range(ParseConfig(sub).files) : Knows(f.ext)

BuildContainers(sub) ==
    IF Single(sub) THEN IF Compiled(LanguageOf(sub.file.ext)) THEN <<"compile">> ELSE <<>>
    ELSE CASE BuildSystem(sub) = "make"   -> <<"clean", "make">>
           [] BuildSystem(sub) = "script" -> <<"chmod", "script">>
           [] OTHER -> IF Compiled(DetectLanguage(sub)) THEN <<"compile">> ELSE <<>>

BuildLacksOutput(sub) ==
    ~Single(sub) /\ BuildSystem(sub) = "make" /\ ParseConfig(sub).output = NoFile

\* Afterwards a file's binary is removed, and make cleans up; other builds leave theirs.
CleanContainers(sub) ==
    IF Single(sub) THEN IF Compiled(LanguageOf(sub.file.ext)) THEN <<"rm">> ELSE <<>>
    ELSE IF BuildSystem(sub) = "make" THEN <<"clean">> ELSE <<>>
=============================================================================
