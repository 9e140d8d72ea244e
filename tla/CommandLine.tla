------------------------------ MODULE CommandLine ------------------------------
(***************************************************************************)
(* One run of the gotlai command (src/cmd/gotlai/main.go): the arguments, the *)
(* input, then a diff (module Diff), a dry run or a translation, and the      *)
(* output.  Files may be missing, the translator may fail, a write may be cut *)
(* short, a close may fail and the process may be killed at any point.       *)
(***************************************************************************)
EXTENDS Diff

CONSTANTS
    Commands,       \* argument lists: sequences of flags, each with its value, and "input"
    Languages,      \* [base, sep, region], in lower case
    RTLLanguages    \* the bases that are written from right to left

Flags == {"lang", "output", "json", "version", "dry-run", "diff", "update", "unknown"}

ASSUME CommandAssumption == Commands \subseteq Seq(Flags \cup {"input"})

VARIABLES
    args, source, target,   \* the command, --source and --lang
    stage,      \* "parse", "read", "diff", "dry-run", "key", "translate", "create", "write", "close" or "done"
    result,     \* ProcessedContent: <<>>, <<"input">> or <<the attributes of the page>>
    file,       \* the file --output names: "old", "empty", "whole", "part", less than whole, or
                \* "lost", less than whole since closing it failed
    printed,    \* on standard output: "nothing", "version", "diff", "texts", "part" or "page"
    exit,       \* "running", "ok", "error" or "killed"
    asked       \* history: the hashes of the texts the provider was asked for

setting == <<args, source, target>>
effects == <<result, file, printed, asked>>
runVars == <<vars, setting, stage, effects, exit>>

\* flag.Parse stops at the first argument that is no flag.
Given(f) == \E i \in DOMAIN args : args[i] = f /\ \A j \in 1..i : args[j] # "input"

\* Only an underscore ends the base language.
BaseLang(code) == IF code.sep = "_" THEN <<code.base>> ELSE <<code.base, code.region>>
IsSourceLang == BaseLang(target) = BaseLang(source)

GetDirection(code) == IF BaseLang(code) \in {<<b>> : b \in RTLLanguages} THEN "rtl" ELSE "ltr"
ToHTMLLang(code) == [code EXCEPT !.sep = "-"]

\* setHTMLAttributes
HTMLAttributes == [lang |-> ToHTMLLang(target), dir |-> GetDirection(target)]

\* The old version is the one --diff names; otherwise it has no part in the run.
Start ==
    /\ Init
    /\ args \in Commands
    /\ source \in Languages
    /\ target \in Languages
    /\ Given("diff") \/ old = new
    /\ stage = "parse"
    /\ result = <<>>
    /\ file = "old"
    /\ printed = "nothing"
    /\ exit = "running"
    /\ asked = {}

-----------------------------------------------------------------------------
GoTo(s) == stage' = s /\ UNCHANGED exit
Exit(status) == stage' = "done" /\ exit' = status
Error == Exit("error") /\ UNCHANGED <<vars, setting, effects>>

Parse ==
    /\ stage = "parse"
    /\ \/ Given("unknown") /\ Error
       \/ /\ ~Given("unknown")
          /\ Given("version")
          /\ printed' = "version"
          /\ Exit("ok")
          /\ UNCHANGED <<vars, setting, result, file, asked>>
       \/ ~Given("unknown") /\ ~Given("version") /\ ~Given("lang") /\ Error
       \/ /\ ~Given("unknown") /\ ~Given("version") /\ Given("lang")
          /\ GoTo("read")
          /\ UNCHANGED <<vars, setting, effects>>

\* The input, from a file or standard input; --diff comes before --dry-run.
ModeOfUpdate == IF Given("diff") /\ ~Given("update") THEN "diff" ELSE IF Given("dry-run") THEN "dry-run" ELSE "key"
Mode == IF Given("diff") THEN "diff" ELSE IF Given("dry-run") THEN "dry-run" ELSE "key"

Read ==
    /\ stage = "read"
    /\ \/ Error
       \/ GoTo(Mode) /\ UNCHANGED <<vars, setting, effects>>

\* A report: with --json an error of the writer is returned, else it is ignored.
Report(what) ==
    /\ \/ printed' = what /\ Exit("ok")
       \/ printed' = "part" /\ Exit(IF Given("json") THEN "error" ELSE "ok")
    /\ UNCHANGED <<vars, setting, result, file, asked>>

\* runDiff: the previous version may be unreadable.
ReadPrevious == stage = "diff" /\ pc = "diff" /\ Error
Compare == stage = "diff" /\ Next /\ UNCHANGED <<setting, stage, effects, exit>>
PrintDiff == stage = "diff" /\ pc = "done" /\ Report("diff")

DryRun == stage = "dry-run" /\ Report("texts")

Key ==
    /\ stage = "key"
    /\ \/ Error
       \/ GoTo("translate") /\ UNCHANGED <<vars, setting, effects>>

\* ProcessHTML; the cache is new and holds nothing.
Translate ==
    /\ stage = "translate"
    /\ \/ /\ IsSourceLang \/ new = <<>>
          /\ result' = <<"input">>
          /\ GoTo("create")
          /\ UNCHANGED asked
       \/ /\ ~IsSourceLang /\ new # <<>>
          /\ asked' = {new[i].hash : i \in DOMAIN new}
          /\ \/ result' = <<HTMLAttributes>> /\ GoTo("create")
             \/ UNCHANGED result /\ Exit("error")
    /\ UNCHANGED <<vars, setting, file, printed>>

\* os.Create empties the file.
Create ==
    /\ stage = "create"
    /\ \/ Given("output") /\ Error
       \/ /\ GoTo("write")
          /\ file' = IF Given("output") THEN "empty" ELSE file
          /\ UNCHANGED <<vars, setting, result, printed, asked>>

Write ==
    /\ stage = "write"
    /\ GoTo("close")
    /\ \E written \in {"part", "whole"} :
          IF Given("output") THEN file' = written /\ UNCHANGED printed
          ELSE printed' = (IF written = "whole" THEN "page" ELSE "part") /\ UNCHANGED file
    /\ UNCHANGED <<vars, setting, result, asked>>

\* What run returns after the write.
WriteErrorIgnored(written) == Exit("ok")
WriteResult(written) == Exit(IF Given("json") /\ written = "part" THEN "error" ELSE "ok")

\* The deferred f.Close() may fail, and its error is dropped: what it should have stored is lost.
Close ==
    /\ stage = "close"
    /\ WriteResult(IF Given("output") THEN file ELSE printed)
    /\ file' \in {file} \cup (IF file = "whole" THEN {"lost"} ELSE {})
    /\ UNCHANGED <<vars, setting, result, printed, asked>>

Kill ==
    /\ stage # "done"
    /\ Exit("killed")
    /\ file' \in {file} \cup (IF stage \in {"write", "close"} /\ Given("output") THEN {"part"} ELSE {})
    /\ UNCHANGED <<vars, setting, result, printed, asked>>

RunNext ==
    \/ Parse \/ Read \/ ReadPrevious \/ Compare \/ PrintDiff \/ DryRun \/ Key
    \/ Translate \/ Create \/ Write \/ Close \/ Kill

RunSpec == Start /\ [][RunNext]_runVars

-----------------------------------------------------------------------------
(* What is in the output file (main.go:164-185): a run that fails before it has  *)
(* a page leaves the file as it was.  From then on the old content is lost: the  *)
(* file holds the page, or a part of it after a kill, a failure or even a         *)
(* success: without --json the result of Fprint (:185) is ignored, and with it or *)
(* not the one of the deferred Close (:177).  So of a run with --json that says it *)
(* was successful the page is whole, or was until the file was closed.             *)
OutputIsHonest ==
    stage = "done" =>
        /\ result = <<>> => file = "old" /\ printed # "page"
        /\ file = "empty" => exit = "killed"
        /\ file = "part" => exit = "killed" \/ exit = (IF Given("json") THEN "error" ELSE "ok")
        /\ file = "lost" => exit = "ok"
        /\ exit = "ok" /\ result # <<>> /\ Given("json") =>
              IF Given("output") THEN file \in {"whole", "lost"} ELSE printed = "page"
        /\ ~Given("output") => file = "old"

(* Nothing is paid for in vain (main.go:105-112, README.md "without calling the    *)
(* API"): with --diff, even with --update, with --dry-run, however the flags are    *)
(* mixed, the provider is asked nothing and the file of --output stays as it is;    *)
(* nor is it asked for a variant of the source language (translator.go:125), if     *)
(* the codes are written with an underscore.  But only flags before the input count. *)
NothingAskedInVain ==
    /\ (\E f \in {"diff", "dry-run", "version"} : Given(f)) =>
          asked = {} /\ file = "old" /\ result = <<>>
    /\ asked # {} /\ source.sep = "_" /\ target.sep = "_" => source.base # target.base
    /\ asked # {} => source # target

(* DiffContentWithContext, as runDiff (main.go:270) uses it, accounts for every    *)
(* text once: of the old version among the unchanged, removed or modified nodes,  *)
(* and of the new one in NeedsTranslation if the old one had it not, however the  *)
(* maps were ordered and the nodes paired.                                        *)
DiffIsExact == OldIsAccountedFor /\ NeedsExactlyTheNew
=============================================================================
