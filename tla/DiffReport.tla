--------------------------------- MODULE DiffReport ---------------------------------
(***************************************************************************)
(* The evaluation of a pull request, scripts/evaluate_arena.py: a diff is  *)
(* parsed line by line, the changes are given risk signals, a benchmark    *)
(* server and a judging model are asked, and a strict run fails on the     *)
(* result.  A step is one line, or the report.                             *)
(*                                                                         *)
(* A line of a diff is its head and what the parser takes from the rest.   *)
(* The heads of the lines of a hunk are those of the text as well: the     *)
(* removed text "-- x" is the line "--- x".  What git writes and what the  *)
(* parser reads differ in two ways: git quotes a path with characters that *)
(* are not plain, and str.splitlines() ends a line at more characters than *)
(* git does.                                                               *)
(***************************************************************************)
EXTENDS Naturals, Sequences, FiniteSets, SequencesExt

CONSTANTS
  MaxCaptured, \* MAX_CAPTURED_ADDED_LINES
  LargeDiff,   \* LARGE_DIFF_LINES
  Diffs        \* pull requests: sequences of the changes of their files

(* The first directory of a path, "none" of a file at the top.             *)
CodeRoots == {"nimna", "security", "scripts"}
Tops == CodeRoots \cup {".github", "tests", "skills", "docs", "k8s", "infra", "other", "none"}

(* What its file name is, or looks like.                                   *)
FileNames ==
  {"test_*", "conftest.py", "*.md", "Dockerfile", "*.toml", "*.yml", ".gitignore", "*.py", ".env", "other", "none"}

(* A path is its first directory and the kind of its file name; how git    *)
(* writes it, as it is or in quotes and with escapes; and whether it has   *)
(* what the header of a file is cut at (a blank if it is quoted, " b/" if  *)
(* it is not), with the first directory of what is left behind the cut.    *)
DiffPath == [top : Tops, name : FileNames, form : {"plain", "quoted"}, blank : BOOLEAN, beyond : Tops]

NoPath == [top |-> "none", name |-> "none", form |-> "plain", blank |-> FALSE, beyond |-> "none"]

(* How a line may begin; " " is any other beginning. *)
Heads ==
  {"diff --git", "new file mode", "deleted file mode", "rename from", "rename to", "index", "Binary files",
   "---", "+++", "@@", "+", "-", "\\", " "}

(* Texts: a pattern that is always reported, an assignment that is, and    *)
(* one whose value is a placeholder; what looks like a header behind its   *)
(* mark; any other; and none.                                              *)
Texts == {"token", "assignment", "placeholder", "++ x", "-- x", "x", "none"}

Lines == [head : Heads, path : DiffPath, no : Nat, text : Texts]

(* A line of a hunk as git knows it: added, removed, kept, or the remark   *)
(* that the file has no newline at its end.  If its text has another line  *)
(* break, such as a form feed, more is what the parser takes for lines     *)
(* after it.                                                               *)
Edits == [op : {"add", "del", "kept", "remark"}, text : Texts, more : Seq(Lines)]

(* A change of a file, as git knows it: the path it had is none if it is   *)
(* new; what is deleted or binary has no lines that are added or changed.  *)
(* The header of a hunk quotes a line of the file.                         *)
FileDiff ==
  [path : DiffPath \ {NoPath}, old : DiffPath, status : {"added", "deleted", "modified", "renamed"}, binary : BOOLEAN,
   hunks : Seq([no : Nat, more : Seq(Lines), body : Seq(Edits)])]

IsChange(c) ==
  /\ c \in FileDiff
  /\ c.old = NoPath <=> c.status = "added"
  /\ c.status \in {"modified", "deleted"} => c.old = c.path
  /\ c.binary => c.hunks = <<>>
  /\ c.status = "deleted" =>
       \A i \in DOMAIN c.hunks : \A k \in DOMAIN c.hunks[i].body : c.hunks[i].body[k].op \in {"del", "remark"}

ASSUME ReportAssumption ==
  /\ MaxCaptured \in Nat /\ LargeDiff \in Nat
  /\ \A d \in Diffs : d \in Seq(FileDiff) /\ \A i \in DOMAIN d : IsChange(d[i])

VARIABLES
  at,       \* "start", "reading" or "done"
  diff,     \* the pull request
  rest,     \* the lines that were not read yet
  parser,   \* the variables of parse_unified_diff()
  report    \* with what the program was configured with and was answered

reportVars == <<at, diff, rest, parser, report>>

(***************************************************************************)
(* Parsing                                                                 *)
(***************************************************************************)
(* A change of one file; added holds the added lines that were captured,   *)
(* with their numbers in the new file.                                     *)
FileChange(p) == [path |-> p, old |-> NoPath, status |-> "modified", plus |-> 0, minus |-> 0,
              binary |-> FALSE, added |-> <<>>]

(* The parser before the first line. *)
FirstLine == [files |-> <<>>, hunk |-> FALSE, line |-> 0, captured |-> 0]

(* _clean_path(): the quotes go, the escapes stay.  No name of a kind that *)
(* matters has characters that are escaped.                                *)
Unquoted(p) == IF p.form = "quoted" THEN [p EXCEPT !.form = "escaped"] ELSE p

(* What a quote behind it makes of a file name. *)
QuoteBehind(name) == IF name = "test_*" THEN name ELSE "other"

(* The path of a rename is only stripped of blanks: its quotes stay, the   *)
(* first at its first directory or, if it has none, at the file name.      *)
Stripped(p) ==
  IF p.form = "quoted"
    THEN [p EXCEPT !.form = "in quotes",
                   !.top = IF @ = "none" THEN "none" ELSE "other",
                   !.name = IF p.top = "none" THEN "other" ELSE QuoteBehind(@)]
    ELSE p

(* _path_from_git_header(): after the last " b/", or after the first blank *)
(* if the paths are quoted.                                                *)
FromHeader(p) ==
  IF ~p.blank THEN Unquoted(p)
  ELSE [p EXCEPT !.form = "cut", !.top = p.beyond,
                 !.name = IF p.form = "quoted" THEN QuoteBehind(@) ELSE @]

(* The next file of the diff. *)
Opened(s, p) == [s EXCEPT !.files = Append(@, FileChange(p)), !.hunk = FALSE]

(* A header line of the file at hand; a line of any other kind says nothing. *)
Header(c, l) ==
  CASE l.head = "new file mode"     -> [c EXCEPT !.status = "added"]
    [] l.head = "deleted file mode" -> [c EXCEPT !.status = "deleted"]
    [] l.head = "rename from"       -> [c EXCEPT !.old = Stripped(l.path), !.status = "renamed"]
    [] l.head = "rename to"         -> [c EXCEPT !.path = Stripped(l.path), !.status = "renamed"]
    [] l.head = "Binary files"      -> [c EXCEPT !.binary = TRUE]
    [] l.head = "---" /\ l.path = NoPath -> [c EXCEPT !.status = "added"]
    [] l.head = "---" /\ l.path # NoPath /\ c.old = NoPath /\ c.status # "renamed"
                                    -> [c EXCEPT !.old = Unquoted(l.path)]
    [] l.head = "+++" /\ l.path = NoPath -> [c EXCEPT !.status = "deleted"]
    [] l.head = "+++" /\ l.path # NoPath -> [c EXCEPT !.path = Unquoted(l.path)]
    [] OTHER -> c

(* A line of a hunk. *)
Body(s, l) ==
  LET n == Len(s.files) IN
  CASE l.head \in {"+", "+++"} ->
         IF s.captured < MaxCaptured
           THEN [s EXCEPT !.files[n].plus = @ + 1, !.line = @ + 1, !.captured = @ + 1,
                          !.files[n].added = Append(@, [no |-> s.line, text |-> l.text])]
           ELSE [s EXCEPT !.files[n].plus = @ + 1, !.line = @ + 1]
    [] l.head \in {"-", "---"} -> [s EXCEPT !.files[n].minus = @ + 1]
    [] l.head = "\\" -> s
    [] OTHER -> [s EXCEPT !.line = @ + 1]

(* Mutant: headers are looked for in hunks too. *)
ConsumeHeadersAnywhere(s, l) ==
  LET n == Len(s.files) IN
  CASE l.head = "diff --git" -> Opened(s, FromHeader(l.path))
    [] l.head # "diff --git" /\ n = 0 -> s
    [] n > 0 /\ l.head = "@@" -> [s EXCEPT !.hunk = TRUE, !.line = l.no]
    [] n > 0 /\ l.head \in {"---", "+++"} -> [s EXCEPT !.files[n] = Header(@, l)]
    [] OTHER -> IF s.hunk THEN Body(s, l) ELSE [s EXCEPT !.files[n] = Header(@, l)]

(* One round of the loop.  A diff without git's headers opens one file only. *)
Consume(s, l) ==
  LET n == Len(s.files) IN
  CASE l.head = "diff --git" -> Opened(s, FromHeader(l.path))
    [] l.head # "diff --git" /\ n = 0 -> IF l.head = "---" THEN Opened(s, Unquoted(l.path)) ELSE s
    [] n > 0 /\ l.head = "@@" -> [s EXCEPT !.hunk = TRUE, !.line = l.no]
    [] OTHER -> IF s.hunk THEN Body(s, l) ELSE [s EXCEPT !.files[n] = Header(@, l)]

(***************************************************************************)
(* Risk                                                                    *)
(***************************************************************************)
(* The first rule that applies to a path. *)
Category(p) ==
  LET rules == << <<"workflows", p.top = ".github">>,
                  <<"tests", p.top = "tests" \/ p.name \in {"test_*", "conftest.py"}>>,
                  <<"skills", p.top = "skills">>,
                  <<"docs", p.top = "docs" \/ p.name = "*.md">>,
                  <<"infra", p.top \in {"k8s", "infra"} \/ p.name = "Dockerfile">>,
                  <<"config", p.name \in {"*.toml", "*.yml", ".gitignore"}>>,
                  <<"code", p.top \in CodeRoots \/ p.name = "*.py">>,
                  <<"other", TRUE>> >>
  IN rules[SelectInSeq(rules, LAMBDA r : r[2])][1]

Sensitive(p) ==
  p.top \in {".github", "security", "k8s"} \/ (p.top = "none" /\ p.name \in {"Dockerfile", "*.toml"})

(* Files of plain settings; ".env.example" is another name. *)
EnvFile(p) == p.name = ".env"

(* A pattern is always reported, an assignment if its value is no          *)
(* placeholder.                                                            *)
Suspicious == {"token", "assignment"}

(* Mutant: only new files are scanned. *)
SecretsOfNew(files) ==
  {s \in UNION {{i} \X ToSet(files[i].added) : i \in DOMAIN files} :
     files[s[1]].status = "added" /\ s[2].text \in Suspicious}

Secrets(files) ==
  {s \in UNION {{i} \X ToSet(files[i].added) : i \in DOMAIN files} :
     ~files[s[1]].binary /\ files[s[1]].status # "deleted" /\ s[2].text \in Suspicious}

Total(files) == FoldLeft(LAMBDA n, f : n + f.plus + f.minus, 0, files)

Signals(files) ==
  LET some(P(_)) == \E i \in DOMAIN files : P(files[i])
      coded(f)  == Category(f.path) = "code" /\ f.path.top \in CodeRoots /\ ~f.binary
      tested(f) == Category(f.path) = "tests"
      rules == {
        [level |-> "HIGH", code |-> "env-file-tracked",
         raised |-> some(LAMBDA f : EnvFile(f.path) /\ f.status # "deleted")],
        [level |-> "HIGH", code |-> "secret-like-addition", raised |-> Secrets(files) # {}],
        [level |-> "MEDIUM", code |-> "sensitive-path", raised |-> some(LAMBDA f : Sensitive(f.path))],
        [level |-> "MEDIUM", code |-> "code-without-tests", raised |-> some(coded) /\ ~some(tested)],
        [level |-> "MEDIUM", code |-> "tests-deleted",
         raised |-> some(LAMBDA f : tested(f) /\ f.status = "deleted")],
        [level |-> "INFO", code |-> "binary-files", raised |-> some(LAMBDA f : f.binary)],
        [level |-> "INFO", code |-> "large-diff", raised |-> Total(files) > LargeDiff]}
  IN {r \in rules : r.raised}

Level(signals) ==
  CASE \E s \in signals : s.level = "HIGH" -> "HIGH"
    [] \A s \in signals : s.level # "HIGH" ->
         IF \E s \in signals : s.level = "MEDIUM" THEN "MEDIUM" ELSE "LOW"

(***************************************************************************)
(* The two verdicts from outside                                           *)
(***************************************************************************)
(* What becomes of a request: no answer, an answer that is not an object,  *)
(* or the word in its status.                                              *)
Words == {"PASS", "passed", "FAIL", "rejected", "SKIPPED", "maybe", "absent"}
Answers == {"http error", "unreachable", "not JSON", "not an object"} \cup Words

Icons == {"PASS", "FAIL", "SKIPPED", "MOCKED", "ERROR", "UNKNOWN"}

(* The synonyms of PASS and FAIL. *)
Read(word) == CASE word \in {"PASS", "passed"} -> "PASS"
                [] word \in {"FAIL", "rejected"} -> "FAIL"
                [] OTHER -> word

(* A word that has an icon is taken over as it is. *)
Benchmark(config, answer) ==
  CASE config.arena = "mock" -> "MOCKED"
    [] config.arena \in {"offline", "unset"} -> "SKIPPED"
    [] OTHER -> IF answer \notin Words THEN "ERROR"
                ELSE IF Read(answer) \in Icons THEN Read(answer) ELSE "UNKNOWN"

(* The judge's words other than PASS and FAIL are all UNKNOWN. *)
Judge(config, answer) ==
  CASE config.judge = "mock" -> "MOCKED"
    [] config.judge \in {"off", "unset"} -> "SKIPPED"
    [] OTHER -> IF answer \notin Words THEN "ERROR"
                ELSE IF Read(answer) \in {"PASS", "FAIL"} THEN Read(answer) ELSE "UNKNOWN"

(***************************************************************************)
(* What git writes for the changes of a pull request.  A change is its     *)
(* path, the path it had, its status, whether it is binary, and its hunks: *)
(* the number of the first line and the lines.                             *)
(***************************************************************************)
Line(head, path, no, text) == [head |-> head, path |-> path, no |-> no, text |-> text]

Bare(head, path) == Line(head, path, 0, "none")

Flatten(seqs) == FoldLeft(LAMBDA s, t : s \o t, <<>>, seqs)

GitBody(b) ==
  CASE b.op = "add"  -> Line(IF b.text = "++ x" THEN "+++" ELSE "+", NoPath, 0, b.text)
    [] b.op = "del"  -> Line(IF b.text = "-- x" THEN "---" ELSE "-", NoPath, 0, b.text)
    [] b.op = "kept" -> Line(" ", NoPath, 0, b.text)
    [] b.op = "remark" -> Line("\\", NoPath, 0, b.text)

(* The lines that text.splitlines() makes of what git writes. *)
Split(line, more) == <<line>> \o more

GitHunk(h) ==
  Split(Line("@@", NoPath, h.no, "none"), h.more)
    \o Flatten([k \in DOMAIN h.body |-> Split(GitBody(h.body[k]), h.body[k].more)])

GitHunks(c) == Flatten([i \in DOMAIN c.hunks |-> GitHunk(c.hunks[i])])

GitHeader(c) ==
  <<Bare("diff --git", c.path)>>
    \o (CASE c.status = "added"   -> <<Bare("new file mode", NoPath)>>
          [] c.status = "deleted" -> <<Bare("deleted file mode", NoPath)>>
          [] c.status = "renamed" -> <<Bare("rename from", c.old), Bare("rename to", c.path)>>
          [] OTHER -> <<>>)
    \o <<Bare("index", NoPath)>>

GitFile(c) ==
  GitHeader(c)
    \o IF c.binary THEN <<Bare("Binary files", NoPath)>>
       ELSE IF c.hunks = <<>> THEN <<>>
       ELSE <<Bare("---", IF c.status = "added" THEN NoPath ELSE c.old),
              Bare("+++", IF c.status = "deleted" THEN NoPath ELSE c.path)>> \o GitHunks(c)

Git(d) == Flatten([i \in DOMAIN d |-> GitFile(d[i])])

(***************************************************************************)
(* The program                                                             *)
(***************************************************************************)
Configs == [arena : {"mock", "offline", "live"}, judge : {"mock", "off", "live"}, strict : BOOLEAN]

NoReport == [level |-> "none"]

(* build_report(), from the parsed changes on. *)
Report(files, config, arena, judge) ==
  [config |-> config, arena |-> arena, judge |-> judge, level |-> Level(Signals(files)),
   benchmark |-> IF files = <<>> THEN "SKIPPED" ELSE Benchmark(config, arena),
   verdict |-> IF files = <<>> THEN "SKIPPED" ELSE Judge(config, judge)]

(* main(), from the report on. *)
ExitCode ==
  IF report.config.strict
       /\ (report.level = "HIGH" \/ report.benchmark = "FAIL" \/ report.verdict = "FAIL")
    THEN 2 ELSE 0

ReportInit ==
  /\ at = "start" /\ diff = <<>> /\ rest = <<>> /\ parser = FirstLine /\ report = NoReport

ReadDiff ==
  /\ at = "start" /\ at' = "reading"
  /\ \E d \in Diffs : diff' = d /\ rest' = Git(d)
  /\ UNCHANGED <<parser, report>>

ReadLine ==
  /\ at = "reading" /\ rest # <<>>
  /\ parser' = Consume(parser, Head(rest)) /\ rest' = Tail(rest)
  /\ UNCHANGED <<at, diff, report>>

Conclude ==
  /\ at = "reading" /\ rest = <<>> /\ at' = "done"
  /\ \E config \in Configs, arena \in Answers, judge \in Answers :
       report' = Report(parser.files, config, arena, judge)
  /\ UNCHANGED <<diff, rest, parser>>

ReportNext == ReadDiff \/ ReadLine \/ Conclude

ReportSpec == ReportInit /\ [][ReportNext]_reportVars

(***************************************************************************)
(* Properties                                                              *)
(***************************************************************************)
Bodies(c) == Flatten([i \in DOMAIN c.hunks |-> c.hunks[i].body])

Ops(body, op) == Cardinality({k \in DOMAIN body : body[k].op = op})

Times(c, op) == Ops(Bodies(c), op)

(* The added lines of a hunk, numbered in the new file. *)
Additions(no, body) ==
  Flatten([k \in DOMAIN body |->
    IF body[k].op = "add"
      THEN <<[no |-> no + Cardinality({j \in 1 .. k - 1 : body[j].op \in {"add", "kept"}}), text |-> body[k].text]>>
      ELSE <<>>])

AddedIn(c) == Flatten([i \in DOMAIN c.hunks |-> Additions(c.hunks[i].no, c.hunks[i].body)])

AllAdded(d) == Flatten([i \in DOMAIN d |-> AddedIn(d[i])])

Kept(s) == SubSeq(s, 1, IF Len(s) < MaxCaptured THEN Len(s) ELSE MaxCaptured)

(* No text of the change has another line break. *)
Whole(c) ==
  \A i \in DOMAIN c.hunks :
    c.hunks[i].more = <<>> /\ \A k \in DOMAIN c.hunks[i].body : c.hunks[i].body[k].more = <<>>

(* The path has a line of its own, "+++". *)
Headed(c) == c.hunks # <<>> /\ c.status # "deleted"

(* The path is read as it is; and its file name is. *)
Exact(c) == c.path.form = "plain" /\ (c.path.blank => Headed(c) \/ c.status = "renamed")

Legible(c) == c.path.form = "quoted" => Headed(c) \/ (c.status # "renamed" /\ ~c.path.blank)

(* Whatever files a pull request adds, deletes, renames or changes, and    *)
(* though the lines of a hunk may look like headers, parse_unified_diff()  *)
(* gets back the changes that git wrote: their status and counts, the      *)
(* added lines, up to the limit, with their numbers, and the paths.  It    *)
(* does so of texts without other line breaks only.  A path that is quoted *)
(* is got back with its escapes; its file name is lost if it is only in    *)
(* the lines of a rename, or has a blank and is in git's header only.      *)
DiffRecovered ==
  at # "start" /\ rest = <<>> /\ (\A i \in DOMAIN diff : Whole(diff[i])) =>
    LET files == parser.files IN
    /\ Len(files) = Len(diff)
    /\ \A i \in DOMAIN diff :
         /\ files[i].status = diff[i].status /\ files[i].binary = diff[i].binary
         /\ files[i].plus = Times(diff[i], "add") /\ files[i].minus = Times(diff[i], "del")
         /\ Exact(diff[i]) => files[i].path = diff[i].path
         /\ Legible(diff[i]) => files[i].path.name = diff[i].path.name
    /\ Flatten([i \in DOMAIN files |-> files[i].added]) = Kept(AllAdded(diff))

(* A server that was asked with a change, and its word. *)
Said(mode, answer, words) == diff # <<>> /\ mode = "live" /\ answer \in words

(* A strict run fails exactly when the pull request leaves a plain .env    *)
(* file whose name is read, has something like a secret among the added    *)
(* lines that were captured, or a server that was asked says FAIL, if no   *)
(* text has another line break; and no PASS is reported that a server did  *)
(* not answer, whatever the texts.                                         *)
StrictIsHonest ==
  at = "done" =>
    LET added == Kept(AllAdded(diff))
        bad == \/ \E i \in DOMAIN diff :
                     EnvFile(diff[i].path) /\ Legible(diff[i]) /\ diff[i].status # "deleted"
               \/ \E k \in DOMAIN added : added[k].text \in Suspicious
        said(words) == <<Said(report.config.arena, report.arena, words),
                         Said(report.config.judge, report.judge, words)>>
        fails == said({"FAIL", "rejected"})
        passes == said({"PASS", "passed"}) IN
    /\ (\A i \in DOMAIN diff : Whole(diff[i])) =>
         (ExitCode = 2 <=> report.config.strict /\ (bad \/ fails[1] \/ fails[2]))
    /\ report.benchmark = "PASS" => passes[1]
    /\ report.verdict = "PASS" => passes[2]

=====================================================================================
