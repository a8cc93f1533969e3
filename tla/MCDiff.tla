--------------------------------- MODULE MCDiff ---------------------------------
(***************************************************************************)
(* Pull requests of up to two changes: more added lines than are captured, *)
(* texts that look like headers or have other line breaks, paths that git  *)
(* quotes or that its header is cut at, and files without a "+++" line.    *)
(***************************************************************************)
EXTENDS DiffReport

Path(top, name) == [NoPath EXCEPT !.top = top, !.name = name]
Quoted(top, name) == [Path(top, name) EXCEPT !.form = "quoted"]
Blank(p, beyond) == [p EXCEPT !.blank = TRUE, !.beyond = beyond]

MCCode == Path("nimna", "*.py")
MCScript == Path("scripts", "*.py")
MCEnv == Path("none", ".env")
MCTest == Path("tests", "test_*")
MCImage == Path("docs", "other")
MCQuotedEnv == Quoted("other", ".env")

Op(op, t) == [op |-> op, text |-> t, more |-> <<>>]
Broken(op, t, more) == [op |-> op, text |-> t, more |-> more]
Rest(head, t) == Line(head, NoPath, 0, t)
Hunk(no, body) == [no |-> no, more |-> <<>>, body |-> body]

Changed(path, old, status, hunks) ==
  [path |-> path, old |-> old, status |-> status, binary |-> FALSE, hunks |-> hunks]
RenamedTo(path, old) == Changed(path, old, "renamed", <<>>)

MCWhole ==
  {Changed(MCCode, MCCode, "modified",
     <<Hunk(3, <<Op("kept", "x"), Op("del", "-- x"), Op("add", "++ x"), Op("add", "token")>>),
       Hunk(9, <<Op("add", "x"), Op("kept", "x"), Op("add", "x")>>)>>),
   Changed(MCScript, MCCode, "renamed", <<Hunk(1, <<Op("del", "x"), Op("remark", "none"), Op("add", "assignment")>>)>>),
   RenamedTo(MCScript, MCCode),
   Changed(MCEnv, NoPath, "added", <<Hunk(1, <<Op("add", "placeholder")>>)>>),
   Changed(MCEnv, MCEnv, "deleted", <<Hunk(0, <<Op("del", "token"), Op("remark", "none")>>)>>),
   Changed(MCTest, MCTest, "deleted", <<>>),
   [Changed(MCImage, MCImage, "modified", <<>>) EXCEPT !.binary = TRUE],
   \* modes only: "nimna/x b/y.py"
   Changed(Blank(MCCode, "none"), Blank(MCCode, "none"), "modified", <<>>)}

MCUnplain ==
  {RenamedTo(MCQuotedEnv, MCEnv),
   Changed(MCQuotedEnv, NoPath, "added", <<Hunk(1, <<Op("add", "x")>>)>>),
   Changed(Blank(MCQuotedEnv, "other"), NoPath, "added", <<>>),
   RenamedTo(Quoted("tests", "test_*"), MCTest)}

MCBroken ==
  {Changed(MCCode, MCCode, "modified", <<Hunk(3, <<Broken("add", "x", <<Rest(" ", "token")>>), Op("add", "x")>>)>>),
   Changed(MCCode, MCCode, "modified",
     <<[Hunk(3, <<Broken("kept", "x", <<Line("diff --git", MCEnv, 0, "none"), Rest("+", "x")>>), Op("add", "token")>>)
          EXCEPT !.more = <<Rest("-", "x")>>]>>)}

MCChanges == MCWhole \cup MCUnplain \cup MCBroken

MCDiffs == UNION {[1 .. n -> MCChanges] : n \in 0 .. 2}

=================================================================================
