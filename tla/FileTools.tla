-------------------------------- MODULE FileTools --------------------------------
(***************************************************************************)
(* The tools of an agent that write files of its workspace:                *)
(* nimna/tools/builtin/files.py and edit.py, behind the jail of            *)
(* nimna/tools/base.py.  A call names a path of the workspace, or one that *)
(* is empty, absolute or leaves it; text is what the file is to hold, and  *)
(* found are the contents that have the old text, exactly once unless all  *)
(* are asked for, or that the hunks of a patch fit.                        *)
(***************************************************************************)
EXTENDS Observation

CONSTANTS
  Small,     \* contents that are text and within max_write_bytes, EDIT_MAX_BYTES
  Outside    \* a path that is not one of the workspace

ASSUME FileToolsAssumption == Small \subseteq Contents /\ Outside \notin Paths

FileCall == [tool : {"write_file", "delete_file", "edit_file", "apply_patch"},
             path : Paths \cup {Outside}, text : Contents, found : SUBSET Contents,
             overwrite : BOOLEAN, sections : Nat]

(* resolve_path() *)
InJail(c) == c.path \in Paths

(* A new file may be written without asking. *)
EffectiveRisk(c, w) ==
  IF c.tool = "write_file" /\ (~InJail(c) \/ w[c.path] = Absent) THEN "safe" ELSE "confirm"

Fits(c, w) == w[c.path] \in Small \cap c.found /\ c.text \in Small

(***************************************************************************)
(* Whether the handler gets to its write.  The parser of patches takes the *)
(* header of a second section for lines of the hunk before it, which then  *)
(* fits nothing.                                                           *)
(***************************************************************************)
Succeeds(c, w) ==
  /\ InJail(c)
  /\ CASE c.tool = "write_file"  -> c.text \in Small /\ (w[c.path] = Absent \/ c.overwrite)
       [] c.tool = "delete_file" -> w[c.path] # Absent
       [] c.tool = "edit_file"   -> Fits(c, w)
       [] c.tool = "apply_patch" -> Fits(c, w) /\ c.sections = 1

(* execute(): an error is told to the model and changes nothing. *)
RunTool(c, w) ==
  IF ~Succeeds(c, w) THEN w
  ELSE [w EXCEPT ![c.path] = IF c.tool = "delete_file" THEN Absent ELSE c.text]

==================================================================================
