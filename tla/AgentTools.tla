----------------------------- MODULE AgentTools -----------------------------
(***************************************************************************)
(* The operations an agent has on files, as MCP tools (mcp_server.py) and  *)
(* as commands (cli.py): the checks of each in their order, and what it    *)
(* leaves changed.  What an operation does in detail is in DeckPatch,      *)
(* FileHistory, RequestRecord, ArchLayout and RenderPictures.              *)
(***************************************************************************)
EXTENDS Checks, Naturals

CONSTANTS Invocations,   \* the calls an agent may make, as records (see MCDocuments)
          NoAnswer

ASSUME CallAssumption ==
  \A c \in Invocations :
    c.op \in {"layout", "skill", "outline", "get_slide", "patch", "lint", "templates", "new", "export", "history",
             "restore", "requests", "complete", "review", "render"}

VARIABLES call, byTool, byCommand \* a call and what the two surfaces make of it

toolVars == <<call, byTool, byCommand>>

(* file: what the name leads to; "unnamed" cannot be encoded.  target: a slide, version, request, *)
(* template, format or topic.  input: operations or suggestions; garbled text reaches commands    *)
(* only.  fate: how the work would end; a verdict is a problem found, not an error.               *)
Answered(error, effects, verdict) == [error |-> error, effects |-> effects, verdict |-> verdict]

(* What the checks say, else the answer. *)
Checked(checks, answer) == IF checks = Passed THEN answer ELSE Answered(checks[1], {}, FALSE)

Does(effects) == Answered("none", effects, FALSE)

IsFile(c) == c.file \notin {"missing", "unnamed", "directory"}
HasSlides(c) == c.file \in {"deck", "template"}

Unnamed(c) == Refuse(c.file = "unnamed", "name")
NotThere(c) == Refuse(~IsFile(c), "not found")
Template(c) == Refuse(c.file = "template", "template")
UnknownTarget(c) == Refuse(c.target = "unknown", "unknown")
WorkFails(c, error) == Refuse(c.fate = "fails", error)

(* A directory is an error no one names. *)
LoadDeck(c) ==
  Unnamed(c) ?? Refuse(c.file = "missing", "not found")
    ?? Refuse(c.file = "directory", "unhandled") ?? Refuse(c.file = "binary", "not UTF-8")

ReadSlide(c) == LoadDeck(c) ?? Refuse(~HasSlides(c), "no slides") ?? UnknownTarget(c)

CheckTarget(c) == Unnamed(c) ?? Template(c) ?? NotThere(c)

(* Without operations nothing needs a presentation and nothing changes. *)
ApplyPatch(c, effects) ==
  Checked(CheckTarget(c) ?? LoadDeck(c)
            ?? Refuse(c.input = "wrong type", "not a list")
            ?? Refuse(c.input # "empty" /\ ~HasSlides(c), "operation") ?? Refuse(c.input = "bad", "operation")
            ?? (IF "dry_run" \in c.options \/ c.input = "empty" THEN Passed ELSE WorkFails(c, "write")),
          Does(IF "dry_run" \in c.options \/ c.input = "empty" THEN {} ELSE effects))

(* Any directory entry of that name is a file that exists. *)
CreateFile(c) ==
  Checked(UnknownTarget(c) ?? Unnamed(c) ?? Refuse(c.file # "missing", "exists") ?? WorkFails(c, "write"), Does({"file"}))

(* target is the format; pptx and docx are loaded each its own way, what they write is not undone. *)
ExportFile(c) ==
  Checked(UnknownTarget(c) ?? Unnamed(c)
            ?? (IF "docx" \in c.options THEN NotThere(c) ELSE LoadDeck(c) ?? Refuse(~HasSlides(c), "no slides"))
            ?? WorkFails(c, "export"),
          Does({"output"}))

ListVersions(c) == Checked(Unnamed(c) ?? NotThere(c), Does({}))

RestoreVersion(c) == Checked(CheckTarget(c) ?? UnknownTarget(c) ?? WorkFails(c, "write"), Does({"file", "version"}))

(* fate: the record is unreadable. *)
RequireRecord(c) == Unnamed(c) ?? NotThere(c) ?? WorkFails(c, "record")

CompleteRequest(c) == Checked(RequireRecord(c) ?? UnknownTarget(c), Does({"record"}))

WriteReview(c) ==
  Checked(Unnamed(c) ?? NotThere(c) ?? Refuse(c.input \in {"wrong type", "bad"}, "rule") ?? WorkFails(c, "record"), Does({"record"}))

(* render_deck: what counts as a scale given is the surface's to say. *)
RenderDeck(c, scaled) ==
  Checked(Refuse("report_only" \in c.options /\ (c.target # "none" \/ scaled \/ "report" \in c.options), "conflict")
            ?? Refuse(scaled /\ c.input = "bad", "scale")
            ?? LoadDeck(c) ?? Refuse(~HasSlides(c), "no slides") ?? WorkFails(c, "browser") ?? UnknownTarget(c),
          Answered("none", IF "report_only" \in c.options THEN {} ELSE {"picture"},
                   c.fate = "problems" /\ {"report", "report_only"} \cap c.options # {}))

(* layout_file knows no error of its own. *)
LayoutFile(c) ==
  Checked(Refuse(~IsFile(c) \/ c.file = "binary", "unhandled") ?? WorkFails(c, "unhandled"), Does({"file"}))

(* SkillLibrary: fate says whether the core or topic is installed. *)
SkillOutput(c) == Checked(UnknownTarget(c) ?? WorkFails(c, "not installed"), Does({}))

LintFile(c) == Checked(LoadDeck(c), Answered("none", {}, c.fate = "problems" /\ HasSlides(c)))

-----------------------------------------------------------------------------
(* Mutant: a scale equal to the default is passed on, like any other. *)
ToolScaleAsGiven(c) == TRUE

(* render: a scale that is the default is not given. *)
ToolScale(c) == "scale" \in c.options /\ c.input # "default"

(* The tools of the request loop, and the one that takes pictures. *)
LoopTool(c) ==
  CASE c.op = "requests" -> Checked(RequireRecord(c), Does({}))
    [] c.op = "complete" -> CompleteRequest(c)
    [] c.op = "review" -> WriteReview(c)
    [] c.op = "render" -> RenderDeck(c, ToolScale(c))

FileTool(c) ==
  CASE c.op = "lint" -> LintFile(c)
    [] c.op = "templates" -> Does({})
    [] c.op = "new" -> CreateFile(c)
    [] c.op = "export" -> ExportFile(c)
    [] c.op = "history" -> ListVersions(c)
    [] c.op = "restore" -> RestoreVersion(c)
    [] OTHER -> LoopTool(c)

(* patch raises the update flag around its write, whether the write fails or not. *)
Tool(c) ==
  CASE c.op = "layout" -> Checked(Unnamed(c), LayoutFile(c))
    [] c.op = "skill" -> SkillOutput(c)
    [] c.op = "outline" -> Checked(LoadDeck(c), Does({}))
    [] c.op = "get_slide" -> Checked(ReadSlide(c), Does({}))
    [] c.op = "patch" -> ApplyPatch(c, {"file", "version", "flag"})
    [] OTHER -> FileTool(c)

(* click's own checks of a file argument, before the command runs. *)
Clicked(c) ==
  Refuse(c.file = "directory" /\ c.op \notin {"requests", "complete", "review", "skill", "templates"}, "usage")
    ?? Refuse(c.file = "missing" /\ c.op = "layout", "usage")

(* patch and review read their input between the check of the file and the work. *)
Garbled(c) == Refuse(c.input = "garbled", "input")

SkillCommand(c) == Checked(Refuse("all" \in c.options /\ c.target # "none", "usage"), SkillOutput(c))

TemplateCommand(c) ==
  CASE c.op = "templates" -> Does({})
    [] c.op = "new" -> CreateFile(c)

RecordCommand(c) ==
  CASE c.op = "history" -> ListVersions(c)
    [] c.op = "restore" -> RestoreVersion(c)
    [] c.op = "requests" -> Checked(RequireRecord(c), Does({}))
    [] c.op = "complete" -> CompleteRequest(c)
    [] c.op = "review" -> Checked(Unnamed(c) ?? NotThere(c) ?? Garbled(c), WriteReview(c))
    [] c.op = "export" -> ExportFile(c)
    [] c.op = "skill" -> SkillCommand(c)
    [] OTHER -> TemplateCommand(c)

DeckCommand(c) ==
  CASE c.op = "layout" -> Checked(Unnamed(c), LayoutFile(c))
    [] c.op = "outline" -> Checked(LoadDeck(c), Does({}))
    [] c.op = "render" -> RenderDeck(c, "scale" \in c.options)
    [] c.op = "get_slide" -> Checked(ReadSlide(c), Does({}))
    [] c.op = "lint" -> LintFile(c)
    [] c.op = "patch" -> Checked(CheckTarget(c) ?? Garbled(c), ApplyPatch(c, {"file", "version"}))
    [] OTHER -> RecordCommand(c)

Command(c) == Checked(Clicked(c), DeckCommand(c))

ExitStatus(c, answer) ==
  CASE answer.error \in {"usage", "conflict"} \/ (c.op = "skill" /\ answer.error = "unknown") -> 2
    [] answer.error \notin {"none", "usage", "conflict", "unknown"} \/ (c.op # "skill" /\ answer.error = "unknown") -> 1
    [] answer.error = "none" -> IF answer.verdict THEN 1 ELSE 0

ToolInit == call \in Invocations /\ byTool = NoAnswer /\ byCommand = NoAnswer

CallBoth ==
  /\ byTool = NoAnswer
  /\ byTool' = Tool(call)
  /\ byCommand' = [answer |-> Command(call), exit |-> ExitStatus(call, Command(call))]
  /\ UNCHANGED call

ToolSpec == ToolInit /\ [][CallBoth]_toolVars

-----------------------------------------------------------------------------
(* A tool and its command do the same: they refuse the same calls, with the same error unless it  *)
(* is one of click or one no one handles, and change the same but the update flag; and a script   *)
(* that trusts the exit status 0 got a result without problems.  Apart from a default scale that   *)
(* is spelled out to a report only run, which only the command refuses (mcp_server, cli).          *)
SurfacesAgree ==
  byTool # NoAnswer /\ call.input # "garbled" /\ "all" \notin call.options =>
    LET answer == byCommand.answer
        spelledOut == call.op = "render" /\ {"scale", "report_only"} \subseteq call.options /\ call.input = "default"
    IN  /\ ~spelledOut =>
             /\ byTool.error = "none" <=> answer.error = "none"
             /\ {byTool.error, answer.error} \cap {"usage", "unhandled"} = {} => byTool.error = answer.error
             /\ byTool.effects \ {"flag"} = answer.effects
        /\ byCommand.exit = 0 => byTool.error = "none" /\ ~byTool.verdict
        /\ spelledOut => byTool.error # "conflict" \/ call.target # "none" \/ "report" \in call.options
=============================================================================
