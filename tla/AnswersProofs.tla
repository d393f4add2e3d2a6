--------------------------- MODULE AnswersProofs ---------------------------
(***************************************************************************)
(* Proofs about what a request over HTTP is answered and what a call of an *)
(* agent is, for any requests and calls: both go through checks in order.  *)
(***************************************************************************)
EXTENDS HttpRoutes, AgentTools, TLAPS

(* An answer of the server says what it did: a change is answered 200, or 500 when the file vanished. *)
Truthful(r, answer) ==
  answer.changes => answer.status = 200 \/ (answer.status = 500 /\ r.fate = "vanishes")

LEMMA SaysNothingChanged == \A status : Says(status).changes = FALSE /\ Says(status).status = status
BY DEF Says, Reply

(* Checks in order pass when each does. *)
LEMMA PassBoth == \A a, b : a ?? b = Passed <=> a = Passed /\ b = Passed
BY DEF ??

LEMMA PassOne == \A status : \A c \in BOOLEAN : Refuse(c, status) = Passed <=> ~c
BY DEF Refuse, Passed

(* What changed something passed every check. *)
LEMMA ChangePassed ==
  ASSUME NEW checks, NEW rest, FirstOf(checks, rest).changes = TRUE
  PROVE  checks = Passed /\ FirstOf(checks, rest) = rest
BY SaysNothingChanged DEF FirstOf

LEMMA TrustedOnly ==
  ASSUME NEW r, UntrustedRequest(r) = Passed, r.flaws \subseteq Flaws
  PROVE  r.flaws = {}
BY PassBoth DEF UntrustedRequest, AmbiguousHeaders, Refuse, Passed, Flaws

LEMMA JsonOnly ==
  ASSUME NEW r, SaveBody(r) = Passed \/ RequestBody(r) = Passed
  PROVE  r.type
<1>1. ContentType(r) = Passed
  <2>1. CASE SaveBody(r) = Passed
    <3> DEFINE length == DeclaredLength(r, FALSE)
               fields == Refuse(r.body # "right", 400)
               type == ContentType(r)
    <3>1. (length ?? type) ?? fields = Passed
      BY <2>1 DEF SaveBody
    <3> HIDE DEF length, fields, type
    <3>2. type = Passed
      BY <3>1, PassBoth
    <3> QED BY <3>2 DEF type
  <2>2. CASE RequestBody(r) = Passed
    <3> DEFINE length == DeclaredLength(r, TRUE)
               garbled == Refuse(r.body = "garbled", 400)
               object == Refuse(r.body = "not_an_object", 400)
               fields == Refuse(r.body = "wrong_fields", 400)
               type == ContentType(r)
    <3>1. (((type ?? length) ?? garbled) ?? object) ?? fields = Passed
      BY <2>2 DEF RequestBody
    <3> HIDE DEF length, garbled, object, fields, type
    <3>2. type = Passed
      BY <3>1, PassBoth
    <3> QED BY <3>2 DEF type
  <2> QED BY <2>1, <2>2
<1>2. CASE ~r.type
  BY <1>1, <1>2 DEF ContentType, Refuse, Passed
<1> QED BY <1>2

(* A save that changed the file was of JSON, on a loaded page. *)
LEMMA SaveAnswer ==
  ASSUME NEW r, ReceiveContent(r).changes = TRUE
  PROVE  Truthful(r, ReceiveContent(r)) /\ r.type /\ r.file # "none" /\ r.file # "template"
<1> DEFINE checks == NoFile(r) ?? SaveBody(r) ?? Refuse(r.file = "template", 403) ?? Refuse(r.fate = "conflict", 409)
                       ?? Refuse(r.fate = "fails", 500)
           rest == IF r.fate = "vanishes" THEN Reply(500, TRUE) ELSE Reply(200, TRUE)
<1>1. ReceiveContent(r) = FirstOf(checks, rest)
  BY DEF ReceiveContent
<1>2. checks = Passed /\ ReceiveContent(r) = rest
  <2> HIDE DEF checks, rest
  <2> QED BY <1>1, ChangePassed
<1>3. NoFile(r) = Passed /\ SaveBody(r) = Passed /\ Refuse(r.file = "template", 403) = Passed
  BY <1>2, PassBoth
<1> QED BY <1>2, <1>3, JsonOnly DEF NoFile, Refuse, Passed, Truthful, Reply

LEMMA LayoutAnswer == \A r : Truthful(r, RunArchLayout(r))
BY DEF RunArchLayout, FirstOf, Says, Reply, Truthful

LEMMA RequestAnswer ==
  ASSUME NEW r, AnswerRequest(r).changes = TRUE
  PROVE  Truthful(r, AnswerRequest(r)) /\ r.type
<1> DEFINE checks == NoFile(r) ?? RequestBody(r)
                       ?? Refuse(r.fate = "invalid", 400) ?? Refuse(r.fate = "not_found", 404)
                       ?? Refuse(r.fate = "conflict", 409) ?? Refuse(r.fate = "fails", 500)
<1>1. AnswerRequest(r) = FirstOf(checks, Reply(200, TRUE))
  BY DEF AnswerRequest
<1>2. checks = Passed /\ AnswerRequest(r) = Reply(200, TRUE)
  <2> HIDE DEF checks
  <2> QED BY <1>1, ChangePassed
<1>3. RequestBody(r) = Passed
  BY <1>2, PassBoth
<1> QED BY <1>2, <1>3, JsonOnly DEF Truthful, Reply

(* A GET only reads. *)
LEMMA GetReads == \A r : DoGet(r).changes = FALSE
BY SaysNothingChanged DEF DoGet, FirstOf, ServeStatic, ReadsTheFile, ContentFrame, ListRequests

(* A POST that changed something came with clean headers, as JSON unless it asked for a layout. *)
LEMMA PostAnswer ==
  ASSUME NEW r, r.flaws \subseteq Flaws, DoPost(r).changes = TRUE
  PROVE  /\ Truthful(r, DoPost(r)) /\ r.flaws = {} /\ (r.type \/ r.path = "/arch-layout")
         /\ r.path = "/content" => r.file # "none" /\ r.file # "template"
<1> DEFINE route == CASE r.path = "/content" -> ReceiveContent(r)
                      [] r.path = "/arch-layout" -> RunArchLayout(r)
                      [] r.path \in {"/requests", "/requests/delete", "/review/apply"} -> AnswerRequest(r)
                      [] OTHER -> Says(404)
<1>1. DoPost(r) = FirstOf(UntrustedRequest(r), route)
  BY DEF DoPost
<1>2. UntrustedRequest(r) = Passed /\ DoPost(r) = route
  <2> HIDE DEF route
  <2> QED BY <1>1, ChangePassed
<1>3. r.flaws = {}
  BY <1>2, TrustedOnly
<1>4. CASE r.path = "/content"
  <2>1. DoPost(r) = ReceiveContent(r)
    BY <1>2, <1>4
  <2> QED BY <1>3, <2>1, SaveAnswer
<1>5. CASE r.path = "/arch-layout"
  <2>1. DoPost(r) = RunArchLayout(r)
    BY <1>2, <1>5
  <2> QED BY <1>3, <1>5, <2>1, LayoutAnswer
<1>6. CASE r.path \in {"/requests", "/requests/delete", "/review/apply"}
  <2>1. DoPost(r) = AnswerRequest(r)
    BY <1>2, <1>6
  <2> QED BY <1>3, <1>6, <2>1, RequestAnswer
<1>7. CASE r.path \notin {"/content", "/arch-layout", "/requests", "/requests/delete", "/review/apply"}
  <2>1. DoPost(r) = Says(404)
    BY <1>2, <1>7
  <2> QED BY <2>1, SaysNothingChanged
<1> QED BY <1>4, <1>5, <1>6, <1>7

LEMMA AnswerChanges ==
  ASSUME NEW r \in HttpRequests, Answer(r).changes = TRUE
  PROVE  /\ Truthful(r, Answer(r)) /\ r.method = "POST" /\ r.flaws = {} /\ (r.type \/ r.path = "/arch-layout")
         /\ r.path = "/content" => r.file # "none" /\ r.file # "template"
<1>1. r.method \in {"GET", "POST", "OPTIONS"} /\ r.flaws \subseteq Flaws
  BY HttpAssumption
<1>2. CASE r.method = "GET"
  BY <1>2, GetReads DEF Answer
<1>3. CASE r.method = "OPTIONS"
  BY <1>3, SaysNothingChanged DEF Answer
<1>4. CASE r.method = "POST"
  <2>1. Answer(r) = DoPost(r)
    BY <1>4 DEF Answer
  <2> QED BY <1>1, <1>4, <2>1, PostAnswer
<1> QED BY <1>1, <1>2, <1>3, <1>4

LEMMA AnswerBoolean == \A r \in HttpRequests : Answer(r).changes \in BOOLEAN
<1> SUFFICES ASSUME NEW r \in HttpRequests PROVE Answer(r).changes \in BOOLEAN
  OBVIOUS
<1>1. \A checks, rest : rest.changes \in BOOLEAN => FirstOf(checks, rest).changes \in BOOLEAN
  BY DEF FirstOf, Says, Reply
<1>2. \A status : Reply(status, TRUE).changes = TRUE
  BY DEF Reply
<1>3. ReceiveContent(r).changes \in BOOLEAN
  <2> DEFINE checks == NoFile(r) ?? SaveBody(r) ?? Refuse(r.file = "template", 403) ?? Refuse(r.fate = "conflict", 409)
                         ?? Refuse(r.fate = "fails", 500)
             rest == IF r.fate = "vanishes" THEN Reply(500, TRUE) ELSE Reply(200, TRUE)
  <2>1. ReceiveContent(r) = FirstOf(checks, rest)
    BY DEF ReceiveContent
  <2>2. rest.changes \in BOOLEAN
    <3>1. CASE r.fate = "vanishes"
      BY <1>2, <3>1
    <3>2. CASE r.fate # "vanishes"
      BY <1>2, <3>2
    <3> QED BY <3>1, <3>2
  <2> HIDE DEF checks, rest
  <2> QED BY <1>1, <2>1, <2>2
<1>4. RunArchLayout(r).changes \in BOOLEAN
  BY DEF RunArchLayout, FirstOf, Says, Reply
<1>5. AnswerRequest(r).changes \in BOOLEAN
  <2> DEFINE checks == NoFile(r) ?? RequestBody(r)
                         ?? Refuse(r.fate = "invalid", 400) ?? Refuse(r.fate = "not_found", 404)
                         ?? Refuse(r.fate = "conflict", 409) ?? Refuse(r.fate = "fails", 500)
             rest == Reply(200, TRUE)
  <2>1. AnswerRequest(r) = FirstOf(checks, rest)
    BY DEF AnswerRequest
  <2>2. rest.changes \in BOOLEAN
    BY <1>2
  <2> HIDE DEF checks, rest
  <2> QED BY <1>1, <2>1, <2>2
<1>6. DoPost(r).changes \in BOOLEAN
  <2> DEFINE route == CASE r.path = "/content" -> ReceiveContent(r)
                        [] r.path = "/arch-layout" -> RunArchLayout(r)
                        [] r.path \in {"/requests", "/requests/delete", "/review/apply"} -> AnswerRequest(r)
                        [] OTHER -> Says(404)
  <2>1. route.changes \in BOOLEAN
    BY <1>3, <1>4, <1>5, SaysNothingChanged
  <2>2. DoPost(r) = FirstOf(UntrustedRequest(r), route)
    BY DEF DoPost
  <2> HIDE DEF route
  <2> QED BY <1>1, <2>1, <2>2
<1> QED BY <1>6, GetReads, SaysNothingChanged, HttpAssumption DEF Answer

HttpInv == request \in HttpRequests /\ (reply = NoReply \/ reply = Answer(request))

LEMMA HttpInvariance == HttpSpec => []HttpInv
<1>1. HttpInit => HttpInv
  BY DEF HttpInit, HttpInv
<1>2. HttpInv /\ [Serve]_httpVars => HttpInv'
  BY DEF HttpInv, Serve, httpVars
<1> QED BY <1>1, <1>2, PTL DEF HttpSpec

(* Whatever a page of another site can send changes nothing: a request that changed something came *)
(* by POST, with headers that passed the gate, as JSON (_refuse_untrusted_request).                *)
THEOREM ForeignRequestsChangeNothing == HttpSpec => []ForeignChangesNothing
<1>1. HttpInv => ForeignChangesNothing
  BY AnswerChanges DEF HttpInv, ForeignChangesNothing
<1> QED BY <1>1, HttpInvariance, PTL

(* An error says that nothing was changed, and no template and no missing file is ever saved to *)
(* (_receive_content).                                                                           *)
THEOREM ErrorsChangedNothing == HttpSpec => []ErrorsChangeNothing
<1>1. ASSUME HttpInv, reply # NoReply
      PROVE  ErrorsChangeNothing
  <2>1. request \in HttpRequests /\ reply = Answer(request)
    BY <1>1 DEF HttpInv
  <2>2. request.file \in {"none", "page", "template"}
    BY <2>1, HttpAssumption
  <2>3. CASE reply.changes = TRUE
    <3>1. Truthful(request, reply) /\ (request.path = "/content" => request.file # "none" /\ request.file # "template")
      BY <2>1, <2>3, AnswerChanges
    <3> QED BY <2>2, <2>3, <3>1 DEF ErrorsChangeNothing, Truthful
  <2>4. CASE reply.changes = FALSE
    BY <2>4 DEF ErrorsChangeNothing
  <2>5. reply.changes \in BOOLEAN
    BY <2>1, AnswerBoolean
  <2> QED BY <2>3, <2>4, <2>5
<1>2. HttpInv => ErrorsChangeNothing
  BY <1>1 DEF ErrorsChangeNothing
<1> QED BY <1>2, HttpInvariance, PTL

-----------------------------------------------------------------------------
(* Checks made twice refuse no more than checks made once. *)
LEMMA InOrder == \A a, b, d : (a ?? b) ?? d = a ?? (b ?? d)
BY DEF ??

LEMMA CheckedTwice == \A a, b, answer : Checked(a, Checked(a ?? b, answer)) = Checked(a ?? b, answer)
BY DEF ??, Checked

(* What click refuses before the command runs, the tool refuses too. *)
LEMMA ClickedRefused ==
  ASSUME NEW c \in Invocations, Clicked(c) # Passed
  PROVE  Tool(c).error # "none" /\ Tool(c).effects = {}
<1>1. CASE c.op = "layout"
  BY <1>1 DEF Tool, LayoutFile, Checked, Clicked, Unnamed, IsFile, Refuse, Passed, Answered, ??
<1>2. CASE c.op = "outline"
  BY <1>2 DEF Tool, LoadDeck, Checked, Clicked, Unnamed, Refuse, Passed, Answered, ??
<1>3. CASE c.op = "get_slide"
  BY <1>3 DEF Tool, ReadSlide, LoadDeck, Checked, Clicked, Unnamed, Refuse, Passed, Answered, ??
<1>4. CASE c.op = "patch"
  BY <1>4 DEF Tool, ApplyPatch, CheckTarget, NotThere, Template, IsFile, LoadDeck, Checked, Clicked, Unnamed, Refuse, Passed, Answered, ??
<1>5. CASE c.op = "lint"
  BY <1>5 DEF Tool, FileTool, LintFile, LoadDeck, Checked, Clicked, Unnamed, Refuse, Passed, Answered, ??
<1>6. CASE c.op = "new"
  BY <1>6 DEF Tool, FileTool, CreateFile, UnknownTarget, Checked, Clicked, Unnamed, Refuse, Passed, Answered, ??
<1>7. CASE c.op = "export"
  BY <1>7 DEF Tool, FileTool, ExportFile, NotThere, IsFile, LoadDeck, UnknownTarget, Checked, Clicked, Unnamed, Refuse, Passed, Answered, ??
<1>8. CASE c.op = "history"
  BY <1>8 DEF Tool, FileTool, ListVersions, NotThere, IsFile, Checked, Clicked, Unnamed, Refuse, Passed, Answered, ??
<1>9. CASE c.op = "restore"
  BY <1>9 DEF Tool, FileTool, RestoreVersion, CheckTarget, Template, NotThere, IsFile, Checked, Clicked, Unnamed, Refuse, Passed, Answered, ??
<1>10. CASE c.op = "render"
  BY <1>10 DEF Tool, FileTool, LoopTool, RenderDeck, LoadDeck, Checked, Clicked, Unnamed, Refuse, Passed, Answered, ??
<1>11. c.op \notin {"requests", "complete", "review", "skill", "templates"}
  BY DEF Clicked, Refuse, Passed, ??
<1> QED BY <1>1, <1>2, <1>3, <1>4, <1>5, <1>6, <1>7, <1>8, <1>9, <1>10, <1>11, CallAssumption

(* The calls both surfaces are held to: no garbled text, which only a command can be given, and no *)
(* skill --all, which is the command's own.                                                        *)
Comparable(c) == c.input # "garbled" /\ "all" \notin c.options

SpelledOut(c) == c.op = "render" /\ {"scale", "report_only"} \subseteq c.options /\ c.input = "default"

(* What click lets through, the command answers like the tool, but for the update flag. *)
SameAnswer(mine, other) ==
  mine.error = other.error /\ mine.verdict = other.verdict /\ mine.effects \ {"flag"} = other.effects

LEMMA PatchAgrees ==
  ASSUME NEW c, Comparable(c)
  PROVE  SameAnswer(ApplyPatch(c, {"file", "version", "flag"}),
                    Checked(CheckTarget(c) ?? Garbled(c), ApplyPatch(c, {"file", "version"})))
<1>1. Garbled(c) = Passed
  BY DEF Garbled, Comparable, Refuse
<1>2. CheckTarget(c) ?? Garbled(c) = CheckTarget(c)
  BY <1>1 DEF ??
<1> DEFINE load == LoadDeck(c)
           type == Refuse(c.input = "wrong type", "not a list")
           slides == Refuse(c.input # "empty" /\ ~HasSlides(c), "operation")
           bad == Refuse(c.input = "bad", "operation")
           work == IF "dry_run" \in c.options \/ c.input = "empty" THEN Passed ELSE WorkFails(c, "write")
           idle == "dry_run" \in c.options \/ c.input = "empty"
           rest == load ?? (type ?? (slides ?? (bad ?? work)))
           written(effects) == Does(IF idle THEN {} ELSE effects)
<1>3. \A effects : ApplyPatch(c, effects) = Checked(CheckTarget(c) ?? rest, written(effects))
  <2>1. \A effects : ApplyPatch(c, effects) = Checked(((((CheckTarget(c) ?? load) ?? type) ?? slides) ?? bad) ?? work, written(effects))
    BY DEF ApplyPatch
  <2> HIDE DEF load, type, slides, bad, work, written
  <2>2. ((((CheckTarget(c) ?? load) ?? type) ?? slides) ?? bad) ?? work = CheckTarget(c) ?? rest
    BY InOrder
  <2> QED BY <2>1, <2>2
<1>4. Checked(CheckTarget(c), ApplyPatch(c, {"file", "version"})) = ApplyPatch(c, {"file", "version"})
  <2> HIDE DEF rest, written
  <2> QED BY <1>3, CheckedTwice
<1>5. SameAnswer(written({"file", "version", "flag"}), written({"file", "version"}))
  <2>1. CASE idle
    BY <2>1 DEF Does, Answered, SameAnswer
  <2>2. CASE ~idle
    BY <2>2 DEF Does, Answered, SameAnswer
  <2> QED BY <2>1, <2>2
<1>6. \A checks : SameAnswer(Checked(checks, written({"file", "version", "flag"})), Checked(checks, written({"file", "version"})))
  <2> HIDE DEF written
  <2> QED BY <1>5 DEF Checked, Answered, SameAnswer
<1> HIDE DEF rest, written
<1> QED BY <1>2, <1>3, <1>4, <1>6

LEMMA ReviewAgrees ==
  ASSUME NEW c, Comparable(c)
  PROVE  Checked(Unnamed(c) ?? NotThere(c) ?? Garbled(c), WriteReview(c)) = WriteReview(c)
<1>1. Garbled(c) = Passed
  BY DEF Garbled, Comparable, Refuse
<1> DEFINE rule == Refuse(c.input \in {"wrong type", "bad"}, "rule")
           first == Unnamed(c) ?? NotThere(c)
           work == WorkFails(c, "record")
<1>2. WriteReview(c) = Checked((first ?? rule) ?? work, Does({"record"}))
  BY DEF WriteReview
<1> HIDE DEF rule, work
<1>3. WriteReview(c) = Checked(first ?? (rule ?? work), Does({"record"}))
  BY <1>2, InOrder
<1>4. first ?? Garbled(c) = first
  BY <1>1 DEF ??
<1> HIDE DEF first
<1>5. Checked(first, WriteReview(c)) = WriteReview(c)
  BY <1>3, CheckedTwice
<1> QED BY <1>4, <1>5 DEF first

LEMMA RenderAgrees ==
  ASSUME NEW c, ~SpelledOut(c), c.op = "render"
  PROVE  RenderDeck(c, ToolScale(c)) = RenderDeck(c, "scale" \in c.options)
<1>1. CASE c.input # "default" \/ "scale" \notin c.options
  BY <1>1 DEF RenderDeck, ToolScale
<1>2. CASE c.input = "default" /\ "report_only" \notin c.options
  BY <1>2 DEF RenderDeck, ToolScale, Refuse
<1> QED BY <1>1, <1>2 DEF SpelledOut

(* A report that is asked for alone and given the default scale: only the command refuses it. *)
LEMMA RenderSpelledOut ==
  ASSUME NEW c, SpelledOut(c)
  PROVE  /\ RenderDeck(c, "scale" \in c.options).error = "conflict"
         /\ RenderDeck(c, ToolScale(c)).error = "conflict" => c.target # "none" \/ "report" \in c.options
<1>1. RenderDeck(c, "scale" \in c.options).error = "conflict"
  BY DEF SpelledOut, RenderDeck, Checked, Answered, Refuse, Passed, ??
<1>2. RenderDeck(c, ToolScale(c)).error = "conflict" => c.target # "none" \/ "report" \in c.options
  BY DEF SpelledOut, RenderDeck, ToolScale, Checked, Answered, Refuse, Passed, ??, LoadDeck, Unnamed, WorkFails, UnknownTarget
<1> QED BY <1>1, <1>2

LEMMA CommandAgrees ==
  ASSUME NEW c \in Invocations, Comparable(c), ~SpelledOut(c), Clicked(c) = Passed
  PROVE  SameAnswer(Tool(c), Command(c))
<1>1. Command(c) = DeckCommand(c)
  BY DEF Command, Checked
<1>2. CASE c.op = "patch"
  BY <1>1, <1>2, PatchAgrees DEF Tool, DeckCommand
<1>3. \A answer : answer.effects \ {"flag"} = answer.effects => SameAnswer(answer, answer)
  BY DEF SameAnswer
<1>4. CASE c.op # "patch"
  <2>1. Tool(c) = DeckCommand(c)
    <3>1. CASE c.op = "review"
      BY <3>1, ReviewAgrees DEF Tool, FileTool, LoopTool, DeckCommand, RecordCommand
    <3>2. CASE c.op = "render"
      BY <3>2, RenderAgrees DEF Tool, FileTool, LoopTool, DeckCommand
    <3>3. CASE c.op = "skill"
      BY <3>3 DEF Tool, DeckCommand, RecordCommand, SkillCommand, Comparable, Checked, Refuse
    <3>4. CASE c.op \in {"layout", "outline", "get_slide"}
      BY <3>4 DEF Tool, DeckCommand
    <3>5. CASE c.op \in {"lint", "templates", "new", "export", "history", "restore"}
      BY <3>5 DEF Tool, FileTool, DeckCommand, RecordCommand, TemplateCommand
    <3>6. CASE c.op \in {"requests", "complete"}
      BY <3>6 DEF Tool, FileTool, LoopTool, DeckCommand, RecordCommand
    <3> QED BY <1>4, <3>1, <3>2, <3>3, <3>4, <3>5, <3>6, CallAssumption
  <2>2. "flag" \notin Tool(c).effects
    <3>1. \A checks, answer : "flag" \notin answer.effects => "flag" \notin Checked(checks, answer).effects
      BY DEF Checked, Answered
    <3>2. \A effects : Does(effects).effects = effects
      BY DEF Does, Answered
    <3>3. CASE c.op \in {"layout", "skill", "outline", "get_slide"}
      BY <3>3 DEF Tool, LayoutFile, SkillOutput, Checked, Does, Answered
    <3>4. CASE c.op \in {"new", "export", "history", "restore", "templates"}
      BY <3>4 DEF Tool, FileTool, CreateFile, ExportFile, ListVersions, RestoreVersion, Checked, Does, Answered
    <3>5. CASE c.op \in {"requests", "complete"}
      BY <3>1, <3>2, <3>5 DEF Tool, FileTool, LoopTool, CompleteRequest
    <3>6. CASE c.op = "review"
      <4> DEFINE checks == Unnamed(c) ?? NotThere(c) ?? Refuse(c.input \in {"wrong type", "bad"}, "rule")
                             ?? WorkFails(c, "record")
      <4>1. Tool(c) = Checked(checks, Does({"record"}))
        BY <3>6 DEF Tool, FileTool, LoopTool, WriteReview
      <4> HIDE DEF checks
      <4> QED BY <3>1, <3>2, <4>1
    <3>7. CASE c.op = "lint"
      <4>1. Tool(c) = Checked(LoadDeck(c), Answered("none", {}, c.fate = "problems" /\ HasSlides(c)))
        BY <3>7 DEF Tool, FileTool, LintFile
      <4> QED BY <4>1 DEF Checked, Answered
    <3>8. CASE c.op = "render"
      <4> DEFINE effects == IF "report_only" \in c.options THEN {} ELSE {"picture"}
                 verdict == c.fate = "problems" /\ {"report", "report_only"} \cap c.options # {}
      <4>1. \E checks : Tool(c) = Checked(checks, Answered("none", effects, verdict))
        BY <3>8 DEF Tool, FileTool, LoopTool, RenderDeck
      <4>2. "flag" \notin effects
        OBVIOUS
      <4>3. PICK checks : Tool(c) = Checked(checks, Answered("none", effects, verdict))
        BY <4>1
      <4> HIDE DEF effects, verdict
      <4> QED BY <4>2, <4>3 DEF Checked, Answered
    <3> QED BY <1>4, <3>3, <3>4, <3>5, <3>6, <3>7, <3>8, CallAssumption
  <2> QED BY <1>1, <1>3, <2>1, <2>2
<1> QED BY <1>2, <1>4

LEMMA ExitSaysSo ==
  ASSUME NEW c, NEW answer, ExitStatus(c, answer) = 0
  PROVE  answer.error = "none" /\ ~answer.verdict
BY DEF ExitStatus

ToolInv ==
  /\ call \in Invocations
  /\ \/ byTool = NoAnswer
     \/ byTool = Tool(call) /\ byCommand = [answer |-> Command(call), exit |-> ExitStatus(call, Command(call))]

LEMMA ToolInvariance == ToolSpec => []ToolInv
<1>1. ToolInit => ToolInv
  BY DEF ToolInit, ToolInv
<1>2. ToolInv /\ [CallBoth]_toolVars => ToolInv'
  BY DEF ToolInv, CallBoth, toolVars
<1> QED BY <1>1, <1>2, PTL DEF ToolSpec

(* The MCP tool and the command of one operation do the same, whatever the call (mcp_server, cli). *)
THEOREM ToolsAndCommandsAgree == ToolSpec => []SurfacesAgree
<1>1. ASSUME ToolInv, byTool # NoAnswer, Comparable(call)
      PROVE  SurfacesAgree
  <2> DEFINE answer == Command(call)
             exit == ExitStatus(call, answer)
  <2>1. call \in Invocations /\ byTool = Tool(call) /\ byCommand = [answer |-> answer, exit |-> exit]
    BY <1>1 DEF ToolInv
  <2>2. byCommand.answer = answer /\ byCommand.exit = exit
    BY <2>1
  <2>3. exit = 0 => answer.error = "none" /\ ~answer.verdict
    BY ExitSaysSo
  <2>4. CASE Clicked(call) # Passed
    <3>1. answer.error = "usage" /\ answer.effects = {}
      BY <2>4 DEF Command, Checked, Answered, Clicked, Refuse, Passed, ??
    <3>2. Tool(call).error # "none" /\ Tool(call).effects = {}
      BY <2>1, <2>4, ClickedRefused
    <3>3. ~SpelledOut(call) \/ Tool(call).error # "conflict" \/ call.target # "none" \/ "report" \in call.options
      BY RenderSpelledOut DEF SpelledOut, Tool, FileTool, LoopTool
    <3> HIDE DEF answer, exit
    <3> QED BY <2>1, <2>2, <2>3, <3>1, <3>2, <3>3 DEF SurfacesAgree, SpelledOut
  <2>5. CASE Clicked(call) = Passed /\ SpelledOut(call)
    <3>1. answer = RenderDeck(call, "scale" \in call.options) /\ Tool(call) = RenderDeck(call, ToolScale(call))
      BY <2>5 DEF SpelledOut, Command, Checked, DeckCommand, Tool, FileTool, LoopTool
    <3>2. answer.error = "conflict"
      BY <2>5, <3>1, RenderSpelledOut
    <3>3. Tool(call).error = "conflict" => call.target # "none" \/ "report" \in call.options
      BY <2>5, <3>1, RenderSpelledOut
    <3> HIDE DEF answer, exit
    <3> QED BY <2>1, <2>2, <2>3, <2>5, <3>2, <3>3 DEF SurfacesAgree, SpelledOut
  <2>6. CASE Clicked(call) = Passed /\ ~SpelledOut(call)
    <3>1. SameAnswer(Tool(call), answer)
      BY <1>1, <2>1, <2>6, CommandAgrees
    <3> HIDE DEF answer, exit
    <3> QED BY <2>1, <2>2, <2>3, <2>6, <3>1 DEF SurfacesAgree, SpelledOut, SameAnswer
  <2> QED BY <2>4, <2>5, <2>6
<1>2. ToolInv => SurfacesAgree
  BY <1>1 DEF SurfacesAgree, Comparable
<1> QED BY <1>2, ToolInvariance, PTL
=============================================================================
