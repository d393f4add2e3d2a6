----------------------------- MODULE HttpRoutes -----------------------------
(***************************************************************************)
(* What the editor server answers to one request and what the request      *)
(* changes (_EditorHandler): the gate of every route but /health, the      *)
(* checks of each route in their order, and its operation.  What a save or *)
(* a request of the panel does in detail is in SaveServer, RequestRecord.  *)
(***************************************************************************)
EXTENDS Checks, Naturals

CONSTANTS HttpRequests, \* the requests that may come, as records (see MCServerProcess)
          NoReply

(* What can be wrong with the headers of a request. *)
Flaws == {"folded", "repeated", "encoding", "userinfo", "host", "origin"}

ASSUME HttpAssumption ==
  \A r \in HttpRequests :
    /\ r.method \in {"GET", "POST", "OPTIONS"} /\ r.flaws \subseteq Flaws /\ r.type \in BOOLEAN
    /\ r.file \in {"none", "page", "template"}

VARIABLES request, reply

httpVars == <<request, reply>>

(* flaws: what is wrong with the headers.  type: the body is declared JSON.  length, body: the    *)
(* declared length and what the body holds.  fate: how the route's operation would end.           *)
Reply(status, changes) == [status |-> status, changes |-> changes]

Says(status) == Reply(status, FALSE)

(* What the checks say, else the rest. *)
FirstOf(checks, rest) == IF checks = Passed THEN rest ELSE Says(checks[1])

(* Each read of the whole header block, then what the block says of the sender. *)
AmbiguousHeaders(r) ==
  Refuse("folded" \in r.flaws, 400) ?? Refuse("repeated" \in r.flaws, 400)
    ?? Refuse("encoding" \in r.flaws, 400) ?? Refuse("userinfo" \in r.flaws, 400)

(* Mutant: the origin is only looked at when the body is not JSON. *)
OriginOfForms(r) ==
  AmbiguousHeaders(r) ?? Refuse("host" \in r.flaws, 403) ?? Refuse("origin" \in r.flaws /\ ~r.type, 403)

UntrustedRequest(r) == AmbiguousHeaders(r) ?? Refuse("host" \in r.flaws, 403) ?? Refuse("origin" \in r.flaws, 403)

(* A length above MAX_SAVE_BYTES is refused whatever the route's own limit. *)
DeclaredLength(r, capped) ==
  Refuse(r.length = "not_digits", 400) ?? Refuse(r.length = "huge" \/ (capped /\ r.length = "large"), 413)

ContentType(r) == Refuse(~r.type, 415)

(* _read_request_body: a wrong content type outranks a bad length. *)
RequestBody(r) ==
  ContentType(r) ?? DeclaredLength(r, TRUE)
    ?? Refuse(r.body = "garbled", 400) ?? Refuse(r.body = "not_an_object", 400) ?? Refuse(r.body = "wrong_fields", 400)

SaveBody(r) ==
  DeclaredLength(r, FALSE) ?? ContentType(r) ?? Refuse(r.body # "right", 400)

NoFile(r) == Refuse(r.file = "none", 404)

(* Mutant: the template is looked for when the write fails. *)
TemplateAfterWrite(r) ==
  FirstOf(NoFile(r) ?? SaveBody(r) ?? Refuse(r.fate = "conflict", 409) ?? Refuse(r.fate = "fails", 500),
          Reply(IF r.file = "template" THEN 403 ELSE 200, TRUE))

(* The file vanishes between the swap and the stat that reads the new mtime: 500 for a save done. *)
ReceiveContent(r) ==
  FirstOf(NoFile(r) ?? SaveBody(r) ?? Refuse(r.file = "template", 403) ?? Refuse(r.fate = "conflict", 409)
             ?? Refuse(r.fate = "fails", 500),
          IF r.fate = "vanishes" THEN Reply(500, TRUE) ELSE Reply(200, TRUE))

RunArchLayout(r) ==
  FirstOf(NoFile(r) ?? DeclaredLength(r, TRUE) ?? Refuse(r.fate = "fails", 500), Reply(200, TRUE))

(* /requests, /requests/delete and /review/apply, over the errors of RequestService. *)
AnswerRequest(r) ==
  FirstOf(NoFile(r) ?? RequestBody(r)
            ?? Refuse(r.fate = "invalid", 400) ?? Refuse(r.fate = "not_found", 404)
            ?? Refuse(r.fate = "conflict", 409) ?? Refuse(r.fate = "fails", 500),
          Reply(200, TRUE))

ListRequests(r) == FirstOf(NoFile(r) ?? Refuse(r.fate = "fails", 500), Says(200))

(* /content, and the two exports, which work on a temporary file of their own. *)
ReadsTheFile(r) == FirstOf(NoFile(r) ?? Refuse(r.fate = "fails", 500), Says(200))

(* /content-frame shows a placeholder without a file. *)
ContentFrame(r) == FirstOf(Refuse(r.file # "none" /\ r.fate = "fails", 500), Says(200))

(* Only the name's last component is looked up under static/. *)
ServeStatic(r) == FirstOf(Refuse(r.fate # "right", 404), Says(200))

(* /health comes before the gate. *)
DoGet(r) ==
  IF r.path = "/health" THEN Says(200)
  ELSE FirstOf(UntrustedRequest(r),
    CASE r.path \in {"/", "/static/"} -> ServeStatic(r)
      [] r.path \in {"/content", "/export/pptx", "/export/docx"} -> ReadsTheFile(r)
      [] r.path = "/content-frame" -> ContentFrame(r)
      [] r.path = "/status" -> Says(200)
      [] r.path = "/requests" -> ListRequests(r)
      [] OTHER -> Says(404))

DoPost(r) ==
  FirstOf(UntrustedRequest(r),
    CASE r.path = "/content" -> ReceiveContent(r)
      [] r.path = "/arch-layout" -> RunArchLayout(r)
      [] r.path \in {"/requests", "/requests/delete", "/review/apply"} -> AnswerRequest(r)
      [] OTHER -> Says(404))

Answer(r) ==
  CASE r.method = "GET" -> DoGet(r)
    [] r.method = "POST" -> DoPost(r)
    [] r.method = "OPTIONS" -> Says(405)

HttpInit == request \in HttpRequests /\ reply = NoReply

Serve == reply = NoReply /\ reply' = Answer(request) /\ UNCHANGED request

HttpSpec == HttpInit /\ [][Serve]_httpVars

-----------------------------------------------------------------------------
(* No page of another site and no rebound name changes anything: what such a page can send (an   *)
(* Origin of its own, a foreign Host, a form or text body, a GET without Origin, a preflight)    *)
(* is refused or only reads (_refuse_untrusted_request, do_OPTIONS, check_content_type).  And a  *)
(* refusal of a request that could be read two ways changes nothing either.                      *)
ForeignChangesNothing ==
  reply # NoReply /\ reply.changes =>
    /\ request.flaws = {} /\ request.method = "POST"
    /\ request.type \/ request.path = "/arch-layout"

(* A request answered with an error has changed nothing, and one answered 200 did what was asked *)
(* on a loaded file that is no template (of saves), except when the file vanishes after the swap. *)
ErrorsChangeNothing ==
  reply # NoReply =>
    /\ reply.status >= 400 /\ request.fate # "vanishes" => ~reply.changes
    /\ request.path = "/content" /\ reply.changes => request.file = "page"
=============================================================================
