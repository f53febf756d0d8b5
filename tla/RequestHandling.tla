--------------------------- MODULE RequestHandling ---------------------------
(***************************************************************************)
(* One HTTP request through its VerifyRequestHandler (proxygen creates one *)
(* handler per request): onRequest copies the headers into the Request and *)
(* sets up the multipart codec; onBody feeds the codec, whose callbacks    *)
(* (MultipartBodyCallback, RequestResponse.h) record the uploaded field;   *)
(* onEOM finalises the Request (Request::finalise picks the type from the  *)
(* "type" header), dispatches it in respond() to one handle_* method and   *)
(* sends the response. requestComplete and onError delete the handler.     *)
(*                                                                         *)
(* Every proxygen callback is noexcept: an exception that leaves one of    *)
(* them calls std::terminate and ends the server process.                  *)
(*                                                                         *)
(* Data is abstracted to what the control flow tells apart: a header is a  *)
(* value of a small set or Absent; the uploaded field is a kind of body    *)
(* (an OSLC document that parses and has every element, or one that lacks *)
(* one, or malformed XML, or nothing); what the VerificationService does   *)
(* with a request is the class of the exception it throws, chosen from     *)
(* what the service's state allows (workspace unknown, tool busy, ...).    *)
(***************************************************************************)
EXTENDS Naturals

CONSTANTS
  Types,      \* values of the "type" header
  Cmds,       \* values of the "cmd" header
  Ids,        \* values of the "id" header
  BodyKinds,  \* what the uploaded field holds
  Absent, None

VARIABLES
  hpc,     \* the handler: "wait", "body" (headers in), "sent", "done", "terminated"
  hdr,     \* Request::headers, with multipart: the Content-Type matched
  codec,   \* bodyCodec is set
  part,    \* MultipartBodyCallback: state, a field started, the field's data
  reply    \* the response sent: status and the kind of body

vars == <<hpc, hdr, codec, part, reply>>

Headers ==
  [type : Types \cup {Absent}, workspace : {"w", Absent}, id : Ids \cup {Absent},
   cmd : Cmds \cup {Absent}, tool : {"t", Absent}, multipart : BOOLEAN]

Reply(status, body) == [status |-> status, body |-> body]

(* An exception leaving the noexcept callback: no response is sent.      *)
Crash == Reply("none", "terminate")

-----------------------------------------------------------------------------
(* setupBodyCodec: the Content-Type header matches the multipart regex.  *)
SetupBodyCodec(h) == h.multipart

(* bbb::s2u of the report number: "x" is no number.                       *)
IsNumber(s) == s # "x"

(* Request::finalise_* read the mandatory headers with headers.at, whose  *)
(* std::out_of_range is caught and turns the request into malformed.     *)
(* finalise_verify catches only out_of_range: the runtime_error of an     *)
(* unfinished upload and the MalformedXMLException of xml.fill escape.   *)
FinaliseVerify(h, p) ==
  IF h.workspace = Absent THEN "malformed"
  ELSE IF p.state # "FINISHED" \/ p.data \in {"empty", "malformed"} THEN "escape"
  ELSE "verify"

FinaliseUpload(h, p) ==
  IF h.workspace = Absent \/ p.state # "FINISHED" THEN "malformed" ELSE "upload"

FinaliseMonitor(h) ==
  IF h.workspace = Absent \/ h.id = Absent THEN "malformed" ELSE "monitor"

FinaliseWorkspace(h) ==
  IF \/ h.cmd = Absent
     \/ h.cmd = "new" /\ h.tool = Absent
     \/ h.cmd = "destroy" /\ h.workspace = Absent
  THEN "malformed" ELSE "workspace"

IsKill(c) == c \in {"kill", "kill 1"}     \* query.find("kill") != npos

FinaliseQuery(h) ==
  IF h.cmd = Absent \/ (IsKill(h.cmd) /\ h.workspace = Absent)
  THEN "malformed" ELSE "query"

(* Request::finalise: the request type, or "escape" for an exception.    *)
Finalise(h, p) ==
  CASE h.type \in {Absent, ""} -> "malformed"
    [] h.type = "query"        -> FinaliseQuery(h)
    [] h.type = "upload"       -> FinaliseUpload(h, p)
    [] h.type = "verify"       -> FinaliseVerify(h, p)
    [] h.type = "monitor"      -> FinaliseMonitor(h)
    [] h.type = "workspace"    -> FinaliseWorkspace(h)
    [] OTHER                   -> "malformed"

(* VerificationService::verify and the Request getters it calls, in      *)
(* order: workspaceManager.get (WorkspaceNotFoundError), get_tool_name    *)
(* (std::out_of_range without usesExecutionEnvironment), the tool checks  *)
(* (runtime_error, ReservationError), the input ids (stoul's logic_error  *)
(* rethrown as runtime_error), get_call_schema's assert(res.size() == 1), *)
(* then checkin and start_new_run (runtime_error). The classes thrown.    *)
VerifyExc(d) ==
  {"runtime"} \cup
  CASE d = "noEnv"    -> {"logic"}
    [] d = "badInput" -> {}
    [] d = "noSchema" -> {"abort"}
    [] OTHER          -> {"none"}

(* handle_verify catches std::runtime_error; Status stays OK.             *)
HandleVerify(d) ==
  {CASE e = "none" -> Reply("OK", "report") [] e = "runtime" -> Reply("OK", "error")
     [] OTHER -> Crash : e \in VerifyExc(d)}

(* handle_monitor: get_id, getMonitoringOSLC; catches std::exception.     *)
HandleMonitor(h) ==
  IF IsNumber(h.id) THEN {Reply("OK", "document"), Reply("OK", "error")}
  ELSE {Reply("OK", "error")}

(* handle_upload: addFile; catches std::exception and says NOK.          *)
HandleUpload == {Reply("OK", "uploaded"), Reply("NOK", "known"), Reply("NOK", "error")}

(* handle_query: kill parses the number after the last space and calls    *)
(* killTask (runtime_error caught); availability lists the tools.         *)
HandleQuery(h) ==
  CASE h.cmd = "kill 1"                  -> {Reply("OK", "empty"), Reply("OK", "error")}
    [] IsKill(h.cmd)                     -> {Reply("OK", "error")}
    [] h.cmd = "availability"            -> {Reply("OK", "availability")}
    [] OTHER                             -> {Reply("OK", "empty")}

(* handle_workspace: createWorkspace (std::exception caught) or           *)
(* destroyWorkspace; any other cmd leaves the body empty.                 *)
HandleWorkspace(h) ==
  CASE h.cmd = "new"     -> {Reply("OK", "created"), Reply("OK", "error")}
    [] h.cmd = "destroy" -> {Reply("OK", "destroyed")}
    [] OTHER             -> {Reply("OK", "empty")}

(* respond(): the switch on the request type.                             *)
Respond(h, p) ==
  CASE Finalise(h, p) = "escape"    -> {Crash}
    [] Finalise(h, p) = "verify"    -> HandleVerify(p.data)
    [] Finalise(h, p) = "monitor"   -> HandleMonitor(h)
    [] Finalise(h, p) = "upload"    -> HandleUpload
    [] Finalise(h, p) = "query"     -> HandleQuery(h)
    [] Finalise(h, p) = "workspace" -> HandleWorkspace(h)
    [] OTHER                        -> {Reply("NOK", "unrecognised")}

-----------------------------------------------------------------------------
(* proxygen has created the handler; the Request is fresh.                *)
Init ==
  /\ hpc = "wait"
  /\ hdr = None
  /\ codec = FALSE
  /\ part = [state |-> "INCOMPLETE", started |-> FALSE, data |-> "empty"]
  /\ reply = None

(* onRequest: push_header for every header, then setupBodyCodec: an       *)
(* RFC1867Codec when Content-Type is multipart/form-data with a boundary. *)
OnRequest ==
  /\ hpc = "wait"
  /\ \E h \in Headers : hdr' = h /\ codec' = SetupBodyCodec(h)
  /\ hpc' = "body"
  /\ UNCHANGED <<part, reply>>

(* The codec reaches a part's headers: onFieldStart (the handler keeps    *)
(* one field).                                                            *)
FieldStart ==
  /\ hpc = "body" /\ codec /\ ~part.started
  /\ part' = [part EXCEPT !.state = "INCOMPLETE", !.started = TRUE]
  /\ UNCHANGED <<hpc, hdr, codec, reply>>

(* onFieldData chunks, then onFieldEnd at the closing boundary: the data  *)
(* becomes fieldString and the state FINISHED.                            *)
FieldEnd ==
  /\ hpc = "body" /\ part.started /\ part.state = "INCOMPLETE"
  /\ \E d \in BodyKinds : part' = [part EXCEPT !.state = "FINISHED", !.data = d]
  /\ UNCHANGED <<hpc, hdr, codec, reply>>

(* The codec meets a malformed part: onError.                             *)
CodecError ==
  /\ hpc = "body" /\ codec /\ part.state # "ERROR"
  /\ part' = [part EXCEPT !.state = "ERROR"]
  /\ UNCHANGED <<hpc, hdr, codec, reply>>

(* onEOM: onIngressEOM (a field left open is an error), respond(), then  *)
(* ResponseBuilder sends Status and body; or an exception leaves the      *)
(* noexcept callback.                                                     *)
OnEOM ==
  /\ hpc = "body"
  /\ LET p == IF codec /\ part.started /\ part.state = "INCOMPLETE"
                THEN [part EXCEPT !.state = "ERROR"] ELSE part
     IN /\ part' = p
        /\ \E r \in Respond(hdr, p) :
             IF r = Crash THEN hpc' = "terminated" /\ reply' = None
                          ELSE hpc' = "sent" /\ reply' = r
  /\ UNCHANGED <<hdr, codec>>

(* requestComplete after the response, or onError at any time (the       *)
(* client went away): delete this.                                        *)
Delete ==
  /\ hpc \in {"wait", "body", "sent"}
  /\ hpc' = "done"
  /\ UNCHANGED <<hdr, codec, part, reply>>

Next == OnRequest \/ FieldStart \/ FieldEnd \/ CodecError \/ OnEOM \/ Delete

Spec == Init /\ [][Next]_vars

-----------------------------------------------------------------------------
(* spec.md 7: a malformed request, a missing field or a failing handler   *)
(* is answered with a text error; dispatch handlers catch the errors. No  *)
(* request, however malformed, ends the server (no exception leaves the   *)
(* noexcept onEOM through finalise or a handle_* method).                 *)
ServerSurvives == hpc # "terminated"

=============================================================================
