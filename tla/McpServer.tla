------------------------------ MODULE McpServer ------------------------------
(***************************************************************************)
(* The MCP server of devrepro/mcp: `serve_stdio` reads one JSON-RPC line   *)
(* at a time from stdin, `handle_request` dispatches it, and report tools  *)
(* are answered from a `ReportCache` that holds the last scan.             *)
(*                                                                         *)
(* A line is reduced to the fields the code branches on.  A report is      *)
(* reduced to the project it is about and the moment the machine was       *)
(* looked at; the scanner (run_scan) is external, takes time and may       *)
(* raise.                                                                  *)
(***************************************************************************)
EXTENDS Integers, Sequences, FiniteSets

CONSTANTS
  Lines,         \* the lines a client may send
  Ids,           \* JSON-RPC ids
  Root,          \* ServerConfig.root
  Inside,        \* resolved paths at or below the root
  KnownRules,    \* rule ids the catalog can explain
  CacheSeconds,  \* how long a scan stays usable
  MaxLines,      \* bound: lines a client sends
  MaxClock       \* bound: the monotonic clock stops here

ASSUME RootAssumption  == Root \in Inside
ASSUME CacheAssumption == CacheSeconds \in Nat
ASSUME BoundsAssumption == MaxLines \in Nat /\ MaxClock \in Nat

NoId     == "absent"     \* the request has no `id` key: a notification
Null     == "null"       \* JSON null
NoReport == [project |-> "none", observed |-> -1]

(* What json.loads and the branches on its result distinguish. *)
ASSUME LinesAssumption ==
  \A line \in Lines :
    /\ line.shape \in {"blank", "garbage", "not_a_request", "request"}
    /\ line.id \in Ids \cup {NoId}
    /\ line.shape = "request" => line.method \in {"tools/call", "known", "unknown"}
    /\ line.method = "tools/call" => line.params \in {"object", "list", "bad_arguments"}

VARIABLES
  clock,       \* time.monotonic
  phase,       \* "reading" a line, "scanning" for one, "closed" (stdin at EOF),
               \* or "exited" (SystemExit left serve_stdio)
  received,    \* the lines read so far, with the time each was read
  output,      \* the payloads written to stdout
  report,      \* ReportCache._report
  taken_at,    \* ReportCache._taken_at
  now          \* the local of ReportCache.get: the clock before the scan

vars  == <<clock, phase, received, output, report, taken_at, now>>
cache == <<report, taken_at>>

-----------------------------------------------------------------------------
(* The protocol tables.                                                    *)

REFUSED_TOOLS == {"fix", "serve", "server-backup", "server-restore", "init", "generate"}
ProjectTools  == {"doctor", "check", "info", "agent_readiness"}
ReportTools   == ProjectTools \cup {"which"}
tool_definitions == ReportTools \cup {"explain"}

(* inputSchema: the type of each argument a tool takes *)
Properties(tool) ==
  [k \in CASE tool \in ProjectTools -> {"project", "refresh"}
           [] tool = "which"        -> {"tool", "refresh"}
           [] tool = "explain"      -> {"rule_id"}
     |-> IF k = "refresh" THEN "boolean" ELSE "string"]

Required(tool) ==
  CASE tool = "which"         -> {"tool"}
    [] tool = "explain"       -> {"rule_id"}
    [] tool \in ProjectTools  -> {}

(* No unknown argument, every required one, each of its declared type. *)
validate_arguments(tool, args) ==
  /\ DOMAIN args \subseteq DOMAIN Properties(tool)
  /\ Required(tool) \subseteq DOMAIN args
  /\ \A k \in DOMAIN args : args[k].type = Properties(tool)[k]

Argument(args, key, default) == IF key \in DOMAIN args THEN args[key].value ELSE default

(* resolve_within: an absent or empty path is the root. *)
Asked(line) ==
  LET candidate == Argument(line.args, "project", "")
  IN  IF candidate = "" THEN Root ELSE candidate

RefreshAsked(line) == Argument(line.args, "refresh", FALSE)

-----------------------------------------------------------------------------
(* Dispatch.                                                               *)

(* The call reaches ReportCache.get. *)
UsesReport(line) ==
  /\ line.shape = "request"
  /\ line.method = "tools/call" /\ line.params = "object"
  /\ line.tool \in ReportTools
  /\ validate_arguments(line.tool, line.args)
  /\ Asked(line) \in Inside

(* `params` is an object, a list, or an object whose `arguments` is not an *)
(* object ("bad_arguments").                                               *)
CallOutcome(line) ==
  CASE line.params = "list"             -> "internal_error"
    [] line.params = "bad_arguments"    -> "invalid_params"
    [] line.params = "object" ->
         CASE line.tool \in REFUSED_TOOLS -> "invalid_params"
           [] line.tool \notin REFUSED_TOOLS \cup tool_definitions -> "method_not_found"
           [] line.tool \in tool_definitions ->
                CASE ~validate_arguments(line.tool, line.args) -> "invalid_params"
                  [] line.tool = "explain" /\ validate_arguments(line.tool, line.args) ->
                       IF line.args["rule_id"].value \in KnownRules
                       THEN "result" ELSE "invalid_params"
                  [] OTHER -> "confinement_error"

(* What a line that needs no report leads to. *)
Outcome(line) ==
  CASE line.shape = "garbage"                   -> "parse_error"
    [] line.shape = "not_a_request"             -> "invalid_request"
    [] line.shape = "request" ->
         CASE line.method = "tools/call"        -> CallOutcome(line)
           [] line.method = "known"             -> "result"
           [] line.method = "unknown"           -> "method_not_found"

Reply(line, outcome, rep) ==
  [id      |-> IF line.id = NoId THEN Null ELSE line.id,
   outcome |-> outcome,
   report  |-> rep,
   at      |-> clock,
   line    |-> Len(received')]

(* handle_request returns None for a notification whose handling ended in  *)
(* a result or an McpError.  A bad request (raised before the notification *)
(* test) and an unexpected exception are answered by serve_stdio, which    *)
(* does not ask whether there was an id.                                   *)
Silent(line, outcome) ==
  /\ line.id = NoId
  /\ outcome \notin {"parse_error", "invalid_request", "internal_error"}

Respond(line, outcome, rep) ==
  output' = IF Silent(line, outcome) THEN output
            ELSE Append(output, Reply(line, outcome, rep))

(* `which` tests its `tool` argument only after it has the report. *)
ReportOutcome(line) ==
  IF line.tool = "which" /\ line.args["tool"].value = "" THEN "invalid_params" ELSE "result"

Answer(line, rep) ==
  Respond(line, ReportOutcome(line), IF ReportOutcome(line) = "result" THEN rep ELSE NoReport)

-----------------------------------------------------------------------------
(* serve_stdio.                                                            *)

Init ==
  /\ clock = 0
  /\ phase = "reading"
  /\ received = <<>>
  /\ output = <<>>
  /\ report = NoReport
  /\ taken_at = 0
  /\ now = 0

Tick == /\ clock < MaxClock
        /\ clock' = clock + 1
        /\ UNCHANGED <<phase, received, output, cache, now>>

Read(line) ==
  /\ phase = "reading"
  /\ Len(received) < MaxLines
  /\ received' = Append(received, [line |-> line, at |-> clock])

Blank(line) ==
  /\ line.shape = "blank"
  /\ Read(line)
  /\ UNCHANGED <<clock, phase, output, cache, now>>

AnswerWithoutReport(line) ==
  /\ line.shape # "blank"
  /\ ~UsesReport(line)
  /\ Read(line)
  /\ Respond(line, Outcome(line), NoReport)
  /\ UNCHANGED <<clock, phase, cache, now>>

FreshEnough == report # NoReport /\ clock - taken_at < CacheSeconds

(* The cache has one slot: the project asked about plays no part. *)
AnswerFromCache(line) ==
  /\ UsesReport(line)
  /\ Read(line)
  /\ FreshEnough
  /\ ~RefreshAsked(line)
  /\ Answer(line, report)
  /\ UNCHANGED <<clock, phase, cache, now>>

StartScan(line) ==
  /\ UsesReport(line)
  /\ Read(line)
  /\ ~FreshEnough \/ RefreshAsked(line)
  /\ phase' = "scanning"
  /\ now' = clock
  /\ UNCHANGED <<clock, output, cache>>

Current == received[Len(received)].line

ScanReturnsStampedLate ==         \* mutant: _taken_at is the time after the scan
  /\ phase = "scanning"
  /\ \E t \in now..clock : report' = [project |-> Asked(Current), observed |-> t]
  /\ taken_at' = clock
  /\ phase' = "reading"
  /\ UNCHANGED received
  /\ Answer(Current, report')
  /\ UNCHANGED <<clock, now>>

ScanReturnsUnanswered ==          \* mutant: the first answer is lost
  /\ phase = "scanning"
  /\ \E t \in now..clock : report' = [project |-> Asked(Current), observed |-> t]
  /\ taken_at' = now
  /\ phase' = "reading"
  /\ UNCHANGED <<clock, received, output, now>>

(* The machine was looked at at some moment of the scan. *)
ScanReturns ==
  /\ phase = "scanning"
  /\ \E t \in now..clock : report' = [project |-> Asked(Current), observed |-> t]
  /\ taken_at' = now
  /\ phase' = "reading"
  /\ UNCHANGED received
  /\ Answer(Current, report')
  /\ UNCHANGED <<clock, now>>

ScanRaisesFatally ==              \* mutant: a crash takes the server down
  /\ phase = "scanning"
  /\ phase' = "closed"
  /\ UNCHANGED <<clock, received, output, cache, now>>

(* An Exception is answered, and the old report stays. *)
ScanRaises ==
  /\ phase = "scanning"
  /\ phase' = "reading"
  /\ UNCHANGED received
  /\ Respond(Current, "internal_error", NoReport)
  /\ UNCHANGED <<clock, cache, now>>

(* A probe that calls sys.exit raises SystemExit out of run_scan, which is *)
(* no Exception: nothing is answered and the process ends.                 *)
ScanExits ==
  /\ phase = "scanning"
  /\ phase' = "exited"
  /\ UNCHANGED <<clock, received, output, cache, now>>

EndOfInput ==
  /\ phase = "reading"
  /\ phase' = "closed"
  /\ UNCHANGED <<clock, received, output, cache, now>>

Next ==
  \/ Tick
  \/ \E line \in Lines : \/ Blank(line)
                         \/ AnswerWithoutReport(line)
                         \/ AnswerFromCache(line)
                         \/ StartScan(line)
  \/ ScanReturns
  \/ ScanRaises
  \/ ScanExits
  \/ EndOfInput

Spec == Init /\ [][Next]_vars

(* run_scan runs in the server's own thread and returns, raises or exits. *)
FairSpec == Spec /\ WF_vars(ScanReturns \/ ScanRaises \/ ScanExits)

-----------------------------------------------------------------------------
(* Properties.                                                             *)

Reports  == [project : Inside, observed : 0..MaxClock] \cup {NoReport}
Outcomes == {"result", "parse_error", "invalid_request", "method_not_found",
             "invalid_params", "confinement_error", "internal_error"}

(* Every variable holds a value the code could give it. *)
TypeOK ==
  /\ clock \in 0..MaxClock
  /\ phase \in {"reading", "scanning", "closed", "exited"}
  /\ received \in Seq([line : Lines, at : 0..MaxClock])
  /\ output \in Seq([id : Ids \cup {Null}, outcome : Outcomes, report : Reports,
                     at : 0..MaxClock, line : 1..MaxLines])
  /\ report \in Reports
  /\ taken_at \in 0..MaxClock
  /\ now \in 0..MaxClock

Request(reply) == received[reply.line]
Replies        == {output[i] : i \in 1..Len(output)}
ReportReplies  == {r \in Replies : r.report # NoReport}

(* "The report is cached": an answer shows the machine as it was after the *)
(* question was asked, or less than cache_seconds before the answer, also  *)
(* when the scan was slow, and when a later refresh failed.                *)
AnswersAreRecent ==
  \A r \in ReportReplies :
    \/ r.report.observed >= Request(r).at
    \/ r.at - r.report.observed < CacheSeconds

(* "`refresh: true` when you need a fresh scan": the answer comes from a   *)
(* scan made for this request, about the project this request names.       *)
RefreshIsObeyed ==
  \A r \in ReportReplies :
    RefreshAsked(Request(r).line) =>
      /\ r.report.observed >= Request(r).at
      /\ r.report.project = Asked(Request(r).line)

(* "Paths are confined to the root the server was started with": nothing   *)
(* outside it is ever scanned, kept or reported.                           *)
ReportsAreConfined ==
  /\ phase = "scanning" => Asked(Current) \in Inside
  /\ report # NoReport => report.project \in Inside
  /\ \A r \in ReportReplies : r.report.project \in Inside

NeedsReply(i) == received[i].line.shape # "blank" /\ received[i].line.id # NoId

Answered(i) == \E r \in Replies : r.line = i /\ r.id = received[i].line.id

(* The line that is being worked on, or that ended the server. *)
Unsettled == IF phase \in {"scanning", "exited"} THEN {Len(received)} ELSE {}

(* The requests with an id are answered once each, with their id, in the   *)
(* order they arrived, whatever failed on the way (stdio.py:58): only the  *)
(* last line may be without an answer, while it is scanned for or because  *)
(* its scan ended the process.                                             *)
RequestsAnsweredInOrder ==
  /\ \A i, j \in 1..Len(output) : i < j => output[i].line < output[j].line
  /\ \A i \in 1..Len(received) \ Unsettled : NeedsReply(i) => Answered(i)

(* No request is left waiting: whether its scan returns or raises, it is   *)
(* answered, unless that scan called sys.exit and the process is gone      *)
(* (stdio.py:85).                                                          *)
RequestsAreSettled ==
  \A i \in 1..MaxLines :
    (i \in 1..Len(received) /\ NeedsReply(i)) ~> (Answered(i) \/ phase = "exited")

(* "A crash must not take the server down" (stdio.py:85): whatever a scan  *)
(* does, the server ends only when its input does.  `except Exception`     *)
(* does not catch the SystemExit of a probe that calls sys.exit, which     *)
(* run_scan lets through.                                                  *)
SurvivesEveryScan == phase # "exited"

(* "A notification gets no response at all." *)
NotificationsAreSilent ==
  \A r \in Replies : Request(r).line.shape = "request" => Request(r).line.id # NoId

(* "Silently answering about somewhere else is the worst shape a wrong     *)
(* answer can take."                                                       *)
AnswersAreAboutTheProjectAsked ==
  \A r \in ReportReplies : r.report.project = Asked(Request(r).line)

(* A report that is answered with is recent, fresh where that was asked    *)
(* for, and of a project the server was opened for (mcp/protocol.py).      *)
AnswersAreSound == TypeOK /\ AnswersAreRecent /\ RefreshIsObeyed /\ ReportsAreConfined

==============================================================================
