----------------------------- MODULE MCMcpServer -----------------------------
(* TLC instance of McpServer: one line for every way through the dispatch. *)
EXTENDS McpServer

Str(v)  == [type |-> "string", value |-> v]
Bool(v) == [type |-> "boolean", value |-> v]
NoArgs  == [k \in {} |-> Str("")]
Arg(k, v)          == [x \in {k} |-> v]
Args(k, v, k2, v2) == [x \in {k, k2} |-> IF x = k THEN v ELSE v2]

Line(shape, id, method, params, tool, args) ==
  [shape |-> shape, id |-> id, method |-> method, params |-> params,
   tool |-> tool, args |-> args]

Call(id, tool, args) == Line("request", id, "tools/call", "object", tool, args)

Malformed ==
  { Line("blank", NoId, "none", "none", "none", NoArgs),
    Line("garbage", NoId, "none", "none", "none", NoArgs),
    Line("not_a_request", "1", "none", "none", "none", NoArgs),
    Line("request", "1", "tools/call", "list", "doctor", NoArgs),
    Line("request", "1", "unknown", "object", "none", NoArgs),
    Line("request", NoId, "known", "object", "none", NoArgs),
    Line("request", "2", "known", "list", "none", NoArgs) }

Refused ==
  { Call("1", "fix", NoArgs),
    Call("1", "no such tool", NoArgs),
    Line("request", "1", "tools/call", "bad_arguments", "doctor", NoArgs),
    Call("1", "doctor", Arg("path", Str("app"))),
    Call("1", "which", NoArgs),
    Call("1", "doctor", Arg("refresh", Str("false"))),
    Call("1", "doctor", Arg("project", Str("elsewhere"))),
    Call("1", "explain", Arg("rule_id", Str("no such rule"))) }

Served ==
  { Call("1", "explain", Arg("rule_id", Str("PY001"))),
    Call("1", "doctor", NoArgs),
    Call("2", "which", Arg("tool", Str("python"))),
    Call("2", "which", Args("tool", Str(""), "refresh", Bool(TRUE))),
    Call("2", "agent_readiness", Arg("project", Str("app"))),
    Call("2", "check", Args("project", Str("app"), "refresh", Bool(TRUE))),
    Call(NoId, "info", NoArgs) }

MCAllLines == Malformed \cup Refused \cup Served

(* Those that differ in what the loop does with them: a second line of the *)
(* same shape that is refused or answered in the same way adds nothing.    *)
MCLines ==
  MCAllLines \
    { Line("request", "2", "known", "list", "none", NoArgs),
      Call("1", "no such tool", NoArgs),
      Line("request", "1", "tools/call", "bad_arguments", "doctor", NoArgs),
      Call("1", "doctor", Arg("path", Str("app"))),
      Call("1", "which", NoArgs),
      Call("1", "doctor", Arg("refresh", Str("false"))),
      Call("1", "explain", Arg("rule_id", Str("no such rule"))),
      Call("2", "which", Arg("tool", Str("python"))) }
==============================================================================
