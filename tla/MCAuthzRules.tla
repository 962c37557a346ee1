----------------------------- MODULE MCAuthzRules -----------------------------
(* Instances of AuthzRules for TLC. *)
EXTENDS AuthzRules

Every == {"a", "b"}
NoCondition == [p \in {} |-> {}]

Match(methods, paths, format, pointers) ==
    [methods |-> methods, paths |-> paths, format |-> format, pointers |-> pointers]

At(values) == [p \in {"p"} |-> values]

AnyMethod == {"GET", "other"}

\* Rules that include each other along every axis, and rules that only overlap.
Nested ==
    {Match(AnyMethod, {Every}, "any", NoCondition),
     Match({"GET"}, {{"a"}, {"b"}}, "any", NoCondition),
     Match(AnyMethod, {Every}, "opaque", NoCondition),
     Match(AnyMethod, {{"a"}}, "none", NoCondition),
     Match(AnyMethod, {Every}, "json", NoCondition),
     Match(AnyMethod, {{"a"}}, "json", At({"u"})),
     Match(AnyMethod, {Every}, "json", At({"u", "v"}))}

Body(kind, value) == [kind |-> kind, value |-> value]

Bodies ==
    {Body("absent", NoCondition), Body("empty", NoCondition), Body("binary", NoCondition),
     Body("json", NoCondition)}
    \cup {Body("json", [p \in {"p"} |-> v]) : v \in {"u", "v", "w"}}
    \cup {Body("json", [p \in {"p"} |-> "node"])}

Asked == [method : {"GET"}, path : Every, body : Bodies]
    \cup [method : {"other"}, path : {"a"}, body : Bodies]
=============================================================================
