-------------------------------- MODULE Policies --------------------------------
(***************************************************************************)
(* What the authorization policies of knowledge-api say of a request       *)
(* (authz/engine.rs, policy.rs): matching, conditions and the verdict of a *)
(* list of policies.                                                       *)
(*                                                                         *)
(* Strings that are looked into are sequences, literals are tagged, and a  *)
(* condition tree is a table of named nodes.  Wording and MatchesRegex are *)
(* left out.                                                               *)
(***************************************************************************)
EXTENDS Naturals, Sequences, FiniteSets, SequencesExt

CONSTANTS PolNodes   \* condition nodes, by name

MatchPrincipal(p, e) ==
  \/ e.kind = "Any"
  \/ e.kind = "AnyAuthenticated" /\ p.roles # {}
  \/ e.kind = "Specific" /\ p.type = e.type /\ p.id = e.id
  \/ e.kind = "Role" /\ e.role \in p.roles

MatchAction(a, e) ==
  \/ e.kind = "Any"
  \/ e.kind = "Specific" /\ a.id = e.id
  \/ e.kind = "Prefix" /\ IsPrefix(e.id, a.id)
  \/ e.kind = "AllForResource" /\ a.type = e.type

MatchResource(s, e) ==
  \/ e.kind = "Any"
  \/ e.kind = "Type" /\ s.type = e.type
  \/ e.kind = "Specific" /\ s.type = e.type /\ s.id = e.id
  \/ e.kind = "TypePrefix" /\ s.type \in e.types

Attr(f, a) == IF a \in DOMAIN f THEN <<f[a]>> ELSE << >>

\* The first of some options that is there; an option is << >> or <<value>>.
FirstOf(options) ==
  LET found == FlattenSeq(options) IN IF found = << >> THEN << >> ELSE <<Head(found)>>

\* resolve_context_value: the value of the policy's side; none is an error.
ContextValueOf(v, r) ==
  CASE v.source = "Literal"   -> <<v.literal>>
    [] v.source = "Principal" -> FirstOf(<<Attr(r.principal.attrs, v.name), Attr(r.principal.fields, v.name)>>)
    [] v.source = "Resource"  -> FirstOf(<<Attr(r.resource.attrs, v.name), Attr(r.resource.fields, v.name)>>)
    [] v.source = "Action"    -> Attr(r.action.fields, v.name)
    [] v.source = "Context"   -> Attr(r.extra, v.name)

\* resolve_attr_from_request: of the fields only the owner and the scope.
RequestAttrOf(a, r) ==
  FirstOf(<<Attr(r.principal.attrs, a),
            IF a \in {"owner_id", "scope_id"} THEN Attr(r.resource.fields, a) ELSE << >>,
            Attr(r.resource.attrs, a), Attr(r.extra, a)>>)

Within(t, s) == \E i \in 0 .. Len(s) : IsPrefix(t, SubSeq(s, i + 1, Len(s)))

Both(a, b, type) == a[1] = type /\ b[1] = type

\* compare_values: the policy's value stands left of the operator, and types
\* that do not go with it compare as false, negated operators included.
CompareValues(op, a, b) ==
  \/ op = "Equals" /\ a = b
  \/ op = "NotEquals" /\ a # b
  \/ op = "In" /\ b[1] = "Set" /\ a \in b[2]
  \/ op = "NotIn" /\ b[1] = "Set" /\ a \notin b[2]
  \/ /\ Both(a, b, "String")
     /\ \/ op = "Contains" /\ Within(b[2], a[2])
        \/ op = "NotContains" /\ ~Within(b[2], a[2])
        \/ op = "StartsWith" /\ IsPrefix(b[2], a[2])
        \/ op = "EndsWith" /\ IsSuffix(b[2], a[2])
  \/ /\ Both(a, b, "Integer")
     /\ \/ op = "GreaterThan" /\ a[2] > b[2]
        \/ op = "GreaterThanOrEqual" /\ a[2] >= b[2]
        \/ op = "LessThan" /\ a[2] < b[2]
        \/ op = "LessThanOrEqual" /\ a[2] <= b[2]
\* evaluate_conditions: "true", "false" or "error".  And stops at the first
\* child that is not true, Or at the first that is not false.
ConditionHolds(root, r) ==
  LET holds[n \in DOMAIN PolNodes] ==
        LET c == PolNodes[n]
            \* what decides a conjunction or disjunction: its first such child
            stop(v) == {i \in DOMAIN c.children : holds[c.children[i]] # v}
            first(v) == holds[c.children[CHOOSE i \in stop(v) : \A j \in stop(v) : i <= j]]
            left  == ContextValueOf(c.value, r)
            right == RequestAttrOf(c.attribute, r)
        IN  CASE c.kind = "And" -> IF stop("true") = {} THEN "true" ELSE first("true")
              [] c.kind = "Or"  -> IF stop("false") = {} THEN "false" ELSE first("false")
              [] c.kind = "Not" -> CASE holds[c.children[1]] = "true"  -> "false"
                                     [] holds[c.children[1]] = "false" -> "true"
                                     [] OTHER -> "error"
              [] OTHER -> CASE left = << >>  -> "error"
                            [] right = << >> -> "false"
                            [] OTHER -> IF CompareValues(c.op, left[1], right[1]) THEN "true" ELSE "false"
  IN  holds[root]

\* matches_policy, with the same three answers.
Matches(r, p) ==
  IF /\ MatchPrincipal(r.principal, p.principal)
     /\ MatchAction(r.action, p.action)
     /\ MatchResource(r.resource, p.resource)
  THEN IF p.conditions = "none" THEN "true" ELSE ConditionHolds(p.conditions, r)
  ELSE "false"

Indices(r, ps, effect, answers) ==
  {i \in DOMAIN ps : ps[i].effect = effect /\ Matches(r, ps[i]) \in answers}

\* Mistake: the first policy that matches decides, whatever its effect.
FirstMatchDecides(r, ps) ==
  LET S == {i \in DOMAIN ps : Matches(r, ps[i]) = "true"}
      i == CHOOSE i \in S : \A j \in S : i <= j
  IN  IF S # {} /\ ps[i].effect = "Allow" THEN [allowed |-> TRUE, by |-> {ps[i].id}]
      ELSE [allowed |-> FALSE, by |-> {}]

\* evaluate_policies: a Deny that matches, or cannot be evaluated, refuses;
\* an Allow that matches permits, one that cannot be evaluated is passed over.
Evaluate(r, ps) ==
  LET denies == Indices(r, ps, "Deny", {"true", "error"})
      allows == Indices(r, ps, "Allow", {"true"})
      first(S) == CHOOSE i \in S : \A j \in S : i <= j
  IN  CASE denies # {} -> [allowed |-> FALSE, by |-> {ps[first(denies)].id}]
        [] denies = {} /\ allows # {} -> [allowed |-> TRUE, by |-> {ps[first(allows)].id}]
        [] OTHER -> [allowed |-> FALSE, by |-> {}]
=================================================================================
