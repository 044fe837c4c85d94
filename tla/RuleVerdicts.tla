---------------------------- MODULE RuleVerdicts ----------------------------
(***************************************************************************)
(* The two evaluators of a cleanup rule (core/rule_engine.py).  A rule is  *)
(* a group of groups of conditions, each node with its own "enabled" flag; *)
(* the tree may be deeper in the code, where every level repeats what is   *)
(* said of a group here, and a condition of the root is a group of one.    *)
(* What an operator and its operand say of a value is abstracted to the    *)
(* set of values the condition accepts; a value no source could tell is    *)
(* Unavailable, and no operator accepts it.                                *)
(***************************************************************************)
CONSTANT Unavailable    \* RULE_VALUE_UNAVAILABLE

Condition(Field, Value) ==
  [enabled : BOOLEAN, field : Field, accepts : SUBSET (Value \ {Unavailable})]

Group(Field, Value) ==
  [enabled : BOOLEAN, op : {"and", "or"},
   nodes : (SUBSET Condition(Field, Value)) \ {{}}]

\* The shape validate_rule_definition checks; a rule with nothing switched on is
\* refused there, and fails below.
Definition(Field, Value) ==
  [enabled : BOOLEAN, op : {"and", "or"},
   nodes : (SUBSET Group(Field, Value)) \ {{}}]

Active(node) == {n \in node.nodes : n.enabled}

HasEnabledCondition(root) ==
  root.enabled /\ \E g \in Active(root) : Active(g) # {}

\* Conditions under a node that is switched off are not counted.
UsesAny(root, fields) ==
  root.enabled /\ \E g \in Active(root) : \E c \in Active(g) : c.field \in fields

-----------------------------------------------------------------------------
(* The evaluator that decides matches: a value that is not known fails.    *)

ConditionMatches(c, context) == context[c.field] \in c.accepts

\* A group with every node switched off holds.
GroupMatches(g, context) ==
  \/ Active(g) = {}
  \/ g.op = "and" /\ \A c \in Active(g) : ConditionMatches(c, context)
  \/ g.op = "or" /\ \E c \in Active(g) : ConditionMatches(c, context)

RuleMatches(root, context) ==
  /\ HasEnabledCondition(root)
  /\ \/ root.op = "and" /\ \A g \in Active(root) : GroupMatches(g, context)
     \/ root.op = "or" /\ \E g \in Active(root) : GroupMatches(g, context)

-----------------------------------------------------------------------------
(* The evaluator that tells a failed comparison from a value nobody knows: *)
(* it decides what more to fetch and which protections outlive an outage.  *)

ConditionState(c, context) ==
  IF context[c.field] = Unavailable THEN "unknown"
  ELSE IF context[c.field] \in c.accepts THEN "pass" ELSE "fail"

\* A seeded fault: with "or", what is not known counts as failed.
UnknownFails(op, states) ==
  CASE states = {} -> "pass"
    [] op = "and" /\ states # {} ->
         IF "fail" \in states THEN "fail"
         ELSE IF "unknown" \in states THEN "unknown" ELSE "pass"
    [] op = "or" /\ states # {} -> IF "pass" \in states THEN "pass" ELSE "fail"

Joined(op, states) ==
  CASE states = {} -> "pass"
    [] op = "and" /\ states # {} ->
         IF "fail" \in states THEN "fail"
         ELSE IF "unknown" \in states THEN "unknown" ELSE "pass"
    [] op = "or" /\ states # {} ->
         IF "pass" \in states THEN "pass"
         ELSE IF "unknown" \in states THEN "unknown" ELSE "fail"

GroupState(g, context) ==
  Joined(g.op, {ConditionState(c, context) : c \in Active(g)})

RuleState(root, context) ==
  IF HasEnabledCondition(root)
  THEN Joined(root.op, {GroupState(g, context) : g \in Active(root)})
  ELSE "fail"
=============================================================================
