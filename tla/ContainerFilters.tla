-------------------------- MODULE ContainerFilters --------------------------
(***************************************************************************)
(* Containers with the event filters of NewEventStream: the filters of a   *)
(* type are one expression, which is evaluated for the fields of an event  *)
(* of this type.                                                           *)
(***************************************************************************)
EXTENDS Containers, Expressions
LOCAL INSTANCE SequencesExt

FieldTypes ==
  [name |-> "STRING", image_id |-> "STRING", image_name |-> "STRING", host_pid |-> "SINT32",
   exit_code |-> "SINT32", exit_status |-> "UINT32", exit_signal |-> "UINT32", exit_core_dumped |-> "BOOL"]

\* With a bug: all filters of a type have to select an event.
ExprOfAll(filters, type) ==
  FoldLeft(LAMBDA expr, f : LogicalAnd(expr, f.expr), Nil, OfType(filters, type))

ExprOf(filters, type) ==
  FoldLeft(LAMBDA expr, f : LogicalOr(expr, f.expr), Nil, OfType(filters, type))

ValidExpr(expr) == expr = Nil \/ (ValidTree(expr) /\ TypeOf(expr, FieldTypes) # "ERROR")

\* With a bug: one bad filter is as bad as all of them.
FilteredTypesAll(filters) ==
  LET types == {filters[i].type : i \in DOMAIN filters}
  IN  IF \A t \in types : ValidExpr(ExprOf(filters, t)) THEN types ELSE {}

\* The types of events that are let through: one with a bad filter is not.
FilteredTypes(filters) ==
  {t \in {filters[i].type : i \in DOMAIN filters} : ValidExpr(ExprOf(filters, t))}

\* The values of the fields of an event.
Values(fields) == [n \in DOMAIN fields |-> NewValue(FieldTypes[n], fields[n])]

\* What the expression of its type makes of an event.
Verdict(filters, type, fields) ==
  LET value == IF type \notin FilteredTypes(filters) THEN False
               ELSE IF ExprOf(filters, type) = Nil THEN True
               ELSE Evaluate(ExprOf(filters, type), FieldTypes, Values(fields))
  IN  CASE value = Panic -> "panic"
        [] value = Error -> "error"
        [] OTHER         -> IF IsValueTrue(value) THEN "true" ELSE "false"

-----------------------------------------------------------------------------
(* Properties *)

\* Everything an event has a field for: the name, too.
AllFields(e) ==
  LET fields == ConvertEvent(e)
  IN  Values([n \in DOMAIN fields \cup {"name"} |-> IF n = "name" THEN e.details.name ELSE fields[n]])

Wants(f, e) == f.type = e.type /\ (f.expr = Nil \/ IsValueTrue(Evaluate(f.expr, FieldTypes, AllFields(e))))

\* Where the code selects something else: a filter of the type has no
\* expression next to one that has, has a bad one, or asks for the name.
Special(filters, type) ==
  LET exprs == {f.expr : f \in Range(OfType(filters, type))}
      names(x) == x.op \in CompareOps /\ x.lhs = Identifier("name")
  IN  (Nil \in exprs /\ exprs # {Nil}) \/ \E x \in exprs : ~ValidExpr(x) \/ names(x)

\* A subscription gets the events that one of its filters selects, and only
\* these, in order.
FiltersAreAUnion ==
  [][\A s \in Subs : taken'[s] = taken[s] + 1 /\ stage'[s] = "open" /\ stage[s] = "open" /\ ~request[s].restricted =>
       LET e == events[taken'[s]]
           r == request[s]
       IN  ~crashed' /\ ~Special(r.filters, e.type) =>
             out'[s] = IF \E f \in Range(r.filters) : Wants(f, e) THEN Append(out[s], taken'[s]) ELSE out[s]]_containerVars

\* The program crashes only on a subscription that asks for no type of events
\* without a bad filter, or for names like a pattern that is only a `*'.
CrashesOnlyOnBadRequests ==
  crashed => \E s \in Subs : stage[s] # "idle" /\
    LET filters == request[s].filters
        star(x) == x.op = "LIKE" /\ x.rhs = Value(NewValue("STRING", <<"*">>))
    IN  \/ \E f \in Range(filters) : star(f.expr)
        \/ \A f \in Range(filters) : \E g \in Range(filters) : g.type = f.type /\ ~ValidExpr(g.expr)
=============================================================================
