---------------------------- MODULE Expressions ----------------------------
(***************************************************************************)
(* The filter expressions of pkg/expression: what NewExpression, Validate  *)
(* and ValidateKernelFilter accept, what Evaluate returns, and what        *)
(* KernelFilterString says to the kernel.                                  *)
(*                                                                         *)
(* A tree is a record with the type of its node, an operand that is not    *)
(* set is Nil; both may be left out together (Operandless).  A string is a *)
(* sequence, a printed expression a sequence of tokens.                    *)
(***************************************************************************)
EXTENDS Integers, Sequences, FiniteSets, Bitwise
LOCAL INSTANCE SequencesExt
LOCAL INSTANCE FiniteSetsExt

CONSTANT BadNames   \* names that are no identifiers: empty, or with other characters

-----------------------------------------------------------------------------
(* Values *)

SignedTypes   == {"SINT8", "SINT16", "SINT32", "SINT64"}
UnsignedTypes == {"UINT8", "UINT16", "UINT32", "UINT64"}
IntegerTypes  == SignedTypes \cup UnsignedTypes
NumericTypes  == IntegerTypes \cup {"DOUBLE", "TIMESTAMP"}
ValueTypes    == NumericTypes \cup {"STRING", "BOOL"}

\* The member of the union that holds the value of a type.
MemberOf(t) == CASE t \in SignedTypes   -> "SIGNED"
                 [] t \in UnsignedTypes -> "UNSIGNED"
                 [] OTHER               -> t

NewValue(t, v) == [type |-> t, union |-> [m \in {MemberOf(t)} |-> v]]
Get(value)     == value.union[MemberOf(value.type)]

\* The type is known and the member that is set is the one of the type.
ValidValue(value) == value.type \in ValueTypes /\ MemberOf(value.type) \in DOMAIN value.union

\* The type a field has when it is not in the values: nullValueType.
Null       == [type |-> "NULL"]
True       == NewValue("BOOL", TRUE)
False      == NewValue("BOOL", FALSE)
Truth(b)   == IF b THEN True ELSE False

\* What evaluating returns when it returns an error, or does not return.
Error      == [type |-> "ERROR"]
Panic      == [type |-> "PANIC"]
Failed(v)  == v \in {Error, Panic}

IsValueTrue(value) ==
  CASE value.type = "STRING"         -> Get(value) # <<>>
    [] value.type \in NumericTypes   -> Get(value) # 0
    [] value.type = "BOOL"           -> Get(value)
    [] OTHER                         -> FALSE

-----------------------------------------------------------------------------
(* Trees *)

LogicalOps == {"LOGICAL_AND", "LOGICAL_OR"}
OrderOps   == {"LT", "LE", "GT", "GE"}
CompareOps == OrderOps \cup {"EQ", "NE", "LIKE"}
NullOps    == {"IS_NULL", "IS_NOT_NULL"}

Nil               == [op |-> "NIL"]
Identifier(name)  == [op |-> "IDENTIFIER", name |-> name]
Value(value)      == [op |-> "VALUE", value |-> value]
Binary(op, l, r)  == [op |-> op, lhs |-> l, rhs |-> r]
Unary(op, x)      == [op |-> op, arg |-> x]
Operandless(op)   == [op |-> op]
HasOperands(node) == "lhs" \in DOMAIN node
Equal(l, r)       == Binary("EQ", l, r)
Like(l, r)        == Binary("LIKE", l, r)
BitwiseAnd(l, r)  == Binary("BITWISE_AND", l, r)

\* If one is missing the other is returned.
LogicalAnd(l, r)  == IF Nil \in {l, r} THEN IF l = Nil THEN r ELSE l ELSE Binary("LOGICAL_AND", l, r)
LogicalOr(l, r)   == IF Nil \in {l, r} THEN IF l = Nil THEN r ELSE l ELSE Binary("LOGICAL_OR", l, r)

\* validateNode: operands are there, and those of a comparison, a test for
\* NULL or a bitwise AND are not logical.
RECURSIVE ValidNode(_, _)
ValidNode(node, logical) ==
  CASE node.op = "IDENTIFIER" -> node.name \notin BadNames
    [] node.op = "VALUE"      -> ValidValue(node.value)
    [] node.op \in LogicalOps ->
         logical /\ HasOperands(node) /\ ValidNode(node.lhs, TRUE) /\ ValidNode(node.rhs, TRUE)
    [] node.op \in CompareOps \cup {"BITWISE_AND"} ->
         HasOperands(node) /\ ValidNode(node.lhs, FALSE) /\ ValidNode(node.rhs, FALSE)
    [] node.op \in NullOps    -> ValidNode(node.arg, FALSE)
    [] OTHER                  -> FALSE

\* NewExpression accepts the tree.
ValidTree(tree) == ValidNode(tree, TRUE)

\* validateTypes: the type of a valid tree whose fields have the types, or
\* "ERROR".
RECURSIVE TypeOf(_, _)
TypeOf(node, types) ==
  LET l == TypeOf(node.lhs, types)
      r == TypeOf(node.rhs, types)
  IN CASE node.op = "IDENTIFIER" -> IF node.name \in DOMAIN types THEN types[node.name] ELSE "ERROR"
       [] node.op = "VALUE"      -> node.value.type
       [] node.op \in LogicalOps -> IF l = "BOOL" /\ r = "BOOL" THEN "BOOL" ELSE "ERROR"
       [] node.op \in CompareOps ->
            IF /\ l = r /\ l # "ERROR"
               /\ node.op \in OrderOps => l \in NumericTypes
               /\ node.op = "LIKE" => l = "STRING"
            THEN "BOOL" ELSE "ERROR"
       [] node.op \in NullOps    -> IF TypeOf(node.arg, types) = "ERROR" THEN "ERROR" ELSE "BOOL"
       [] node.op = "BITWISE_AND" -> IF l \in IntegerTypes /\ l = r THEN l ELSE "ERROR"

-----------------------------------------------------------------------------
(* Evaluate *)

\* pushIdentifier: the value of a field, Null if it has none, an error if the
\* field is not known or the value has the type of another one.
FieldValue(name, types, values) ==
  IF name \notin DOMAIN types THEN Error
  ELSE IF name \notin DOMAIN values THEN Null
  ELSE IF values[name].type # types[name] THEN Error
  ELSE values[name]

\* compareLike: a pattern may begin and end with `*'.  The one that is only a
\* `*' does both, and is sliced from 1 to 0.
LikeResult(s, pattern) ==
  LET star(i) == pattern[i] = "*"
      n == Len(pattern)
  IN  IF n = 0 THEN Truth(s = pattern)
      ELSE IF star(1) /\ star(n)
           THEN IF n = 1 THEN Panic ELSE Truth(SubSeq(pattern, 2, n - 1) \in SubSeqs(s))
      ELSE IF star(1) THEN Truth(IsSuffix(Tail(pattern), s))
      ELSE IF star(n) THEN Truth(IsPrefix(Front(pattern), s))
      ELSE Truth(s = pattern)

OrderResult(op, l, r) ==
  CASE op = "LT" -> l < r
    [] op = "LE" -> l <= r
    [] op = "GT" -> l > r
    [] op = "GE" -> l >= r

\* A comparison of two values that were evaluated.
CompareResult(op, l, r) ==
  IF Null \in {l, r} THEN False
  ELSE IF l.type # r.type THEN Error
  ELSE CASE op = "EQ" -> Truth(Get(l) = Get(r))
         [] op = "NE" -> Truth(Get(l) # Get(r))
         [] op \in OrderOps -> IF l.type \in NumericTypes THEN Truth(OrderResult(op, Get(l), Get(r))) ELSE Error
         [] op = "LIKE" -> IF l.type = "STRING" THEN LikeResult(Get(l), Get(r)) ELSE Error

\* A bitwise AND of two values that were evaluated: NULL & NULL is NULL.
BitwiseResult(l, r) ==
  IF l.type # r.type THEN Error
  ELSE IF l = Null THEN Null
  ELSE IF l.type \in IntegerTypes THEN NewValue(l.type, Get(l) & Get(r))
  ELSE Error

\* evaluateNode: the value it leaves on the stack.
RECURSIVE Evaluate(_, _, _)
Evaluate(node, types, values) ==
  LET l == Evaluate(node.lhs, types, values)
      r == Evaluate(node.rhs, types, values)
      x == Evaluate(node.arg, types, values)
  IN CASE node.op = "IDENTIFIER" -> FieldValue(node.name, types, values)
       [] node.op = "VALUE"      -> node.value
       [] node.op \in LogicalOps -> IF Failed(l) \/ IsValueTrue(l) = (node.op = "LOGICAL_OR") THEN l ELSE r
       [] node.op \in CompareOps \cup {"BITWISE_AND"} ->
            IF Failed(l) THEN l
            ELSE IF Failed(r) THEN r
            ELSE IF node.op = "BITWISE_AND" THEN BitwiseResult(l, r)
            ELSE CompareResult(node.op, l, r)
       [] node.op \in NullOps    -> IF Failed(x) THEN x ELSE Truth((x = Null) = (node.op = "IS_NULL"))
       [] OTHER                  -> Error

-----------------------------------------------------------------------------
(* Filters for the kernel *)

FieldAndValue(node, types) ==
  /\ node.lhs.op = "IDENTIFIER"
  /\ node.rhs.op = "VALUE"
  /\ node.rhs.value.type \in types

\* validateKernelFilterNode, and validateKernelFilterTree for the operands of
\* a logical node and for the root.
RECURSIVE ValidKernelTree(_)
ValidKernelTree(node) ==
  CASE node.op = "IDENTIFIER"      -> TRUE
    [] node.op = "VALUE"           -> node.value.type \in IntegerTypes \cup {"STRING"}
    [] node.op \in LogicalOps      -> ValidKernelTree(node.lhs) /\ ValidKernelTree(node.rhs)
    [] node.op = "EQ"              -> FieldAndValue(node, IntegerTypes \cup {"STRING"})
    [] node.op = "NE"              ->
         IF node.lhs.op = "BITWISE_AND"
         THEN /\ FieldAndValue(node.lhs, IntegerTypes)
              /\ node.rhs.op = "VALUE"
              /\ node.rhs.value.type \in IntegerTypes
              /\ Get(node.rhs.value) = 0
         ELSE FieldAndValue(node, IntegerTypes \cup {"STRING"})
    [] node.op \in OrderOps \cup {"BITWISE_AND"} -> FieldAndValue(node, IntegerTypes)
    [] node.op = "LIKE"            -> FieldAndValue(node, {"STRING"})
    [] OTHER                       -> FALSE

Tok(t)      == [tok |-> t]
InParens(s) == <<Tok("(")>> \o s \o <<Tok(")")>>

\* expressionAsKernelFilterString: of the operands of a logical node only the
\* right one is put in parentheses, a bitwise AND that is compared with zero
\* stands alone, and a test for NULL prints nothing.
RECURSIVE KernelFilterString(_)
KernelFilterString(node) ==
  LET l == KernelFilterString(node.lhs)
      r == KernelFilterString(node.rhs)
  IN CASE node.op = "IDENTIFIER" -> <<[tok |-> "name", name |-> node.name]>>
       [] node.op = "VALUE"      -> <<[tok |-> "value", value |-> node.value]>>
       [] node.op \in LogicalOps ->
            l \o <<Tok(node.op)>> \o (IF node.rhs.op \in LogicalOps THEN InParens(r) ELSE r)
       [] node.op = "NE" /\ node.lhs.op = "BITWISE_AND" -> l
       [] node.op \in CompareOps \cup {"BITWISE_AND"} -> l \o <<Tok(node.op)>> \o r
       [] OTHER                  -> <<>>

-----------------------------------------------------------------------------
(* The kernel's side (external): event filters, where && binds tighter than *)
(* || and a predicate is a field, an operator and a constant.               *)

\* A predicate on the value of a field: "bad" if the kernel refuses it.
PredicateTruth(op, field, value) ==
  LET string == field.type = "STRING"
  IN  IF string # (value.type = "STRING") \/ ~(string \/ value.type \in IntegerTypes) THEN "bad"
      ELSE IF string
      THEN CASE op = "EQ"   -> IF Get(field) = Get(value) THEN "true" ELSE "false"
             [] op = "NE"   -> IF Get(field) # Get(value) THEN "true" ELSE "false"
             [] op = "LIKE" -> IF Get(value) = <<"*">> \/ IsValueTrue(LikeResult(Get(field), Get(value))) THEN "true" ELSE "false"
             [] OTHER       -> "bad"
      ELSE CASE op = "EQ"   -> IF Get(field) = Get(value) THEN "true" ELSE "false"
             [] op = "NE"   -> IF Get(field) # Get(value) THEN "true" ELSE "false"
             [] op = "BITWISE_AND" -> IF (Get(field) & Get(value)) # 0 THEN "true" ELSE "false"
             [] op \in OrderOps    -> IF OrderResult(op, Get(field), Get(value)) THEN "true" ELSE "false"
             [] OTHER       -> "bad"

\* Where a string has the token outside of parentheses.
Splits(s, t) ==
  LET count(u, i) == Cardinality({j \in 1 .. i : s[j] = Tok(u)})
  IN  {i \in DOMAIN s : s[i] = Tok(t) /\ count("(", i) = count(")", i)}

\* What the kernel makes of a filter for a sample with these fields.
RECURSIVE KernelTruth(_, _)
KernelTruth(s, fields) ==
  LET ors  == Splits(s, "LOGICAL_OR")
      ands == Splits(s, "LOGICAL_AND")
      at   == IF ors # {} THEN Max(ors) ELSE Max(ands)
      l    == KernelTruth(SubSeq(s, 1, at - 1), fields)
      r    == KernelTruth(SubSeq(s, at + 1, Len(s)), fields)
  IN  IF ors \cup ands # {}
      THEN IF "bad" \in {l, r} THEN "bad"
           ELSE IF ors # {} THEN IF "true" \in {l, r} THEN "true" ELSE "false"
           ELSE IF "false" \in {l, r} THEN "false" ELSE "true"
      ELSE IF Len(s) > 2 /\ s[1] = Tok("(") /\ s[Len(s)] = Tok(")")
           THEN KernelTruth(SubSeq(s, 2, Len(s) - 1), fields)
      ELSE IF Len(s) = 3 /\ s[1].tok = "name" /\ s[3].tok = "value"
           THEN IF s[1].name \in DOMAIN fields
                THEN PredicateTruth(s[2].tok, fields[s[1].name], s[3].value) ELSE "bad"
      ELSE "bad"
=============================================================================
