------------------------------ MODULE Filters ------------------------------
(***************************************************************************)
(* What pkg/sensor makes of the event filters of a subscription: which     *)
(* kernel events registerFileEvents, registerKernelEvents,                 *)
(* registerNetworkEvents, registerProcessEvents and registerSyscallEvents  *)
(* register, with which filter, and which API events their decoders return.*)
(*                                                                         *)
(* A filter is a record with its type, its expression and the deprecated   *)
(* fields; one that is not set is Nil.                                     *)
(***************************************************************************)
EXTENDS Expressions
LOCAL INSTANCE SequencesExt

CONSTANT BadSymbols   \* kernel symbols that newKprobeFilter refuses

-----------------------------------------------------------------------------
(* Strings for the kernel *)

\* strings.Join of the strings in parentheses; a map has no order.
Disjunction(strings) ==
  LET join(s, t) == (IF s = <<>> THEN s ELSE s \o <<Tok("LOGICAL_OR")>>) \o InParens(t)
  IN  FoldLeft(join, <<>>, SetToSeq(strings))

\* The expressions that are well-formed and fit for the kernel, as strings.
KernelStrings(exprs) ==
  {KernelFilterString(e) : e \in {x \in exprs : ValidTree(x) /\ ValidKernelTree(x)}}

\* An event to register: the names to try in turn, the filter, or <<>>, and
\* the type of the API event that its decoder returns.
Registration(names, filter, type) == [names |-> names, filter |-> filter, type |-> type]

\* With a bug: a filter without an expression adds nothing to others.
OneEventNarrow(names, type, exprs) ==
  LET strings == KernelStrings(exprs \ {Nil})
  IN  IF strings # {} THEN <<Registration(names, Disjunction(strings), type)>>
      ELSE IF Nil \in exprs THEN <<Registration(names, <<>>, type)>>
      ELSE <<>>

\* One event for all the filters of a type; one without an expression selects
\* everything.
OneEvent(names, type, exprs) ==
  LET strings == KernelStrings(exprs \ {Nil})
  IN  IF Nil \in exprs THEN <<Registration(names, <<>>, type)>>
      ELSE IF strings # {} THEN <<Registration(names, Disjunction(strings), type)>>
      ELSE <<>>

\* A deprecated field is translated to an expression that the filter's own
\* expression restricts further.
Restricted(op, name, value, expr) ==
  IF value = Nil THEN expr ELSE LogicalAnd(Binary(op, Identifier(name), value), expr)

-----------------------------------------------------------------------------
(* Files *)

\* rewriteFileEventFilter: a pattern counts only without a name.
FileExpr(f) ==
  Restricted("BITWISE_AND", "flags", f.flags,
    IF f.filename # Nil THEN Restricted("EQ", "filename", f.filename, f.expr)
    ELSE Restricted("LIKE", "filename", f.pattern, f.expr))

\* The mode is translated with the value of the flags, which are gone by then.
FilePanics(f) == f.type = "FILE_OPEN" /\ f.mode # Nil

FileRegistrations(filters) ==
  OneEvent(<<"fs/do_sys_open", "do_sys_open">>, "FILE_OPEN",
           {FileExpr(f) : f \in {g \in filters : g.type = "FILE_OPEN"}})

-----------------------------------------------------------------------------
(* Kernel function calls *)

\* newKprobeFilter returns a filter.
ValidKprobe(f) ==
  /\ f.symbol \notin BadSymbols
  /\ f.expr # Nil => ValidTree(f.expr)
  /\ f.type \in {"KERNEL_ENTER", "KERNEL_EXIT"}

KernelRegistrations(filters) ==
  LET registration(f) == Registration(<<f.symbol>>, KernelFilterString(f.expr), f.type)
  IN  SetToSeq({registration(f) : f \in {g \in filters : ValidKprobe(g)}})

-----------------------------------------------------------------------------
(* The network *)

\* The events in the order registerNetworkEvents registers them, each with the
\* type of the filters it takes and the type its decoder returns.
NetworkEvents == <<
  <<"syscalls/sys_enter_accept",   "ACCEPT_ATTEMPT">>,   <<"syscalls/sys_exit_accept",    "ACCEPT_RESULT">>,
  <<"syscalls/sys_enter_accept4",  "ACCEPT_ATTEMPT">>,   <<"syscalls/sys_exit_accept4",   "ACCEPT_RESULT">>,
  <<"sys_bind",                    "BIND_ATTEMPT">>,     <<"syscalls/sys_exit_bind",      "BIND_RESULT">>,
  <<"sys_connect",                 "CONNECT_ATTEMPT">>,  <<"syscalls/sys_exit_connect",   "CONNECT_RESULT">>,
  <<"syscalls/sys_enter_listen",   "LISTEN_ATTEMPT">>,   <<"syscalls/sys_exit_listen",    "LISTEN_RESULT">>,
  <<"syscalls/sys_enter_recvfrom", "RECVFROM_ATTEMPT">>, <<"syscalls/sys_enter_recvmsg",  "RECVFROM_ATTEMPT">>,
  <<"syscalls/sys_exit_recvfrom",  "RECVFROM_RESULT">>,  <<"syscalls/sys_exit_recvmsg",   "RECVFROM_RESULT">>,
  <<"sys_sendmsg",                 "SENDTO_ATTEMPT">>,   <<"sys_sendto",                  "SENDTO_ATTEMPT">>,
  <<"syscalls/sys_exit_sendmsg",   "SENDTO_RESULT">>,    <<"syscalls/sys_exit_sendto",    "SENDTO_RESULT">> >>

\* networkFilterSet.add and fullFilterString: the filter for a type, Nil if
\* nobody asked for it.  An expression that prints nothing selects everything.
NetworkFilter(filters, type) ==
  LET strings == {KernelFilterString(f.expr) :
                    f \in {g \in filters : g.type = type /\ (g.expr # Nil => ValidTree(g.expr))}}
  IN  IF strings = {} THEN Nil
      ELSE IF <<>> \in strings THEN <<>>
      ELSE Disjunction(strings)

\* registerNetworkEvents, registerEvent and registerKprobe.
NetworkRegistrations(filters) ==
  LET active == SelectSeq(NetworkEvents, LAMBDA e : NetworkFilter(filters, e[2]) # Nil)
  IN  [i \in DOMAIN active |->
         Registration(<<active[i][1]>>, NetworkFilter(filters, active[i][2]), active[i][2])]

-----------------------------------------------------------------------------
(* Processes *)

\* rewriteProcessEventFilter
ProcessExpr(f) ==
  CASE f.type = "PROCESS_EXEC" ->
         IF f.filename # Nil THEN Restricted("EQ", "filename", f.filename, f.expr)
         ELSE Restricted("LIKE", "filename", f.pattern, f.expr)
    [] f.type = "PROCESS_EXIT" -> Restricted("EQ", "code", f.code, f.expr)
    [] OTHER -> f.expr

ProcessRegistrations(filters) ==
  LET exprs(t) == {ProcessExpr(f) : f \in {g \in filters : g.type = t}}
  IN  (IF exprs("PROCESS_FORK") = {} THEN <<>>
       ELSE <<Registration(<<"sched/sched_process_fork">>, <<>>, "PROCESS_FORK")>>)
      \o OneEvent(<<"sched/sched_process_exec">>, "PROCESS_EXEC", exprs("PROCESS_EXEC"))
      \o OneEvent(<<"do_exit">>, "PROCESS_EXIT", exprs("PROCESS_EXIT"))

-----------------------------------------------------------------------------
(* System calls *)

\* With a bug: either side of an OR will do.
RECURSIVE ContainsIDFilterEither(_)
ContainsIDFilterEither(node) ==
  HasOperands(node) /\
    CASE node.op \in LogicalOps -> ContainsIDFilterEither(node.lhs) \/ ContainsIDFilterEither(node.rhs)
      [] node.op = "EQ"         -> node.lhs = Identifier("id")
      [] OTHER                  -> FALSE

\* Every way to satisfy the expression compares the id.
RECURSIVE ContainsIDFilter(_)
ContainsIDFilter(node) ==
  CASE node.op = "LOGICAL_AND" -> ContainsIDFilter(node.lhs) \/ ContainsIDFilter(node.rhs)
    [] node.op = "LOGICAL_OR"  -> ContainsIDFilter(node.lhs) /\ ContainsIDFilter(node.rhs)
    [] node.op = "EQ"          -> node.lhs = Identifier("id")
    [] OTHER                   -> FALSE

\* containsIDFilter comes before NewExpression refuses a node without operands,
\* and looks at them; it looks at the right one only if that matters.
RECURSIVE IDFilterPanics(_)
IDFilterPanics(node) ==
  /\ node.op \in LogicalOps \cup {"EQ"}
  /\ \/ ~HasOperands(node)
     \/ /\ node.op \in LogicalOps
        /\ \/ IDFilterPanics(node.lhs)
           \/ ContainsIDFilter(node.lhs) = (node.op = "LOGICAL_OR") /\ IDFilterPanics(node.rhs)

\* rewriteSyscallEventFilter
SyscallExpr(f) ==
  LET expr == Restricted("EQ", "id", f.id, f.expr)
  IN  IF f.type = "SYSCALL_EXIT" THEN Restricted("EQ", "ret", f.ret, expr) ELSE expr

\* The events for the filters of a type that compare the id.
SyscallEvent(filters, type, names) ==
  LET exprs == {SyscallExpr(f) : f \in {g \in filters : g.type = type}}
  IN  OneEvent(names, type, {e \in exprs : ContainsIDFilter(e)})

SyscallRegistrations(filters) ==
  SyscallEvent(filters, "SYSCALL_ENTER", <<"syscall_trace_enter_phase1", "syscall_trace_enter">>)
  \o SyscallEvent(filters, "SYSCALL_EXIT", <<"raw_syscalls/sys_exit">>)

-----------------------------------------------------------------------------
(* createPerfEventStream: what a subscription registers, in its order *)

Plan(request) ==
  FileRegistrations(request.file) \o KernelRegistrations(request.kernel)
    \o NetworkRegistrations(request.network) \o ProcessRegistrations(request.process)
    \o SyscallRegistrations(request.syscall)

\* A request on which that crashes; what was registered before goes with the rest.
Panics(request) ==
  \/ \E f \in request.file : FilePanics(f)
  \/ \E f \in request.syscall : IDFilterPanics(SyscallExpr(f))

-----------------------------------------------------------------------------
(* What the filters mean, for the properties *)

\* An expression holds for the fields of a sample: a field that is there is
\* not NULL, and integers are compared whatever their width.
RECURSIVE Selects(_, _)
Selects(node, fields) ==
  CASE node.op = "NIL"         -> TRUE
    [] node.op = "LOGICAL_AND" -> Selects(node.lhs, fields) /\ Selects(node.rhs, fields)
    [] node.op = "LOGICAL_OR"  -> Selects(node.lhs, fields) \/ Selects(node.rhs, fields)
    [] node.op = "IS_NULL"     -> FALSE
    [] node.op = "IS_NOT_NULL" -> TRUE
    [] node.op = "NE" /\ node.lhs.op = "BITWISE_AND" ->
         (Get(fields[node.lhs.lhs.name]) & Get(node.lhs.rhs.value)) # Get(node.rhs.value)
    [] OTHER -> PredicateTruth(node.op, fields[node.lhs.name], node.rhs.value) = "true"

\* What KernelFilterString says differently: an AND with an OR on its left,
\* which the kernel reads the other way round; a test for NULL; and, where
\* ValidateKernelFilter is not called, a bitwise AND that is compared with a
\* value other than 0.
RECURSIVE Misprinted(_)
Misprinted(node) ==
  \/ node.op = "IS_NULL"
  \/ node.op = "NE" /\ node.lhs.op = "BITWISE_AND" /\ Get(node.rhs.value) # 0
  \/ node.op = "LOGICAL_AND" /\ node.lhs.op = "LOGICAL_OR"
  \/ node.op \in LogicalOps /\ (Misprinted(node.lhs) \/ Misprinted(node.rhs))

\* The expressions of the filters of a type that are not refused; Nil selects
\* everything.
Wanted(request, type) ==
  LET of(filters) == {f \in filters : f.type = type}
      fit(exprs) == {e \in exprs : e = Nil \/ (ValidTree(e) /\ ValidKernelTree(e))}
  IN  fit({FileExpr(f) : f \in of(request.file)})
      \cup {f.expr : f \in {g \in of(request.kernel) : ValidKprobe(g)}}
      \cup {f.expr : f \in {g \in of(request.network) : g.expr # Nil => ValidTree(g.expr)}}
      \cup fit({ProcessExpr(f) : f \in of(request.process)})
      \cup {e \in fit({SyscallExpr(f) : f \in of(request.syscall)}) : ContainsIDFilter(e)}
=============================================================================
