-------------------------- MODULE MCRegistrations --------------------------
(* Two subscriptions: one with any of the filters below, one with a few.   *)
EXTENDS FilteredRegistrations, TLC

CONSTANTS s1, s2

MCSubs == {s1, s2}

MCFieldTypes ==
  ("FILE_OPEN" :> ("filename" :> "STRING" @@ "flags" :> "SINT32")) @@
  ("KERNEL_ENTER" :> ("arg" :> "UINT64")) @@
  ("KERNEL_EXIT" :> ("ret" :> "SINT64")) @@
  ("CONNECT_ATTEMPT" :> ("fd" :> "UINT64" @@ "sa_family" :> "UINT16")) @@
  ("ACCEPT_RESULT" :> ("ret" :> "SINT64")) @@
  ("PROCESS_FORK" :> ("child_pid" :> "SINT32")) @@
  ("PROCESS_EXEC" :> ("filename" :> "STRING")) @@
  ("PROCESS_EXIT" :> ("code" :> "SINT64")) @@
  ("SYSCALL_ENTER" :> ("id" :> "SINT64" @@ "arg0" :> "UINT64")) @@
  ("SYSCALL_EXIT" :> ("id" :> "SINT64" @@ "ret" :> "SINT64"))

Integers4 == {0, 1, 2, 3}
MCFieldValues ==
  [t \in {"SINT32", "UINT64", "UINT16", "SINT64"} |-> Integers4] @@
  ("STRING" :> {<<"a">>, <<"b", "a">>, <<"b", "c">>})

\* Kernels: with everything, with the older names, and without the tracepoint
\* of the dummy event or without the kprobe it is for.
NetworkNames == {NetworkEvents[i][1] : i \in DOMAIN NetworkEvents}
CommonNames  == NetworkNames \cup
  {"do_sys_open", "sched/sched_process_fork", "sched/sched_process_exec", "do_exit",
   "raw_syscalls/sys_exit", "symbol"}
MCKernels ==
  {CommonNames \cup {"fs/do_sys_open", "raw_syscalls/sys_enter", "syscall_trace_enter_phase1", "syscall_trace_enter"},
   CommonNames \cup {"raw_syscalls/sys_enter", "syscall_trace_enter"},
   CommonNames \cup {"syscall_trace_enter_phase1"},
   CommonNames \cup {"raw_syscalls/sys_enter"}}

-----------------------------------------------------------------------------
Name(n)    == Identifier(n)
Str(v)     == Value(NewValue("STRING", v))
Num(t, v)  == Value(NewValue(t, v))
Cmp(op, n, value) == Binary(op, Name(n), value)
Both(S, T) == {LogicalAnd(l, r) : l \in S, r \in T} \cup {LogicalOr(l, r) : l \in S, r \in T}

\* Comparisons of an integer field, the last ones unfit for the kernel.
Comparisons(n, t) ==
  {Cmp("EQ", n, Num(t, 1)), Cmp("NE", n, Num(t, 2)), Cmp("GT", n, Num(t, 1)), Cmp("LE", n, Num(t, 1)),
   Cmp("BITWISE_AND", n, Num(t, 2)),
   Binary("NE", Cmp("BITWISE_AND", n, Num(t, 1)), Num(t, 0))}
Unfit(n, t) ==
  {Binary("NE", Cmp("BITWISE_AND", n, Num(t, 3)), Num(t, 2)),
   Unary("IS_NULL", Name(n)), Unary("IS_NOT_NULL", Name(n)), Name(n), Binary("EQ", Num(t, 1), Name(n)),
   Cmp("EQ", n, Value(True)), Cmp("EQ", "", Num(t, 1)), Cmp("EQ", n, Nil),
   Cmp("LT", n, Value([NewValue("STRING", <<>>) EXCEPT !.type = t])),
   Cmp("EQ", n, LogicalOr(Cmp("EQ", n, Num(t, 1)), Cmp("EQ", n, Num(t, 2)))),
   Operandless("EQ"), LogicalAnd(Cmp("EQ", n, Num(t, 1)), Operandless("LOGICAL_OR"))}
StringTests(n) ==
  {Cmp("EQ", n, Str(<<"a">>)), Cmp("LIKE", n, Str(<<"b", "*">>)), Cmp("LIKE", n, Str(<<"*", "a">>)),
   Cmp("LIKE", n, Str(<<"*">>)), Cmp("NE", n, Str(<<"b", "c">>)), Cmp("LIKE", n, Str(<<"*", "c", "*">>))}

FileFilter(filename, pattern, flags, mode, expr) ==
  [type |-> "FILE_OPEN", filename |-> filename, pattern |-> pattern, flags |-> flags, mode |-> mode, expr |-> expr]
FileExprs ==
  LET flags == Comparisons("flags", "SINT32")
      names == StringTests("filename")
  IN  {Nil} \cup flags \cup names \cup Unfit("flags", "SINT32") \cup Both(names, {Cmp("GT", "flags", Num("SINT32", 1)), Binary("NE", Cmp("BITWISE_AND", "flags", Num("SINT32", 1)), Num("SINT32", 0))})
      \cup Both(Both({Cmp("EQ", "filename", Str(<<"a">>))}, {Cmp("EQ", "flags", Num("SINT32", 1))}),
                {Cmp("GT", "flags", Num("SINT32", 1))})
      \cup Both({Cmp("GT", "flags", Num("SINT32", 1))},
                Both({Cmp("EQ", "filename", Str(<<"a">>))}, {Cmp("EQ", "flags", Num("SINT32", 1))}))
FileRequests ==
  {{FileFilter(Nil, Nil, Nil, Nil, e)} : e \in FileExprs}
  \cup {{FileFilter(Str(<<"a">>), Str(<<"b", "*">>), f, Nil, e)} : e \in Comparisons("flags", "SINT32"), f \in {Nil, Num("SINT32", 2)}}
  \cup {{FileFilter(Nil, Str(<<"b", "*">>), Num("SINT32", 1), Nil, Cmp("EQ", "flags", Num("SINT32", 3)))},
        {FileFilter(Nil, Nil, Num("SINT32", 1), Num("SINT32", 2), Nil)}}
  \cup {{FileFilter(Nil, Nil, Nil, Nil, e), FileFilter(Str(<<"b", "c">>), Nil, Nil, Nil, Nil)} :
          e \in {Nil} \cup Comparisons("flags", "SINT32") \cup Unfit("flags", "SINT32")}

KernelFilter(type, symbol, expr) == [type |-> type, symbol |-> symbol, expr |-> expr]
KernelRequests ==
  {{KernelFilter("KERNEL_ENTER", "symbol", e)} : e \in {Nil} \cup Comparisons("arg", "UINT64") \cup Unfit("arg", "UINT64")}
  \cup {{KernelFilter("KERNEL_EXIT", "symbol", Nil), KernelFilter("KERNEL_ENTER", "2nd", Nil)},
        {KernelFilter("KERNEL_EXIT", "other", Nil)}}

NetworkFilterOf(type, expr) == [type |-> type, expr |-> expr]
NetworkRequests ==
  LET exprs == {Nil} \cup Comparisons("fd", "UINT64") \cup Unfit("fd", "UINT64")
  IN  {{NetworkFilterOf("CONNECT_ATTEMPT", e), NetworkFilterOf("CONNECT_ATTEMPT", Cmp("EQ", "sa_family", Num("UINT16", 2)))} : e \in exprs}
      \cup {{NetworkFilterOf("ACCEPT_RESULT", Cmp("EQ", "ret", Num("SINT64", 0))), NetworkFilterOf("CONNECT_ATTEMPT", e)} : e \in exprs}

ProcessFilter(type, filename, pattern, code, expr) ==
  [type |-> type, filename |-> filename, pattern |-> pattern, code |-> code, expr |-> expr]
ProcessRequests ==
  {{ProcessFilter("PROCESS_FORK", Nil, Nil, Nil, Nil), ProcessFilter("PROCESS_EXEC", Nil, Nil, Nil, e)} :
     e \in {Nil} \cup StringTests("filename")}
  \cup {{ProcessFilter("PROCESS_EXIT", Nil, Nil, c, e)} : c \in {Nil, Num("SINT32", 1)}, e \in {Nil} \cup Comparisons("code", "SINT64")}
  \cup {{ProcessFilter("PROCESS_EXEC", Str(<<"a">>), Nil, Nil, Nil), ProcessFilter("PROCESS_EXEC", Nil, Str(<<"b", "*">>), Nil, Nil)}}

SyscallFilter(type, id, ret, expr) == [type |-> type, id |-> id, ret |-> ret, expr |-> expr]
SyscallRequests ==
  LET ids  == {Cmp("EQ", "id", Num("SINT64", i)) : i \in {1, 2}}
      args == Comparisons("arg0", "UINT64")
      rets == Comparisons("ret", "SINT64")
      one  == Cmp("GT", "id", Num("SINT64", 2))
      bare == {Operandless("EQ"), Operandless("LOGICAL_OR")}
      two  == {Cmp("LE", "arg0", Num("UINT64", 1)), Cmp("BITWISE_AND", "arg0", Num("UINT64", 2))}
  IN  {{SyscallFilter("SYSCALL_ENTER", Num("SINT64", 1), Nil, e)} : e \in {Nil} \cup args}
      \cup {{SyscallFilter("SYSCALL_ENTER", Nil, Nil, e)} :
              e \in {Nil} \cup args \cup ids \cup Both(ids, two) \cup Both(ids, ids) \cup Both(two, Both(ids, ids))
                    \cup Both(Both({one}, ids), two)
                    \cup bare \cup Both(bare, ids) \cup Both(ids, bare) \cup Both(two, bare)}
      \cup {{SyscallFilter("SYSCALL_ENTER", Num("SINT64", 1), Nil, e)} : e \in bare}
      \cup {{SyscallFilter("SYSCALL_EXIT", i, r, e)} :
              i \in {Nil, Num("SINT64", 1)}, r \in {Nil, Num("SINT64", 2)}, e \in {Nil} \cup rets \cup ids}

Only(kind, filters) == {[NoRequest EXCEPT ![kind] = f] : f \in filters}

Enter == {SyscallFilter("SYSCALL_ENTER", Num("SINT64", 1), Nil, Nil)}
MCRequests ==
  s1 :> (Only("file", FileRequests) \cup Only("kernel", KernelRequests) \cup Only("network", NetworkRequests)
          \cup Only("process", ProcessRequests) \cup Only("syscall", SyscallRequests)
          \cup {[NoRequest EXCEPT !.file = {FileFilter(Nil, Nil, Nil, Nil, Nil)}, !.syscall = Enter]}) @@
  s2 :> {[NoRequest EXCEPT !.syscall = Enter]}
=============================================================================
