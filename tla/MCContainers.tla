---------------------------- MODULE MCContainers ----------------------------
(* A container, and two subscriptions that ask for various things, or none *)
(* that comes.                                                             *)
EXTENDS ContainerFilters, SequencesExt

CONSTANTS c, s1, s2

MCIds  == {c}
MCSubs == {s1, s2}
MCDetails == [x \in MCIds |-> [name |-> <<"n">>, imageId |-> <<"i">>, image |-> <<"a", "b">>]]

Types == {"CREATED", "RUNNING", "EXITED", "DESTROYED"}

Cmp(op, n, t, v)     == Binary(op, Identifier(n), Value(NewValue(t, v)))
Filter(type, view, expr) == [type |-> type, view |-> view, expr |-> expr]
AllTypes(view)       == SetToSeq({Filter(t, view, Nil) : t \in Types})
For(filters)         == [filters |-> filters, restricted |-> FALSE, ids |-> {}, names |-> {}, imageIds |-> {}, imageGlobs |-> {}]
Only(filters, r)     == [For(filters) EXCEPT !.restricted = TRUE, !.ids = r.ids, !.names = r.names, !.imageIds = r.imageIds,
                                             !.imageGlobs = r.imageGlobs]
By                   == [ids |-> {}, names |-> {}, imageIds |-> {}, imageGlobs |-> {}]

MCRequests ==
  LET pair(r1, r2) == [x \in MCSubs |-> IF x = s1 THEN r1 ELSE r2]
      full   == For(AllTypes("FULL"))
      listed == Only(AllTypes("BASIC"), [By EXCEPT !.ids = MCIds])
      named  == Only(AllTypes("BASIC"), [By EXCEPT !.names = {<<"n">>, <<>>}])
      image  == Only(AllTypes("FULL"), [By EXCEPT !.imageIds = {<<"x">>}, !.imageGlobs = {{}, {<<"a", "b">>}}])
      late   == Only(<<Filter("EXITED", "BASIC", Nil), Filter("DESTROYED", "BASIC", Nil)>>, [By EXCEPT !.names = {<<"n">>}])
      mixed  == For(<<Filter("CREATED", "BASIC", Cmp("LIKE", "image_name", "STRING", <<"a", "*">>)),
                      Filter("CREATED", "FULL", Cmp("EQ", "image_id", "STRING", <<"x">>)),
                      Filter("EXITED", "BASIC", Cmp("EQ", "exit_status", "UINT32", 0)),
                      Filter("EXITED", "BASIC", Cmp("GT", "exit_signal", "UINT32", 1))>>)
      nulls  == For(<<Filter("EXITED", "FULL", LogicalAnd(Cmp("GE", "exit_code", "SINT32", 1),
                                                          Unary("IS_NOT_NULL", Identifier("image_id")))),
                      Filter("RUNNING", "FULL", Unary("IS_NULL", Identifier("exit_code"))),
                      Filter("RUNNING", "BASIC", Cmp("NE", "host_pid", "SINT32", 2))>>)
      byName == For(<<Filter("CREATED", "BASIC", Cmp("EQ", "name", "STRING", <<"n">>)),
                      Filter("EXITED", "BASIC", Cmp("EQ", "exit_core_dumped", "BOOL", TRUE)),
                      Filter("DESTROYED", "BASIC", Cmp("LIKE", "image_name", "STRING", <<"*", "b">>))>>)
      oneBad == For(<<Filter("CREATED", "BASIC", Cmp("EQ", "image", "STRING", <<"n">>)),
                      Filter("DESTROYED", "BASIC", Nil)>>)
      allBad == For(<<Filter("EXITED", "BASIC", Cmp("EQ", "exit_code", "STRING", <<>>)), Filter("EXITED", "BASIC", Nil)>>)
      star   == For(<<Filter("EXITED", "BASIC", Cmp("LIKE", "image_name", "STRING", <<"*">>))>>)
  IN  {pair(full, mixed), pair(image, nulls), pair(named, byName), pair(listed, star), pair(oneBad, late), pair(late, allBad),
       pair(None, None)}

\* The watchers are as far behind as MaxUnread and MaxQueue let them when there
\* are no subscriptions; for those it is the events that matter, not how late
\* they come.
BehindOrSubscribed ==
  \/ \A s \in MCSubs : request[s] = None
  \/ uneven = {} /\ Len(dockerWrites) + Len(ociWrites) + Len(docker) + Len(oci) <= 1
=============================================================================
