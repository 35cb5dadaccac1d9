----------------------- MODULE FilteredRegistrations -----------------------
(***************************************************************************)
(* Registrations with the filters of pkg/sensor: what a subscription       *)
(* registers is the Plan that Filters makes of its request, and the kernel *)
(* takes the filters it can apply to the samples of an event.              *)
(*                                                                         *)
(* The samples are external: they have the fields the kernel describes.    *)
(***************************************************************************)
EXTENDS Registrations, Filters

CONSTANTS
  FieldTypes,   \* type of event :> name :> type of the fields of its samples
  FieldValues   \* type of field :> the values it may have

\* The samples the kernel may write for a type of event.
Samples == [t \in DOMAIN FieldTypes |->
  LET values(n) == {NewValue(FieldTypes[t][n], v) : v \in FieldValues[FieldTypes[t][n]]}
      names == DOMAIN FieldTypes[t]
  IN  {f \in [names -> UNION {values(n) : n \in names}] : \A n \in names : f[n] \in values(n)}]

Passes(filter, fields) == filter = <<>> \/ KernelTruth(filter, fields) = "true"

\* The kernel takes the filter for this type of event.
Accepts(filter, type) ==
  filter = <<>> \/ KernelTruth(filter, CHOOSE f \in Samples[type] : TRUE) # "bad"

-----------------------------------------------------------------------------
(* Properties *)

\* An event that is registered selects what the filters of its subscription
\* mean, neither more nor less: the expressions of all filters of its type,
\* with their deprecated fields, are validated, printed, joined, and parsed by
\* the kernel.  Except where an expression is printed as another one.
FiltersKeepTheirMeaning ==
  [][\A e \in registered' \ registered :
       LET wanted == Wanted(request[e.sub], e.type)
       IN  (\A x \in wanted : ~Misprinted(x)) =>
             \A fields \in Samples[e.type] :
               Passes(e.filter, fields) <=> \E x \in wanted : Selects(x, fields)]_vars

\* The value is one that the filter compares the id with.
ComparesID(filter, value) ==
  \E i \in 3 .. Len(filter) :
    /\ filter[i].tok = "value" /\ Get(filter[i].value) = Get(value)
    /\ filter[i - 2] = [tok |-> "name", name |-> "id"]

\* `No wildcard filters for now': whatever expressions a subscription comes
\* with, its system call events let only samples through whose id they name,
\* as every way to satisfy them compares the id.  Except where an expression
\* is printed as another one.
SyscallsNeedAnID ==
  [][\A e \in registered' \ registered :
       /\ e.type \in {"SYSCALL_ENTER", "SYSCALL_EXIT"}
       /\ \A x \in Wanted(request[e.sub], e.type) : ~Misprinted(x)
       => /\ e.filter # <<>>
          /\ \A fields \in Samples[e.type] :
               Passes(e.filter, fields) => ComparesID(e.filter, fields["id"])]_vars
=============================================================================
