----------------------------- MODULE TupleValues -----------------------------
(***************************************************************************)
(* Which lists the data context is to accept for a tuple: what it means    *)
(* for a list to be a value of the declared type, said of the list and its *)
(* declaration alone.                                                      *)
(*                                                                         *)
(* A column is all the values at one place of the declaration: a slot of   *)
(* every element of the arrays around it, or what these have at one depth. *)
(***************************************************************************)
EXTENDS DataContext

ASSUME TupleAssumption ==
  /\ \A type \in Types : type.kind = "tuple" => type.slots # <<>>
  /\ \A x \in DOMAIN Decls : x.base # ""

Column(values, type) == [values |-> values, type |-> type]

IsArray(type) == type.kind = "tuple" /\ type.dims > 0
IsTuple(type) == type.kind = "tuple" /\ type.dims = 0
ElementType(type) == [type EXCEPT !.dims = @ - 1]

OwnShape(v) ==  \* an array of one dimension is a vector
  <<Len(v.vals), IF Len(v.vals) > 1 /\ Len(v.dim) = 1 THEN <<>> ELSE v.dim>>

\* The values are what is declared there: lists of equal length, not 0, lists of
\* the slots, or payloads of one shape without NA.
Sound(column) ==
  LET values == column.values
      type   == column.type IN
  /\ IsArray(type) =>
       /\ \A v \in values : IsUnnamedList(v) /\ v.items # <<>>
       /\ \A v, w \in values : Len(v.items) = Len(w.items)
  /\ IsTuple(type) => \A v \in values : IsUnnamedList(v) /\ Len(v.items) = Len(type.slots)
  /\ type.kind # "tuple" =>
       /\ \A v \in values : v.tag = "atomic" /\ v.kind \in {"int", "real", type.kind} /\ ~Has(v.vals, "na")
       /\ \A v, w \in values : OwnShape(v) = OwnShape(w)

\* The columns next to it: one dimension further in, or of each slot.
Parts(column) ==
  LET values == column.values
      type   == column.type IN
  IF ~Sound(column) THEN {}
  ELSE IF IsArray(type) THEN {Column(UNION {Items(v) : v \in values}, ElementType(type))}
  ELSE IF IsTuple(type) THEN {Column({v.items[s] : v \in values}, type.slots[s]) : s \in DOMAIN type.slots}
  ELSE {}

\* The columns k places further in, for each k, and all of them.
ColumnLevels(column) ==
  LET level[k \in 0..Nesting] == IF k = 0 THEN {column} ELSE UNION {Parts(c) : c \in level[k - 1]}
  IN  level
AllColumns(column) == UNION {ColumnLevels(column)[k] : k \in 0..Nesting}

RegularColumn(column) == \A c \in AllColumns(column) : Sound(c)

\* The value of a tuple variable.
Regular(name, v) == RegularColumn(Column({v}, Decls[name]))

\* The constructor accepts a list for a tuple that is supplied alone exactly when
\* it is a value of that type, however deep the arrays in it are nested.
AcceptedIffRegular ==
  /\ status \in {"built", "stopped"} /\ Len(input) = 1
  /\ input[1].value.tag = "list" /\ input[1].name \in DOMAIN Decls /\ NoEmptyPayload
  => (Built <=> Regular(input[1].name, input[1].value))
=============================================================================
