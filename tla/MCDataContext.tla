---------------------------- MODULE MCDataContext ----------------------------
(***************************************************************************)
(* DataContext for three tuple variables.  An input is a value of one of   *)
(* them, built from the sizes of its arrays and the shape of its payloads, *)
(* with at most one place in it spoilt, or a few values side by side.      *)
(***************************************************************************)
EXTENDS TupleValues, FiniteSets

LeafType(kind) == [kind |-> kind, dims |-> 0, slots |-> <<>>]
TupleType(dims, slots) == [kind |-> "tuple", dims |-> dims, slots |-> slots]

Name(base, slots) == [base |-> base, slots |-> slots]
X == Name("x", <<>>)
Y == Name("y", <<>>)
Z == Name("z", <<>>)

MCDecls ==
  [name \in {X, Y, Z} |->
     CASE name = X -> TupleType(1, <<LeafType("real"), TupleType(1, <<LeafType("complex")>>)>>)
       [] name = Y -> TupleType(2, <<TupleType(0, <<LeafType("int"), LeafType("complex")>>)>>)
       [] OTHER    -> TupleType(0, <<TupleType(2, <<LeafType("real")>>)>>)]

RECURSIVE SlotTypes(_)
SlotTypes(d) == {d} \cup UNION {SlotTypes(d.slots[s]) : s \in DOMAIN d.slots}
MCTypes == UNION {SlotTypes(MCDecls[x]) : x \in DOMAIN MCDecls}

At(path, sort) == [at |-> path, sort |-> sort]
Vector(kind, dim, vals) == [tag |-> "atomic", kind |-> kind, dim |-> dim, vals |-> vals]
Nested(items) == [tag |-> "list", items |-> items, named |-> FALSE]

Sizes == {<<1, 2>>, <<2, 1>>, <<2, 2>>, <<2, 3>>, <<2, 0>>, <<0, 1>>}
Shapes == {<<>>, <<2>>, <<2, 1>>}
Spoilers == {"none", "named", "shorter", "longer", "text", "dim", "part", "na", "part na", "empty", "nested"}

\* An integer is whole.
Broad(kind) == IF kind = "int" THEN "real" ELSE kind

\* What becomes of the value v at the path that is spoilt.
Spoil(v, path, how) ==
  CASE v.tag = "list" /\ how = "named"   -> [v EXCEPT !.named = TRUE]
    [] v.tag = "list" /\ how = "shorter" /\ v.items # <<>> -> Nested(Front(v.items))
    [] v.tag = "list" /\ how = "text"    -> Vector("chr", <<>>, <<At(Append(path, 1), "na")>>)
    [] v.tag = "atomic" /\ how = "text"  -> [v EXCEPT !.kind = "chr"]
    [] v.tag = "atomic" /\ how = "nested" ->
         Nested(<<[v EXCEPT !.vals = [k \in DOMAIN v.vals |-> [v.vals[k] EXCEPT !.at = path \o <<1, k>>]]]>>)
    [] v.tag = "atomic" /\ how = "longer" ->
         [v EXCEPT !.dim = <<>>, !.vals = Append(@, [v.vals[1] EXCEPT !.at[Len(v.vals[1].at)] = Len(v.vals) + 1])]
    [] v.tag = "atomic" /\ how = "empty" -> [v EXCEPT !.dim = <<>>, !.vals = <<>>]
    [] v.tag = "atomic" /\ how = "dim"   -> [v EXCEPT !.dim = <<Len(v.vals), 1>>]
    [] v.tag = "atomic" /\ how \in {"part", "na"} -> [v EXCEPT !.kind = Broad(@), !.vals[1].sort = how]
    [] v.tag = "atomic" /\ how = "part na" ->
         [v EXCEPT !.kind = Broad(@), !.vals = [k \in DOMAIN v.vals |->
            [v.vals[k] EXCEPT !.sort = IF k = 1 THEN "part" ELSE IF k = 2 THEN "na" ELSE @]]]
    [] OTHER -> v

\* The value at a path, with arrays of the given sizes (the sizes repeat).
RECURSIVE Value(_, _, _, _, _, _)
Value(path, dims, slots, sizes, shape, spoilt) ==
  LET Spoilt(v) == IF spoilt.path = path THEN Spoil(v, spoilt.path, spoilt.how) ELSE v
      Payload(p, kind) ==
        LET v == Vector(kind, IF Len(shape) > 1 THEN shape ELSE <<>>,
                        [k \in 1..Size(shape) |-> At(Append(p, k), "whole")]) IN
        IF spoilt.path = p THEN Spoil(v, spoilt.path, spoilt.how) ELSE v IN
  IF dims > 0
  THEN Spoilt(Nested([i \in 1..sizes[1] |->
         Value(Append(path, i), dims - 1, slots, Append(Tail(sizes), sizes[1]), shape, spoilt)]))
  ELSE Spoilt(Nested([s \in DOMAIN slots |->
         IF slots[s].kind = "tuple"
         THEN Value(Append(path, s), slots[s].dims, slots[s].slots, sizes, shape, spoilt)
         ELSE Payload(Append(path, s), slots[s].kind)]))

Paths == {<<>>, <<1>>, <<2>>, <<2, 1>>, <<2, 2>>, <<2, 2, 1>>, <<2, 1, 1>>, <<2, 2, 1, 1>>, <<2, 2, 1, 2>>,
          <<1, 2>>, <<1, 1>>, <<1, 2, 1>>, <<1, 2, 2>>, <<2, 2, 2>>, <<1, 2, 2, 1>>, <<1, 2, 1, 1>>}

Tuples(name) ==
  {Value(<<>>, MCDecls[name].dims, MCDecls[name].slots, sizes, shape, [path |-> path, how |-> how]) :
     sizes \in Sizes, shape \in Shapes, path \in Paths, how \in Spoilers}

Alone == UNION {{<<[name |-> name, value |-> v]>> : v \in Tuples(name)} : name \in DOMAIN MCDecls}

Plain(kind, dim, sorts) == Vector(kind, dim, [k \in DOMAIN sorts |-> At(<<0, k>>, sorts[k])])
Sorts == {<<>>, <<"whole">>, <<"whole", "whole">>, <<"part", "whole">>, <<"part", "na">>, <<"na", "part">>}
Columns == [tag |-> "frame", cols |-> <<Plain("int", <<>>, <<"whole", "whole">>),
                                      Vector("real", <<>>, <<At(<<0, 0, 1>>, "part"), At(<<0, 0, 2>>, "whole")>>)>>]
TextFrame == [Columns EXCEPT !.cols[2].kind = "chr"]
PlainValues ==
  {Plain(kind, <<>>, sorts) : kind \in {"real", "complex", "chr"}, sorts \in Sorts}
    \cup {Plain("int", <<>>, sorts) : sorts \in {<<"whole">>, <<"whole", "na">>}}
    \cup {Plain("complex", <<1, 2>>, <<"part", "part">>), Plain("lgl", <<>>, <<"whole">>), Columns, TextFrame}

\* A tuple and a plain value, in both orders, also under the name of a slot and
\* under another with a dot.
Element1 == [name |-> Y, value |-> Value(<<>>, 2, MCDecls[Y].slots, <<2, 1>>, <<2>>, [path |-> <<>>, how |-> "none"])]
Together ==
  UNION {{<<[name |-> n, value |-> v]>>, <<Element1, [name |-> n, value |-> v]>>,
          <<[name |-> n, value |-> v], Element1>>} :
            n \in {Name("w", <<>>), Y, Name("y", <<1, 1>>), Name("y", <<2>>), Name("y", <<0>>), Name("", <<>>)}, v \in PlainValues}

MCInputs == Alone \cup Together \cup {<<>>, <<[name |-> Name("w", <<>>), value |-> Element1.value]>>}
=============================================================================
