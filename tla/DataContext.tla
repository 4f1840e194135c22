----------------------------- MODULE DataContext -----------------------------
(***************************************************************************)
(* The data context (src/r_data_context.cpp): what the list of data or     *)
(* initial values an R user supplies becomes before a Stan model reads it. *)
(* Atomic values and data frames are stored under their names.  A list for *)
(* a tuple, or for an array of tuples nested to any depth, is flattened:   *)
(* x.1.2 holds slot 2 of slot 1 of every element of x.                     *)
(*                                                                         *)
(* The calls of flatten_recurse() are steps: what its loops have yet to do *)
(* is the sequence of slots "pending".  The name x.1.2 is its base, "x",   *)
(* and its slots, <<1, 2>>; 0 stands for what follows a dot and is no slot *)
(* of a tuple, as in x.a.  A number is where the user put it and what the  *)
(* code asks of it: whether it is whole and fits an int ("whole"), or not  *)
(* ("part"), or is NA ("na").                                              *)
(***************************************************************************)
EXTENDS Naturals, Sequences, SequencesExt

CONSTANTS
  Inputs,   \* the lists that may be supplied: sequences of [name, value]
  Decls,    \* Decls[x]: the declaration of the tuple variable x
  Types,    \* the declarations, and those of their slots
  Nesting   \* no value is nested deeper

VARIABLES
  input,           \* the list
  at,              \* how many of its elements have been taken up
  pending,         \* the slots of the last of them yet to be flattened
  reserved_names_, \* the names it supplies
  values_,         \* entries by name
  status           \* "names", "adding", "built", or "stopped" by an error

vars == <<input, at, pending, reserved_names_, values_, status>>
-----------------------------------------------------------------------------
Names == [base : STRING, slots : Seq(Nat)]
Dotted(name) == name.slots # <<>>
Dot(name, s) == [name EXCEPT !.slots = Append(@, s)]

\* What fills a window of complex numbers: nothing the user supplied.
Padding == [at |-> <<>>, sort |-> "whole"]
Number  == [at : Seq(Nat), sort : {"whole", "part", "na"}] \ {Padding}

\* shape_product().
Size(shape) ==
  LET size[k \in 0..Len(shape)] == IF k = 0 THEN 1 ELSE size[k - 1] * shape[k]
  IN  size[Len(shape)]

\* A value is atomic, with dim = <<>> for no attribute, a data frame or a list.
Atomic == [tag  : {"atomic"},
           kind : {"int", "lgl", "real", "complex", "chr"},
           vals : Seq(Number),
           dim  : Seq(Nat)]
Frame == [tag : {"frame"}, cols : Seq(Atomic)]
List(values) == [tag : {"list"}, items : Seq(values), named : BOOLEAN]

\* The values k lists deep in v, for each k, and all of them.
Items(v) == IF v.tag = "list" THEN ToSet(v.items) ELSE {}
Levels(v) ==
  LET level[k \in 0..Nesting] == IF k = 0 THEN {v} ELSE UNION {Items(w) : w \in level[k - 1]}
  IN  level
Inside(v) == UNION {Levels(v)[k] : k \in 0..Nesting}

Has(vals, sort) == \E i \in DOMAIN vals : vals[i].sort = sort

\* What R sees to: a dimension attribute agrees with the length of its vector, an
\* integer is whole, and the columns of a data frame are of equal length.
Consistent(v) ==
  /\ v.tag = "atomic" =>
       /\ v.dim # <<>> => Size(v.dim) = Len(v.vals)
       /\ v.kind \in {"int", "lgl"} => ~Has(v.vals, "part")
  /\ v.tag = "frame" => \A c \in DOMAIN v.cols :
       /\ Len(v.cols[c].vals) = Len(v.cols[1].vals)
       /\ v.cols[c].kind = "int" => ~Has(v.cols[c].vals, "part")

ASSUME DataAssumption ==
  /\ Nesting \in Nat
  /\ \A in \in Inputs : \A i \in DOMAIN in : \A v \in Inside(in[i].value) :
       /\ v \in Atomic \cup Frame \cup List(Inside(in[i].value))
       /\ Consistent(v)
       /\ \A w \in Levels(v)[Nesting] : Items(w) = {}
  /\ \A in \in Inputs : in \in Seq([name : Names, value : {in[i].value : i \in DOMAIN in}])
  /\ \A d \in Types : d \in [kind : {"int", "real", "complex", "tuple"}, dims : Nat, slots : Seq(Types)]
  /\ \A x \in DOMAIN Decls : x \in Names /\ ~Dotted(x) /\ Decls[x] \in Types /\ Decls[x].kind = "tuple"
-----------------------------------------------------------------------------
(* Arrays of tuples.                                                       *)

IsUnnamedList(v) == v.tag = "list" /\ ~v.named

AllEqual(s) == \A i \in DOMAIN s : s[i] = s[1]

\* Fault: all elements of a list before those of the next.
FaultyInterleaved(lists, n) ==
  [k \in 1..(Len(lists) * n) |-> lists[((k - 1) \div n) + 1].items[((k - 1) % n) + 1]]

\* The elements of lists of n: the first of each, the second of each and so on.
Interleaved(lists, n) ==
  [k \in 1..(Len(lists) * n) |->
     lists[((k - 1) % Len(lists)) + 1].items[((k - 1) \div Len(lists)) + 1]]

Ragged == [regular |-> FALSE, sizes |-> <<>>, elements |-> <<>>]

\* One dimension more of an array, whose elements so far are lists.
Deeper(array) ==
  LET n == Len(array.elements[1].items) IN
  IF /\ \A i \in DOMAIN array.elements : IsUnnamedList(array.elements[i])
     /\ \A i \in DOMAIN array.elements : Len(array.elements[i].items) = n
  THEN [regular |-> TRUE, sizes |-> Append(array.sizes, n), elements |-> Interleaved(array.elements, n)]
  ELSE Ragged

\* tuple_array_shape() and enumerate_elements(): the sizes of an array of tuples
\* and its elements, outermost index fastest.  Below a size of 0 there is nothing
\* to look at.
Unnest(v, dims) ==
  LET array[k \in 0..dims] ==
        IF k = 0 THEN [regular |-> TRUE, sizes |-> <<>>, elements |-> <<v>>]
        ELSE IF array[k - 1].elements = <<>> THEN array[k - 1] ELSE Deeper(array[k - 1])
  IN  array[dims]
-----------------------------------------------------------------------------
(* Storing.                                                                *)

Stop == [kind |-> "stop"]
EntryOf(kind, vals, dims) == [kind |-> kind, vals |-> vals, dims |-> dims]

\* Fault: the search for NA ends with the search for a value that is not whole.
FaultyStoreNumeric(vals, dims) ==
  LET odd == {i \in DOMAIN vals : vals[i].sort # "whole"} IN
  IF odd = {} THEN EntryOf("ints", vals, dims)
  ELSE IF \E i \in odd : vals[i].sort = "na" /\ \A j \in odd : i <= j THEN Stop
  ELSE EntryOf("reals", vals, dims)

StoreNumeric(vals, dims) ==
  IF \A i \in DOMAIN vals : vals[i].sort = "whole" THEN EntryOf("ints", vals, dims)
  ELSE IF Has(vals, "na") THEN Stop
  ELSE EntryOf("reals", vals, dims)

\* Fault: the values of a tuple slot are stored densely.
FaultyStoreComplex(vals, dims, enclosing) ==
  IF Has(vals, "na") THEN Stop ELSE EntryOf("complexes", vals, dims \o <<2>>)

\* Dense, or in one window of twice the size per enclosing element, which is how
\* the code stanc generates reads the slots of tuples.
StoreComplex(vals, dims, enclosing) ==
  LET elements == Size(SubSeq(dims, 1, enclosing))
      m        == Len(vals) \div elements
      Window(i) == ((i - 1) \div (2 * m)) * m + ((i - 1) % (2 * m)) + 1 IN
  IF Has(vals, "na") THEN Stop
  ELSE IF enclosing > Len(dims) THEN EntryOf("complexes", vals, dims \o <<2>>)
  ELSE IF elements = 0 \/ Len(vals) % elements # 0 THEN Stop
  ELSE EntryOf("complexes",
               [i \in 1..(2 * Len(vals)) |->
                  IF (i - 1) % (2 * m) < m THEN vals[Window(i)] ELSE Padding],
               dims \o <<2>>)

\* add_value().  A dotted name is the leaf of a tuple, so a complex one has
\* windows, of one value each.
AtomicEntry(name, v) ==
  LET n    == Len(v.vals)
      dims == IF v.dim # <<>> THEN v.dim ELSE IF n # 1 THEN <<n>> ELSE <<>> IN
  CASE v.kind \in {"int", "lgl"} ->
         IF Has(v.vals, "na") THEN Stop ELSE EntryOf("ints", v.vals, dims)
    [] v.kind = "real" -> StoreNumeric(v.vals, dims)
    [] v.kind = "complex" ->
         StoreComplex(v.vals, dims, IF Dotted(name) THEN Len(dims) ELSE Len(dims) + 1)
    [] OTHER -> Stop

\* The matrix the columns of a data frame make.
FrameEntry(name, v) ==
  LET kinds == {v.cols[c].kind : c \in DOMAIN v.cols}
      rows  == IF v.cols = <<>> THEN 0 ELSE Len(v.cols[1].vals) IN
  IF ~(kinds \subseteq {"int", "real", "complex"}) THEN Stop
  ELSE AtomicEntry(name,
         [tag |-> "atomic", dim |-> <<rows, Len(v.cols)>>,
          kind |-> IF "complex" \in kinds THEN "complex"
                   ELSE IF "real" \in kinds THEN "real" ELSE "int",
          vals |-> FlattenSeq([c \in DOMAIN v.cols |-> v.cols[c].vals])])

\* Fault: a payload is as long as it is, whatever its dimensions.
FaultyPayloadShape(v) == IF Len(v.vals) > 1 THEN <<Len(v.vals)>> ELSE <<>>

\* payload_shape(): a payload of no values has the shape of a scalar.
PayloadShape(v) ==
  IF v.dim # <<>> THEN v.dim
  ELSE IF Len(v.vals) > 1 THEN <<Len(v.vals)>> ELSE <<>>

\* Fault: only what is already stored is looked at.
FaultyTaken(name) == name \in DOMAIN values_

Taken(name) == name \in reserved_names_ \cup DOMAIN values_

\* flatten_leaf().
LeafEntry(leaf) ==
  LET kinds  == IF leaf.decl.kind = "complex" THEN {"int", "real", "complex"} ELSE {"int", "real"}
      shapes == [i \in DOMAIN leaf.there |-> PayloadShape(leaf.there[i])]
      vals   == FlattenSeq([i \in DOMAIN leaf.there |-> leaf.there[i].vals])
      dims   == leaf.sizes \o shapes[1] IN
  IF \/ Taken(leaf.name)
     \/ leaf.there = <<>>
     \/ \E i \in DOMAIN leaf.there : leaf.there[i].tag # "atomic" \/ leaf.there[i].kind \notin kinds
     \/ ~AllEqual(shapes)
  THEN Stop
  ELSE IF leaf.decl.kind = "complex" THEN StoreComplex(vals, dims, Len(leaf.sizes))
  ELSE StoreNumeric(vals, dims)
-----------------------------------------------------------------------------
Init ==
  /\ input \in Inputs
  /\ at = 0
  /\ pending = <<>>
  /\ reserved_names_ = {}
  /\ values_ = <<>>
  /\ status = IF input = <<>> THEN "built" ELSE "names"

Throw == status' = "stopped" /\ UNCHANGED <<input, at, pending, reserved_names_, values_>>

CheckNames ==
  /\ status = "names"
  /\ \A i, j \in DOMAIN input : input[i].name.base # "" /\ (input[i].name = input[j].name => i = j)
  /\ reserved_names_' = {input[i].name : i \in DOMAIN input}
  /\ status' = "adding"
  /\ UNCHANGED <<input, at, pending, values_>>

NamesThrow ==
  /\ status = "names"
  /\ \E i, j \in DOMAIN input : input[i].name.base = "" \/ (i # j /\ input[i].name = input[j].name)
  /\ Throw

Element == input[at + 1]
More == status = "adding" /\ pending = <<>> /\ at < Len(input)

\* emplace(): an entry that is there already stays.
Emplace(name, entry) ==
  /\ values_' = [n \in DOMAIN values_ \cup {name} |->
                   IF n \in DOMAIN values_ THEN values_[n] ELSE entry]
  /\ UNCHANGED <<input, reserved_names_, status>>

AddPlain ==
  /\ More /\ Element.value.tag # "list"
  /\ LET entry == IF Element.value.tag = "frame" THEN FrameEntry(Element.name, Element.value)
                  ELSE AtomicEntry(Element.name, Element.value) IN
     IF entry = Stop THEN Throw
     ELSE Emplace(Element.name, entry) /\ at' = at + 1 /\ UNCHANGED pending

\* What flatten_recurse() is to do with one slot: its values in each element of
\* the enclosing arrays, and their sizes.
Slot(name, there, sizes, decl) == [name |-> name, there |-> there, sizes |-> sizes, decl |-> decl]

\* flatten_tuple().  A list is only for a variable that is declared a tuple.
AddTuple ==
  /\ More /\ Element.value.tag = "list" /\ Element.name \in DOMAIN Decls
  /\ pending' = <<Slot(Element.name, <<Element.value>>, <<>>, Decls[Element.name])>>
  /\ at' = at + 1
  /\ UNCHANGED <<input, reserved_names_, values_, status>>

ListThrows ==
  /\ More /\ Element.value.tag = "list" /\ Element.name \notin DOMAIN Decls
  /\ Throw

Flattening == status = "adding" /\ pending # <<>>

\* flatten_recurse() on a slot that is no tuple, ...
FlattenLeaf ==
  /\ Flattening /\ Head(pending).decl.kind # "tuple"
  /\ LET entry == LeafEntry(Head(pending)) IN
     IF entry = Stop THEN Throw
     ELSE Emplace(Head(pending).name, entry) /\ pending' = Tail(pending) /\ UNCHANGED at

\* ... and on a tuple or an array of tuples: its elements in each element of the
\* enclosing arrays, one after another, and then the slots of all these.
FlattenTuple ==
  /\ Flattening /\ Head(pending).decl.kind = "tuple"
  /\ LET slot     == Head(pending)
         arrays   == [i \in DOMAIN slot.there |-> Unnest(slot.there[i], slot.decl.dims)]
         inner    == IF arrays = <<>> THEN <<>> ELSE arrays[1].sizes
         elements == FlattenSeq([i \in DOMAIN arrays |-> arrays[i].elements])
         n_slots  == Len(slot.decl.slots) IN
     IF /\ \A i \in DOMAIN arrays : arrays[i].regular /\ arrays[i].sizes = inner
        /\ \A i \in DOMAIN elements : IsUnnamedList(elements[i]) /\ Len(elements[i].items) = n_slots
     THEN /\ pending' = [s \in 1..n_slots |->
                           Slot(Dot(slot.name, s), [i \in DOMAIN elements |-> elements[i].items[s]],
                                slot.sizes \o inner, slot.decl.slots[s])] \o Tail(pending)
          /\ UNCHANGED <<input, at, reserved_names_, values_, status>>
     ELSE Throw

Finish ==
  /\ status = "adding" /\ pending = <<>> /\ at = Len(input)
  /\ status' = "built"
  /\ UNCHANGED <<input, at, pending, reserved_names_, values_>>

Next == CheckNames \/ NamesThrow \/ AddPlain \/ AddTuple \/ ListThrows \/ FlattenLeaf \/ FlattenTuple \/ Finish

Spec == Init /\ [][Next]_vars
-----------------------------------------------------------------------------
(* Properties.                                                             *)

Built == status = "built"

\* The numbers in a value.
Own(v) ==
  CASE v.tag = "atomic" -> ToSet(v.vals)
    [] v.tag = "frame"  -> UNION {ToSet(v.cols[c].vals) : c \in DOMAIN v.cols}
    [] OTHER            -> {}
Numbers(v) == UNION {Own(w) : w \in Inside(v)}

\* A payload without values, a vector[0] in a slot, has the shape of a scalar:
\* what the code makes of it differs from what was declared.
HasEmpty(v) == \E w \in Inside(v) : w.tag = "atomic" /\ w.vals = <<>>
NoEmptyPayload == \A i \in DOMAIN input : input[i].value.tag = "list" => ~HasEmpty(input[i].value)

\* The entries an element of the list is stored in.
Mine(element) ==
  {n \in DOMAIN values_ :
     IF element.value.tag = "list"
     THEN n.base = element.name.base /\ Dotted(n) /\ n \notin reserved_names_
     ELSE n = element.name}
Stored(element) == UNION {ToSet(values_[n].vals) \ {Padding} : n \in Mine(element)}

\* No two of the supplied values share an entry: emplace() never finds its name
\* taken, also when x.1 is supplied beside the tuple x.
NothingLost == Built => \A i \in DOMAIN input : Numbers(input[i].value) = Stored(input[i])

\* A number of a list for a tuple is labelled with the path to it: the indices of
\* the enclosing array, a slot, the indices of the array in the slot and so on, and
\* its index in the payload.  The values such a path leads through:
Reach(v, path) ==
  LET value[k \in 0..Len(path) - 1] == IF k = 0 THEN v ELSE value[k - 1].items[path[k]]
  IN  value

Leads(path, v, number) ==
  LET value == Reach(v, path)
      end   == Len(path) - 1 IN
  /\ path # <<>>
  /\ \A k \in 1..end : value[k - 1].tag = "list" /\ path[k] \in DOMAIN value[k - 1].items
  /\ value[end].tag # "list"
  /\ value[end].tag = "atomic" =>
       Last(path) \in DOMAIN value[end].vals /\ value[end].vals[Last(path)] = number

ASSUME PathAssumption ==
  \A in \in Inputs : \A i \in DOMAIN in : in[i].value.tag = "list" =>
    \A number \in Numbers(in[i].value) : Leads(number.at, in[i].value, number)

\* How far a path has come in the declaration: the part it is at, the array
\* indices it needs there, and the slots and sizes of arrays behind it.  "block"
\* elements of the enclosing arrays come before it, and "inner" of this one, which
\* has "stride" elements as far as its sizes are known.
Position(decl, left, slots, sizes, block, inner, stride) ==
  [decl |-> decl, left |-> left, slots |-> slots, sizes |-> sizes,
   block |-> block, inner |-> inner, stride |-> stride]

Start(decl) == Position(decl, decl.dims, <<>>, <<>>, 0, 0, 1)

\* Column-major within an array, ...
ToElement(p, n, i) ==
  Position(p.decl, p.left - 1, p.slots, Append(p.sizes, n), p.block, p.inner + (i - 1) * p.stride, p.stride * n)

\* ... and all of an inner array before the next element of the outer one.
ToSlot(p, s) ==
  LET slot == p.decl.slots[s] IN
  Position(slot, slot.dims, Append(p.slots, s), p.sizes, p.block * p.stride + p.inner, 0, 1)

Route(v, decl, path) ==
  LET position[k \in 0..Len(path) - 1] ==
        IF k = 0 THEN Start(decl)
        ELSE IF position[k - 1].left > 0
        THEN ToElement(position[k - 1], Len(Reach(v, path)[k - 1].items), path[k])
        ELSE ToSlot(position[k - 1], path[k])
  IN  position

\* Stan's storage of tuples: the number is in the entry of its slot, whose first
\* dimensions are those of the enclosing arrays, at the place where the generated
\* code will look for it, which skips the empty half of the windows of complex ones.
InPlace(name, v, number) ==
  LET end     == Len(number.at) - 1
      place   == Route(v, Decls[name], number.at)[end]
      payload == Reach(v, number.at)[end]
      leaf    == [name EXCEPT !.slots = place.slots]
      entry   == values_[leaf]
      width   == Len(payload.vals) * (IF entry.kind = "complexes" THEN 2 ELSE 1)
      index   == place.block * width + Last(number.at) IN
  /\ leaf \in DOMAIN values_
  /\ SubSeq(entry.dims, 1, Len(place.sizes)) = place.sizes
  /\ index \in DOMAIN entry.vals /\ entry.vals[index] = number

NumbersInPlace ==
  Built /\ NoEmptyPayload => \A i \in DOMAIN input : input[i].value.tag = "list" =>
    \A number \in Numbers(input[i].value) : InPlace(input[i].name, input[i].value, number)

\* An entry has as many values as its dimensions say, two per complex number in
\* the slots of tuples: the generated code reads as many.
LengthsMatchDims ==
  Built /\ NoEmptyPayload => \A n \in DOMAIN values_ :
    LET e == values_[n] IN
    Size(e.dims) = IF e.kind = "complexes" /\ ~Dotted(n) THEN 2 * Len(e.vals) ELSE Len(e.vals)

\* Whatever the order of the values: integers only where all are whole, and no
\* NA reaches Stan.
OnlyCleanNumbers ==
  \A n \in DOMAIN values_ :
    LET vals == values_[n].vals IN
    /\ ~Has(vals, "na")
    /\ values_[n].kind \in {"ints", "reals"} => (values_[n].kind = "ints" <=> ~Has(vals, "part"))
=============================================================================
