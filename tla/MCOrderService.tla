---------------------------- MODULE MCOrderService ----------------------------
(* An instance of module OrderService for TLC: three UIDs for a cache of two *)
(* entries, and a second, oversized order under the first UID; the sizes are *)
(* the ones the size calculator computes.                                    *)
EXTENDS OrderService, SizeOf, TLC

CONSTANTS r1, r2

\* An order with n items, and the array that append has given room for one
\* more.
Item == Struct(<<String(2), Scalar(8)>>)
NoItem == Struct(<<String(0), Scalar(8)>>)
OrderOf(n) ==
    <<Struct(<<String(1), Slice(2, n), Pointer(Nil)>>),
      Array([i \in 1 .. n + 1 |-> IF i <= n THEN Item ELSE NoItem])>>

Order(uid, size, rev) == [uid |-> uid, size |-> size, rev |-> rev]

MCOrders == {Order("a", 107, 1), Order("a", 159, 2), Order("b", 107, 1), Order("c", 133, 1)}

ASSUME SizesAreComputed ==
    {o.size : o \in MCOrders} = {SizeOf(OrderOf(n), Pointer(1)) : n \in 1 .. 3}

RequestSymmetry == Permutations(Requests)

-----------------------------------------------------------------------------
\* Value graphs over a struct and an array: pointers to the struct, to its
\* fields and to the elements, and slices of the array, that share what they
\* lead to or lead back to themselves or to one another.
Pointers == {Pointer(Nil), Pointer(1)} \cup {PointerInto(a, i) : a, i \in 1 .. 2}
Refs == Pointers \cup {Slice(2, n) : n \in 1 .. 2}
Structs ==
    {Struct(<<p, q>>) : p, q \in Refs}
        \cup {Struct(<<String(3), Map(<<String(1), p, String(2), q>>)>>) : p, q \in Refs}
Arrays ==
    {Array(<<p, q>>) : p, q \in Pointers}
        \cup {Array(<<Struct(<<String(1), p>>), Struct(<<String(2), q>>)>>) : p, q \in Pointers}

\* A struct is reached by a pointer to its first field too.
FirstFieldMet(heap, v) ==
    LET met == RefsMet(heap, v)
    IN  \E i \in DOMAIN met :
            met[i].kind = "ptr" /\ met[i].part = 1 /\ heap[met[i].to].kind = "struct"

\* Pointers go to whole variables, and no two slices share an array.
NoAliases(heap, v) ==
    LET met == RefsMet(heap, v)
    IN  /\ \A i \in DOMAIN met : met[i].kind = "ptr" => met[i].part = 0
        /\ \A i, j \in DOMAIN met :
             met[i].kind = "slice" /\ met[j].kind = "slice" /\ met[i].to = met[j].to => i = j

\* SizeOf of calculator.go comes to an end, and never returns less than the
\* memory a value reaches, however its pointers share, lead into one another's
\* targets or form cycles, and in whatever order the entries of a map come: the
\* cap that Insert compares it with does bound the memory of an entry.  It
\* returns more only where pointers go into a struct or an array (as one of
\* time.Location does) or slices share one, which it counts once for each, and
\* could return less only where a pointer to a first field comes before one to
\* its struct, which no order has.  The calculator keeps no state: it is tried on all
\* the graphs where App.New finds an empty table.
SizeOfCovers ==
    phase = "query" /\ recent = <<>> =>
        \A s \in Structs, a \in Arrays, v \in Refs :
            /\ ~FirstFieldMet(<<s, a>>, v) => SizeOf(<<s, a>>, v) >= DeepSize(<<s, a>>, v)
            /\ NoAliases(<<s, a>>, v) => SizeOf(<<s, a>>, v) = DeepSize(<<s, a>>, v)
=============================================================================
