-------------------------------- MODULE SizeOf --------------------------------
(***************************************************************************)
(* internal/pkg/sizeof/calculator.go: the recursive estimate of the memory *)
(* an order takes, which LRUCache.Insert compares with its size cap.       *)
(*                                                                         *)
(* A Go value is its kind, the size of its type and the values it is made  *)
(* of.  heap is what lives at each address: a struct, or the array behind  *)
(* a slice; a variable of another type is a struct of one field.  Pointers *)
(* may go to a field or an element, and slices may share an array.  Types  *)
(* whose slices or maps contain themselves without a pointer, for which    *)
(* the code does not end, are left out: no part of an order has one.       *)
(***************************************************************************)
EXTENDS Naturals, Sequences, TLC
LOCAL INSTANCE SequencesExt
LOCAL INSTANCE FiniteSetsExt

Nil == 0    \* no address: addresses are positive

Value(kind, shallow, parts) == [kind |-> kind, shallow |-> shallow, parts |-> parts]

Sum(sizes) == FoldLeft(LAMBDA a, b : a + b, 0, sizes)

(* The kinds the code tells apart, with the type sizes of a 64-bit build.   *)
Scalar(bytes) == Value("other", bytes, <<>>)
String(len) == Value("string", 16, <<>>) @@ [len |-> len]
Map(keysAndValues) == Value("map", 8, keysAndValues)
Inline(kind, parts) == Value(kind, Sum([i \in DOMAIN parts |-> parts[i].shallow]), parts)
Struct(fields) == Inline("struct", fields)
Array(elems) == Inline("array", elems)

\* A pointer to what lives at a, or to its part i > 0, and the first len
\* elements of the array at a.
PointerInto(a, i) == Value("ptr", 8, <<>>) @@ [to |-> a, part |-> i]
Pointer(a) == PointerInto(a, 0)
Slice(a, len) == Value("slice", 24, <<>>) @@ [to |-> a, len |-> len]

\* The value a pointer points to, and its address, which a struct shares with
\* its first field.
Elem(heap, p) == IF p.part = 0 THEN heap[p.to] ELSE heap[p.to].parts[p.part]
UnsafeAddr(p) == <<p.to, IF p.part = 0 THEN 1 ELSE p.part>>

-----------------------------------------------------------------------------
(* The calculator.  visited is a map that every call shares: a call returns *)
(* the size and what visited has become.                                    *)

RECURSIVE sizeOfHeapData(_, _, _)

Sized(size, visited) == [size |-> size, visited |-> visited]

\* sizeOf of a value that has no address: the argument, map keys and values.
sizeOf(heap, v, visited) ==
    LET deep == sizeOfHeapData(heap, v, visited)
    IN  Sized(v.shallow + deep.size, deep.visited)

\* sizeOf of what a pointer points to: counted at the first visit.  Only here
\* an address is looked up or recorded: the elements and fields that the loops
\* below go through have one too, and it is not.
sizeOfElem(heap, p, visited) ==
    IF UnsafeAddr(p) \in visited THEN Sized(0, visited)
    ELSE sizeOf(heap, Elem(heap, p), visited \cup {UnsafeAddr(p)})

\* Mutant: the recursive calls work on copies of visited.
AddOnCopy(total, part) == Sized(total.size + part.size, total.visited)

\* size += ..., after a recursive call.
AddSize(total, part) == Sized(total.size + part.size, part.visited)

sizeOfHeapData(heap, v, visited) ==
    LET deep(part, seen) == sizeOfHeapData(heap, part, seen)
        whole(part, seen) == sizeOf(heap, part, seen)
        \* size starts at first, and a loop adds that of each part.
        loop(size(_, _), first, parts) ==
            FoldLeft(LAMBDA total, part : AddSize(total, size(part, total.visited)),
                     Sized(first, visited), parts)
    IN  CASE v.kind = "ptr" /\ v.to # Nil -> sizeOfElem(heap, v, visited)
          [] v.kind = "string" -> Sized(v.len, visited)
          [] v.kind = "slice" /\ v.to # Nil ->
                loop(deep, heap[v.to].shallow, SubSeq(heap[v.to].parts, 1, v.len))
          [] v.kind = "struct" -> loop(deep, 0, v.parts)
          [] v.kind = "map" -> loop(whole, 0, v.parts)
          [] OTHER -> Sized(0, visited)

SizeOf(heap, v) == sizeOf(heap, v, {}).size

-----------------------------------------------------------------------------
(* What it should return.  Memory is made of cells <<a, i>>: part i of what *)
(* lives at a.                                                              *)

RECURSIVE RefsIn(_), Owns(_), Reach(_, _)

Content(heap, cell) == heap[cell[1]].parts[cell[2]]

\* The pointers and slices in a value, and the bytes it owns besides its
\* type's size when they are not followed.
RefsIn(v) ==
    IF v.kind \in {"ptr", "slice"} THEN (IF v.to = Nil THEN <<>> ELSE <<v>>)
    ELSE FlattenSeq([i \in DOMAIN v.parts |-> RefsIn(v.parts[i])])

Owns(v) ==
    IF v.kind = "string" THEN v.len
    ELSE Sum([i \in DOMAIN v.parts |->
                Owns(v.parts[i]) + (IF v.kind = "map" THEN v.parts[i].shallow ELSE 0)])

Cells(heap, a) == {<<a, i>> : i \in DOMAIN heap[a].parts}

\* The cells that a pointer or slice leads to.
Leads(heap, r) ==
    CASE r.kind = "slice" -> {<<r.to, i>> : i \in 1 .. r.len}
      [] r.kind = "ptr" /\ r.part = 0 -> Cells(heap, r.to)
      [] OTHER -> {<<r.to, r.part>>}

\* All cells that can be reached from a set of them.
Reach(heap, cells) ==
    LET further == UNION {Leads(heap, r) : r \in UNION {ToSet(RefsIn(Content(heap, c))) : c \in cells}}
    IN  IF further \subseteq cells THEN cells ELSE Reach(heap, cells \cup further)

Reached(heap, v) == Reach(heap, UNION {Leads(heap, r) : r \in ToSet(RefsIn(v))})

\* The pointers and slices met on the way, each as often as it occurs.
RefsMet(heap, v) ==
    LET cells == SetToSeq(Reached(heap, v))
    IN  RefsIn(v) \o FlattenSeq([i \in DOMAIN cells |-> RefsIn(Content(heap, cells[i]))])

\* The value, and all the memory that can be reached from it, once; an array
\* takes its room whatever the length of the slice.
DeepSize(heap, v) ==
    LET refs == ToSet(RefsMet(heap, v))
        reached == Reached(heap, v)
        room == UNION {Cells(heap, r.to) : r \in {s \in refs : s.kind = "slice"}}
    IN  v.shallow + Owns(v)
        + MapThenSumSet(LAMBDA c : Owns(Content(heap, c)), reached)
        + MapThenSumSet(LAMBDA c : Content(heap, c).shallow, reached \cup room)
=============================================================================
