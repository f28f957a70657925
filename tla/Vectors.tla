------------------------------- MODULE Vectors -------------------------------
(* The growing vectors of filedb.c: filedb_t and peer_list_t.  Both double   *)
(* their capacity when they are full, and reallocate the block to as many    *)
(* bytes as the capacity counts elements.                                    *)
EXTENDS Integers, Sequences

CONSTANT Initial   \* INITIAL_VECTOR_CAPACITY, which is filedb_new's too

ASSUME InitialAssumption == Initial \in Nat \ {0}

Vector(Item) == [items : Seq(Item), capacity : Nat, bytes : Nat]

\* filedb_new with a malloc of capacity bytes.
NewUnsized(width) == [items |-> <<>>, capacity |-> Initial, bytes |-> Initial]

\* filedb_new, sl_new: a vector of elements that take width bytes each.
New(width) == [items |-> <<>>, capacity |-> Initial, bytes |-> Initial * width]

\* Growing only once the vector has overflowed.
GrownLate(v) == IF Len(v.items) > v.capacity
                THEN [items |-> v.items, capacity |-> 2 * v.capacity, bytes |-> 2 * v.capacity]
                ELSE v

Grown(v) == IF Len(v.items) + 1 > v.capacity
            THEN [items |-> v.items, capacity |-> 2 * v.capacity, bytes |-> 2 * v.capacity]
            ELSE v

\* filedb_insert, sl_insert.
Insert(v, item) == [items    |-> Append(v.items, item),
                    capacity |-> Grown(v).capacity,
                    bytes    |-> Grown(v).bytes]

\* Its elements lie within the block.
InBounds(v, width) == Len(v.items) * width <= v.bytes

\* A vector whose elements do not all lie within its block is at the mercy of the
\* heap: any of them may be overwritten, or what it points to.
Damaged(v, width, junk) ==
  {[v EXCEPT !.items = [k \in DOMAIN @ |-> IF k \in hit THEN junk ELSE @[k]]] :
      hit \in SUBSET (IF InBounds(v, width) THEN {} ELSE DOMAIN v.items)}

\* What the code relies on: a full vector has grown before it is added to.
WellFormed(v) == Len(v.items) <= v.capacity /\ v.capacity >= Initial
===============================================================================
