---------------------------- MODULE TypeStorage -----------------------------
(***************************************************************************)
(* The type storage of src/sema/storage.cpp.  A type is a pointer to an    *)
(* object, here its number: the first seven are the members of the class,  *)
(* the others are allocated when a type is first asked for and found again *)
(* in one of three tables.  The key of a table is made of pointers, so     *)
(* keys are compared one level deep; equality of types is equality of      *)
(* pointers.  The hash functions of the tables only choose a bucket.       *)
(***************************************************************************)
EXTENDS Naturals, Sequences, FiniteSets

CONSTANTS
  Dims,        \* lists of dimensions
  MaxArity,    \* bound on the arguments of a function and the parts of a tuple
  MaxObjects   \* bound on the objects

ASSUME StorageAssumption ==
  /\ \A d \in Dims : d \in Seq(Nat)
  /\ MaxArity \in Nat /\ MaxObjects \in Nat

VARIABLES
  heap,    \* the objects: a kind, the components (pointers) and the dimensions
  table,   \* function_types, tensor_types, tuple_types: from keys to pointers
  asked,   \* the object that the last call asked for, and
  result,  \* the pointer it returned
  freed    \* how often each object has been deleted, once the storage is gone

vars == <<heap, table, asked, result, freed>>

Base == <<"unknown", "i32", "i64", "f32", "f64", "bool", "void">>
Tables == {"function", "tensor", "tuple"}

\* The object for a key; the key of a table names its fields.
Object(kind, of, dims) == [kind |-> kind, of |-> of, dims |-> dims]

Pointers == DOMAIN heap
Lists(n) == UNION {[1 .. k -> Pointers] : k \in 0 .. n}

\* Fault: the dimensions are not part of the key.
KeyOfElement(object) == [object EXCEPT !.dims = << >>]
Key(object) == object

\* Faults: the new object is not entered in the table; its place is left empty.
EnterNot(kind, key, p) == table
EnterNull(kind, key, p) ==
  [table EXCEPT ![kind] = [k \in DOMAIN @ \cup {key} |-> IF k = key THEN 0 ELSE @[k]]]
Enter(kind, key, p) ==
  [table EXCEPT ![kind] = [k \in DOMAIN @ \cup {key} |-> IF k = key THEN p ELSE @[k]]]

\* insert: what is found is returned, otherwise an object is made.
Get(object) ==
  LET key == Key(object)  kind == object.kind  p == Len(heap) + 1 IN
  /\ freed = << >> /\ asked' = object
  /\ \/ /\ key \in DOMAIN table[kind]
        /\ result' = table[kind][key] /\ UNCHANGED <<heap, table>>
     \/ /\ key \notin DOMAIN table[kind] /\ Len(heap) < MaxObjects
        /\ heap' = Append(heap, object)
        /\ table' = Enter(kind, key, p) /\ result' = p
  /\ UNCHANGED freed

GetFunctionType ==
  \E args \in Lists(MaxArity), ret \in Pointers : Get(Object("function", Append(args, ret), << >>))

\* With no dimensions and a base type it is get_i32_type and the others.
GetTensorType == \E et \in Pointers, dims \in Dims : Get(Object("tensor", <<et>>, dims))

GetTupleType == \E types \in Lists(MaxArity) : Get(Object("tuple", types, << >>))

Entries == UNION {{kind} \X DOMAIN table[kind] : kind \in Tables}

\* ~type_storage deletes what the tables hold.
Destroy ==
  /\ freed = << >>
  /\ freed' = [p \in Pointers |-> Cardinality({e \in Entries : table[e[1]][e[2]] = p})]
  /\ UNCHANGED <<heap, table, asked, result>>

Init ==
  /\ heap = [k \in DOMAIN Base |-> Object(Base[k], << >>, << >>)]
  /\ table = [kind \in Tables |-> << >>]
  /\ result = 1 /\ asked = heap[result] /\ freed = << >>

Next == GetFunctionType \/ GetTensorType \/ GetTupleType \/ Destroy

Spec == Init /\ [][Next]_vars

-----------------------------------------------------------------------------
\* What an object stands for when its components stand for the values v.
Deep(v, object) == [object EXCEPT !.of = [k \in DOMAIN object.of |-> v[object.of[k]]]]

\* The value of each pointer: what it points to, all the way down.
Value == LET value[p \in Pointers] == Deep(value, heap[p]) IN value

Types == INSTANCE TypeValues WITH
  known <- {Value[p] : p \in Pointers}, asked <- Deep(Value, asked), result <- Value[result]

-----------------------------------------------------------------------------
\* Objects have components that existed before them; a table holds pointers to
\* objects of its kind.
TypeOK ==
  /\ \A p \in Pointers : \A k \in DOMAIN heap[p].of : heap[p].of[k] \in 1 .. p - 1
  /\ \A kind \in Tables : \A key \in DOMAIN table[kind] :
       table[kind][key] \in Pointers /\ heap[table[kind][key]].kind = kind
  /\ result \in Pointers

\* The pointer returned is to the object that was asked for.
Answers == heap[result] = asked

\* Pointers with equal values are equal, however deep the types are nested.
Unique == \A p, q \in Pointers : Value[p] = Value[q] => p = q

\* The storage implements TypeValues: every call returns the type it was asked
\* for, and changes no type that it has returned before.
Implements == Types!Spec

\* What was allocated is deleted once, and nothing else is.
FreedOnce ==
  freed # << >> => \A p \in Pointers : freed[p] = IF p \in DOMAIN Base THEN 0 ELSE 1
=============================================================================
