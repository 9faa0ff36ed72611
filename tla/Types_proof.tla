---------------------------- MODULE Types_proof -----------------------------
(***************************************************************************)
(* The types of the compiler.  That every object of the type storage is    *)
(* the only one of its kind, components and dimensions, for any dimensions *)
(* and bounds; and that the stages that compute the type of an expression  *)
(* on tensors agree, refuse the same ones but for the gaps, and make       *)
(* kernels that stay in bounds and write apart, for any expressions.       *)
(***************************************************************************)
EXTENDS TypeStorage, TensorCall, Induction, FiniteSetTheorems, TLAPS

(* The type storage. *)

Kinds == {Base[k] : k \in 1 .. 7} \cup Tables
Objects == [kind : Kinds, of : Seq(Nat), dims : Seq(Nat)]

Shaped ==
  /\ heap \in Seq(Objects) /\ Len(heap) >= 7
  /\ DOMAIN table = Tables /\ result \in Pointers
  /\ \A p \in Pointers : \A k \in DOMAIN heap[p].of : heap[p].of[k] \in 1 .. p - 1

\* The members of the class come first.
BaseFirst == \A p \in 1 .. 7 : heap[p] = Object(Base[p], << >>, << >>)

\* A table finds each object that was allocated, and nothing else.
Indexed ==
  \A p \in 8 .. Len(heap) :
    /\ heap[p].kind \in Tables /\ heap[p] \in DOMAIN table[heap[p].kind]
    /\ table[heap[p].kind][heap[p]] = p
Held ==
  \A kind \in Tables : \A key \in DOMAIN table[kind] :
    /\ key.kind = kind /\ table[kind][key] \in 8 .. Len(heap)
    /\ heap[table[kind][key]] = key

IInv == Shaped /\ BaseFirst /\ Indexed /\ Held /\ Answers

-----------------------------------------------------------------------------
LEMMA BaseFacts == /\ DOMAIN Base = 1 .. 7
                   /\ \A p, q \in 1 .. 7 : Base[p] = Base[q] => p = q
                   /\ \A p \in 1 .. 7 : Base[p] \notin Tables
<1>1. DOMAIN Base = 1 .. 7
  BY DEF Base
<1>3. /\ Base[1] = "unknown" /\ Base[2] = "i32" /\ Base[3] = "i64" /\ Base[4] = "f32"
      /\ Base[5] = "f64" /\ Base[6] = "bool" /\ Base[7] = "void"
  BY DEF Base
<1>4. \A p \in 1 .. 7 : p = 1 \/ p = 2 \/ p = 3 \/ p = 4 \/ p = 5 \/ p = 6 \/ p = 7
  OBVIOUS
<1>5. \A p, q \in 1 .. 7 : Base[p] = Base[q] => p = q
  BY <1>3, <1>4
<1>6. \A p \in 1 .. 7 : Base[p] \notin Tables
  BY <1>3, <1>4 DEF Tables
<1> QED
  BY <1>1, <1>5, <1>6

LEMMA InitIInv == Init => IInv
<1> SUFFICES ASSUME Init PROVE IInv
  OBVIOUS
<1>1. heap \in Seq(Objects) /\ Len(heap) = 7
  <2>1. \A k \in 1 .. 7 : Object(Base[k], << >>, << >>) \in Objects
    <3>1. \A k \in 1 .. 7 : Base[k] \in Kinds
      BY DEF Kinds
    <3>2. << >> \in Seq(Nat)
      OBVIOUS
    <3> QED
      BY <3>1, <3>2 DEF Object, Objects
  <2>2. heap = [k \in 1 .. 7 |-> Object(Base[k], << >>, << >>)]
    BY BaseFacts DEF Init
  <2> QED
    BY <2>1, <2>2
<1>2. \A p \in 1 .. 7 : heap[p] = Object(Base[p], << >>, << >>)
  BY BaseFacts DEF Init
<1>3. \A p \in 1 .. 7 : DOMAIN heap[p].of = {}
  BY <1>2 DEF Object
<1>4. \A kind \in Tables : DOMAIN table[kind] = {}
  BY DEF Init
<1>5. Shaped
  BY <1>1, <1>3 DEF Shaped, Init, Pointers
<1> QED
  BY <1>1, <1>2, <1>4, <1>5 DEF IInv, BaseFirst, Indexed, Held, Answers, Init

\* A call keeps the invariant, whatever it asks for.
LEMMA GetKeeps ==
  ASSUME IInv, NEW object \in Objects, object.kind \in Tables,
         \A k \in DOMAIN object.of : object.of[k] \in Pointers,
         Get(object)
  PROVE  IInv'
<1> DEFINE kind == object.kind
           n == Len(heap) + 1
<1>1. CASE object \in DOMAIN table[kind]
  <2>1. UNCHANGED <<heap, table>> /\ result' = table[kind][object] /\ asked' = object
    BY <1>1 DEF Get, Key
  <2>2. result' \in 8 .. Len(heap) /\ heap[result'] = object
    BY <1>1, <2>1 DEF IInv, Held
  <2> QED
    BY <2>1, <2>2 DEF IInv, Shaped, BaseFirst, Indexed, Held, Answers, Pointers
<1>2. CASE object \notin DOMAIN table[kind]
  <2>1. /\ heap' = Append(heap, object) /\ table' = Enter(kind, object, n)
        /\ result' = n /\ asked' = object
    BY <1>2 DEF Get, Key
  <2>2. /\ heap' \in Seq(Objects) /\ Len(heap') = n /\ heap'[n] = object
        /\ \A p \in Pointers : heap'[p] = heap[p]
        /\ Pointers = 1 .. Len(heap) /\ n \in Nat /\ n >= 8
    BY <2>1 DEF IInv, Shaped, Pointers
  <2>3. /\ DOMAIN table' = Tables
        /\ DOMAIN table'[kind] = DOMAIN table[kind] \cup {object}
        /\ table'[kind][object] = n
        /\ \A key \in DOMAIN table[kind] : table'[kind][key] = table[kind][key]
        /\ \A other \in Tables \ {kind} : table'[other] = table[other]
    BY <1>2, <2>1 DEF Enter, IInv, Shaped
  <2>4. Shaped'
    BY <2>1, <2>2, <2>3 DEF IInv, Shaped, Pointers
  <2>5. BaseFirst'
    BY <2>2 DEF IInv, BaseFirst
  <2>6. Indexed'
    <3> SUFFICES ASSUME NEW p \in 8 .. n
                 PROVE  /\ heap'[p].kind \in Tables /\ heap'[p] \in DOMAIN table'[heap'[p].kind]
                        /\ table'[heap'[p].kind][heap'[p]] = p
      BY <2>2 DEF Indexed
    <3>1. CASE p = n
      BY <3>1, <2>2, <2>3
    <3>2. CASE p # n
      BY <3>2, <2>2, <2>3 DEF IInv, Indexed
    <3> QED
      BY <3>1, <3>2
  <2>7. Held'
    <3> SUFFICES ASSUME NEW other \in Tables, NEW key \in DOMAIN table'[other]
                 PROVE  /\ key.kind = other /\ table'[other][key] \in 8 .. n
                        /\ heap'[table'[other][key]] = key
      BY <2>2 DEF Held
    <3>1. CASE other = kind /\ key = object
      BY <3>1, <2>2, <2>3
    <3>2. CASE ~(other = kind /\ key = object)
      <4>1. key \in DOMAIN table[other] /\ table'[other][key] = table[other][key]
        BY <3>2, <2>3
      <4>2. key.kind = other /\ table[other][key] \in 8 .. Len(heap) /\ heap[table[other][key]] = key
        BY <4>1 DEF IInv, Held
      <4> QED
        BY <4>1, <4>2, <2>2
    <3> QED
      BY <3>1, <3>2
  <2>8. Answers'
    BY <2>1, <2>2 DEF Answers
  <2> QED
    BY <2>4, <2>5, <2>6, <2>7, <2>8 DEF IInv
<1> QED
  BY <1>1, <1>2

\* What is asked for: a function, a tensor or a tuple type of types that exist.
LEMMA FunctionObject ==
  ASSUME Shaped, NEW args \in Lists(MaxArity), NEW ret \in Pointers,
         NEW object, object = Object("function", Append(args, ret), << >>)
  PROVE  /\ object \in Objects /\ object.kind \in Tables
         /\ \A k \in DOMAIN object.of : object.of[k] \in Pointers
<1>0. Pointers = 1 .. Len(heap) /\ Len(heap) \in Nat
  BY DEF Shaped, Pointers
<1>1. args \in Seq(Pointers)
  BY StorageAssumption DEF Lists
<1>2. Append(args, ret) \in Seq(Pointers)
  BY <1>1
<1>3. Append(args, ret) \in Seq(Nat) /\ \A k \in DOMAIN Append(args, ret) : Append(args, ret)[k] \in Pointers
  BY <1>0, <1>2
<1>4. << >> \in Seq(Nat) /\ "function" \in Kinds /\ "function" \in Tables
  BY DEF Tables, Kinds
<1> QED
  BY <1>3, <1>4 DEF Object, Objects

LEMMA TensorObject ==
  ASSUME Shaped, NEW et \in Pointers, NEW dims \in Dims,
         NEW object, object = Object("tensor", <<et>>, dims)
  PROVE  /\ object \in Objects /\ object.kind \in Tables
         /\ \A k \in DOMAIN object.of : object.of[k] \in Pointers
<1>0. Pointers = 1 .. Len(heap) /\ Len(heap) \in Nat
  BY DEF Shaped, Pointers
<1>1. dims \in Seq(Nat) /\ "tensor" \in Kinds /\ "tensor" \in Tables
  BY StorageAssumption DEF Tables, Kinds
<1>2. <<et>> \in Seq(Nat) /\ \A k \in DOMAIN <<et>> : <<et>>[k] \in Pointers
  BY <1>0
<1> QED
  BY <1>1, <1>2 DEF Object, Objects

LEMMA TupleObject ==
  ASSUME Shaped, NEW types \in Lists(MaxArity),
         NEW object, object = Object("tuple", types, << >>)
  PROVE  /\ object \in Objects /\ object.kind \in Tables
         /\ \A k \in DOMAIN object.of : object.of[k] \in Pointers
<1>0. Pointers = 1 .. Len(heap) /\ Len(heap) \in Nat
  BY DEF Shaped, Pointers
<1>1. types \in Seq(Pointers)
  BY StorageAssumption DEF Lists
<1>2. << >> \in Seq(Nat) /\ "tuple" \in Kinds /\ "tuple" \in Tables
  BY DEF Tables, Kinds
<1>3. types \in Seq(Nat) /\ \A k \in DOMAIN types : types[k] \in Pointers
  BY <1>0, <1>1
<1> QED
  BY <1>2, <1>3 DEF Object, Objects

LEMMA NextIInv == IInv /\ [Next]_vars => IInv'
<1> SUFFICES ASSUME IInv, [Next]_vars PROVE IInv'
  OBVIOUS
<1>1. CASE GetFunctionType
  BY <1>1, FunctionObject, GetKeeps DEF GetFunctionType, IInv
<1>2. CASE GetTensorType
  BY <1>2, TensorObject, GetKeeps DEF GetTensorType, IInv
<1>3. CASE GetTupleType
  BY <1>3, TupleObject, GetKeeps DEF GetTupleType, IInv
<1>4. CASE Destroy
  BY <1>4 DEF Destroy, IInv, Shaped, BaseFirst, Indexed, Held, Answers, Pointers
<1>5. CASE UNCHANGED vars
  BY <1>5 DEF vars, IInv, Shaped, BaseFirst, Indexed, Held, Answers, Pointers
<1> QED
  BY <1>1, <1>2, <1>3, <1>4, <1>5 DEF Next

LEMMA Invariant == Spec => []IInv
  BY InitIInv, NextIInv, PTL DEF Spec

-----------------------------------------------------------------------------
\* Two objects have the same kind, components and dimensions only if they are
\* one.
Interned == \A p, q \in Pointers : heap[p] = heap[q] => p = q

\* No object is there twice.
LEMMA InternedFromIInv ==
  ASSUME IInv
  PROVE  Interned
<1> SUFFICES ASSUME NEW p \in Pointers, NEW q \in Pointers, heap[p] = heap[q]
             PROVE  p = q
  BY DEF Interned
<1>0. Pointers = 1 .. Len(heap) /\ Len(heap) \in Nat
  BY DEF IInv, Shaped, Pointers
<1>1. CASE p >= 8 /\ q >= 8
  BY <1>0, <1>1 DEF IInv, Indexed
<1>2. \A r \in 1 .. 7 : heap[r].kind = Base[r]
  BY DEF IInv, BaseFirst, Object
<1>3. \A r \in 8 .. Len(heap) : heap[r].kind \in Tables
  BY DEF IInv, Indexed
<1>4. CASE p \in 1 .. 7 \/ q \in 1 .. 7
  <2>1. \A r \in 1 .. 7 : heap[r].kind \notin Tables
    BY <1>2, BaseFacts
  <2>2. p \in 1 .. 7 /\ q \in 1 .. 7
    BY <1>0, <1>3, <1>4, <2>1
  <2>3. Base[p] = Base[q]
    BY <1>2, <2>2
  <2> QED
    BY <2>2, <2>3, BaseFacts
<1> QED
  BY <1>0, <1>1, <1>4

\* Every call returns the type it was asked for (get_function_type,
\* get_tensor_type, get_tuple_type).
THEOREM AnswersRight == Spec => []Answers
<1>1. IInv => Answers
  BY DEF IInv
<1> QED
  BY <1>1, Invariant, PTL

\* Objects are made of objects that existed before, and tables hold pointers to
\* objects of their kind.
THEOREM TypeCorrect == Spec => []TypeOK
<1>1. IInv => TypeOK
  BY DEF IInv, Shaped, Held, Pointers, TypeOK
<1> QED
  BY <1>1, Invariant, PTL

-----------------------------------------------------------------------------
(* The values of pointers. *)

\* The value of an object depends on those of its components only.
LEMMA DeepLocal ==
  ASSUME NEW object \in Objects, NEW v, NEW w,
         \A k \in DOMAIN object.of : v[object.of[k]] = w[object.of[k]]
  PROVE  Deep(v, object) = Deep(w, object)
<1>1. [k \in DOMAIN object.of |-> v[object.of[k]]] = [k \in DOMAIN object.of |-> w[object.of[k]]]
  OBVIOUS
<1> QED
  BY <1>1 DEF Deep

\* A heap has one assignment of values to its first n objects: at most one
LEMMA ValuesAgree ==
  ASSUME NEW h \in Seq(Objects),
         \A p \in DOMAIN h : \A k \in DOMAIN h[p].of : h[p].of[k] \in 1 .. p - 1,
         NEW n \in 0 .. Len(h), NEW v, NEW w,
         \A p \in 1 .. n : v[p] = Deep(v, h[p]) /\ w[p] = Deep(w, h[p])
  PROVE  \A p \in 1 .. n : v[p] = w[p]
<1> DEFINE Bad == {p \in 1 .. n : v[p] # w[p]}
<1>1. SUFFICES ASSUME Bad # {} PROVE FALSE
  OBVIOUS
<1>2. Bad \in SUBSET Nat
  OBVIOUS
<1> HIDE DEF Bad
<1>3. PICK m \in Bad : \A p \in Bad : m <= p
  BY <1>1, <1>2, Least
<1> USE DEF Bad
<1>4. m \in DOMAIN h /\ h[m] \in Objects
  OBVIOUS
<1>5. \A k \in DOMAIN h[m].of : h[m].of[k] \in 1 .. n /\ h[m].of[k] < m
  BY <1>4
<1>6. \A k \in DOMAIN h[m].of : v[h[m].of[k]] = w[h[m].of[k]]
  BY <1>3, <1>5
<1>7. Deep(v, h[m]) = Deep(w, h[m])
  BY <1>4, <1>6, DeepLocal
<1> QED
  BY <1>3, <1>7

\* and at least one.
LEMMA ValueEquation ==
  ASSUME IInv
  PROVE  Value = [p \in Pointers |-> Deep(Value, heap[p])]
<1> DEFINE Upto(n, f) == f = [p \in 1 .. n |-> Deep(f, heap[p])]
           Missing == {n \in 0 .. Len(heap) : ~\E f : Upto(n, f)}
<1>0. /\ Pointers = 1 .. Len(heap) /\ Len(heap) \in Nat
      /\ \A p \in Pointers : heap[p] \in Objects
      /\ \A p \in Pointers : \A k \in DOMAIN heap[p].of : heap[p].of[k] \in 1 .. p - 1
  BY DEF IInv, Shaped, Pointers
<1>1. Missing = {}
  <2> SUFFICES ASSUME Missing # {} PROVE FALSE
    OBVIOUS
  <2>1. Missing \in SUBSET Nat
    BY <1>0
  <2> HIDE DEF Missing
  <2>2. PICK m \in Missing : \A n \in Missing : m <= n
    BY <2>1, Least
  <2> USE DEF Missing
  <2>3. m \in 0 .. Len(heap) /\ ~\E f : Upto(m, f)
    BY <2>2
  <2>4. m # 0
    <3>1. Upto(0, << >>)
      OBVIOUS
    <3> QED
      BY <2>3, <3>1
  <2>5. PICK f : Upto(m - 1, f)
    <3>1. m - 1 \in 0 .. Len(heap)
      BY <1>0, <2>3, <2>4
    <3> QED
      BY <2>2, <2>3, <3>1
  <2> DEFINE g == [p \in 1 .. m |-> Deep(f, heap[p])]
  <2>6. \A p \in 1 .. m - 1 : g[p] = f[p]
    BY <2>3, <2>5
  <2>7. \A p \in 1 .. m : Deep(g, heap[p]) = Deep(f, heap[p])
    <3> SUFFICES ASSUME NEW p \in 1 .. m PROVE Deep(g, heap[p]) = Deep(f, heap[p])
      OBVIOUS
    <3>1. p \in Pointers /\ heap[p] \in Objects
      BY <1>0, <2>3
    <3>2. \A k \in DOMAIN heap[p].of : heap[p].of[k] \in 1 .. m - 1
      BY <1>0, <2>3, <3>1
    <3>3. \A k \in DOMAIN heap[p].of : g[heap[p].of[k]] = f[heap[p].of[k]]
      BY <2>6, <3>2
    <3> HIDE DEF g
    <3> QED
      BY <3>1, <3>3, DeepLocal
  <2>8. Upto(m, g)
    BY <2>7
  <2> QED
    BY <2>3, <2>8
<1>2. PICK f : Upto(Len(heap), f)
  BY <1>0, <1>1
<1>3. \E g : g = [p \in Pointers |-> Deep(f, heap[p])]
  BY <1>0, <1>2
<1> QED
  BY <1>3 DEF Value

\* Objects are equal when their fields are.
LEMMA ObjectsEqual ==
  ASSUME NEW a \in Objects, NEW b \in Objects, a.kind = b.kind, a.of = b.of, a.dims = b.dims
  PROVE  a = b
BY DEF Objects

\* Pointers with equal values are equal, however deep the types are nested.
LEMMA UniqueFromInterned ==
  ASSUME IInv, Interned
  PROVE  Unique
<1> DEFINE Bad == {p \in Pointers : \E q \in Pointers : q # p /\ Value[p] = Value[q]}
<1>0. /\ Pointers = 1 .. Len(heap) /\ Len(heap) \in Nat
      /\ \A p \in Pointers : heap[p] \in Objects
      /\ \A p \in Pointers : \A k \in DOMAIN heap[p].of : heap[p].of[k] \in 1 .. p - 1
  BY DEF IInv, Shaped, Pointers
<1>1. \A p \in Pointers : Value[p] = Deep(Value, heap[p])
  BY ValueEquation
<1>2. SUFFICES ASSUME Bad # {} PROVE FALSE
  BY DEF Unique
<1>3. Bad \in SUBSET Nat
  BY <1>0
<1> HIDE DEF Bad
<1>4. PICK m \in Bad : \A p \in Bad : m <= p
  BY <1>2, <1>3, Least
<1> USE DEF Bad
<1>5. PICK q \in Pointers : q # m /\ Value[m] = Value[q]
  BY <1>4
<1>6. m \in Pointers /\ m < q
  BY <1>0, <1>4, <1>5
<1>7. Deep(Value, heap[m]) = Deep(Value, heap[q])
  BY <1>1, <1>5, <1>6
<1>8. /\ heap[m].kind = heap[q].kind /\ heap[m].dims = heap[q].dims
      /\ [k \in DOMAIN heap[m].of |-> Value[heap[m].of[k]]] = [k \in DOMAIN heap[q].of |-> Value[heap[q].of[k]]]
  BY <1>0, <1>5, <1>6, <1>7 DEF Deep, Objects
<1>9. /\ DOMAIN heap[m].of = DOMAIN heap[q].of
      /\ \A k \in DOMAIN heap[m].of : Value[heap[m].of[k]] = Value[heap[q].of[k]]
  BY <1>8
<1>10. \A k \in DOMAIN heap[m].of : heap[m].of[k] = heap[q].of[k]
  <2> SUFFICES ASSUME NEW k \in DOMAIN heap[m].of PROVE heap[m].of[k] = heap[q].of[k]
    OBVIOUS
  <2>1. heap[m].of[k] \in Pointers /\ heap[m].of[k] < m
    BY <1>0, <1>6
  <2>2. heap[q].of[k] \in Pointers
    BY <1>0, <1>5, <1>9
  <2>3. heap[m].of[k] \notin Bad
    BY <1>0, <1>4, <1>6, <2>1
  <2> QED
    BY <1>9, <2>1, <2>2, <2>3
<1>11. heap[m].of = heap[q].of
  BY <1>0, <1>5, <1>6, <1>9, <1>10 DEF Objects
<1>12. heap[m] = heap[q]
  BY <1>0, <1>5, <1>6, <1>8, <1>11, ObjectsEqual
<1> QED
  BY <1>5, <1>6, <1>12 DEF Interned

\* Comparing two types compares pointers (type::operator==): types of one
\* value are one pointer, whatever is nested in them.
THEOREM Uniqueness == Spec => []Unique
<1>1. IInv => Unique
  BY InternedFromIInv, UniqueFromInterned
<1> QED
  BY <1>1, Invariant, PTL

-----------------------------------------------------------------------------
(* The storage implements types as values. *)

\* A call leaves the values that were there, and returns the one asked for.
LEMMA GetAnswers ==
  ASSUME IInv, IInv', NEW object \in Objects, object.kind \in Tables,
         \A k \in DOMAIN object.of : object.of[k] \in Pointers,
         Get(object)
  PROVE  /\ \A p \in Pointers : Value'[p] = Value[p]
         /\ asked' = object /\ Value'[result'] = Deep(Value, object)
         /\ Deep(Value', object) = Deep(Value, object)
         /\ {Value[p] : p \in Pointers}' = {Value[p] : p \in Pointers} \cup {Deep(Value, object)}
<1>0. /\ Pointers = 1 .. Len(heap) /\ Len(heap) \in Nat /\ heap \in Seq(Objects)
      /\ Pointers' = 1 .. Len(heap') /\ Len(heap') \in Nat /\ heap' \in Seq(Objects)
      /\ \A p \in Pointers : \A k \in DOMAIN heap[p].of : heap[p].of[k] \in 1 .. p - 1
      /\ \A p \in Pointers' : \A k \in DOMAIN heap'[p].of : heap'[p].of[k] \in 1 .. p - 1
  BY DEF IInv, Shaped, Pointers
<1>1. /\ \A p \in Pointers : Value[p] = Deep(Value, heap[p])
      /\ \A p \in Pointers' : Value'[p] = Deep(Value', heap'[p])
  <2>1. Value = [p \in Pointers |-> Deep(Value, heap[p])]
    BY ValueEquation
  <2>2. (Value = [p \in Pointers |-> Deep(Value, heap[p])])'
    BY ValueEquation, PTL
  <2> QED
    BY <2>1, <2>2
<1>2. /\ Len(heap) <= Len(heap') /\ \A p \in Pointers : heap'[p] = heap[p]
      /\ result' \in Pointers' /\ heap'[result'] = object /\ asked' = object
      /\ Pointers' = Pointers \cup {result'}
  <2>1. CASE object \in DOMAIN table[object.kind]
    <3>1. UNCHANGED <<heap, table>> /\ result' = table[object.kind][object] /\ asked' = object
      BY <2>1 DEF Get, Key
    <3>2. result' \in 8 .. Len(heap) /\ heap[result'] = object
      BY <2>1, <3>1 DEF IInv, Held
    <3> QED
      BY <1>0, <3>1, <3>2
  <2>2. CASE object \notin DOMAIN table[object.kind]
    <3>1. heap' = Append(heap, object) /\ result' = Len(heap) + 1 /\ asked' = object
      BY <2>2 DEF Get, Key
    <3>2. Len(heap') = Len(heap) + 1 /\ heap'[Len(heap) + 1] = object /\ \A p \in Pointers : heap'[p] = heap[p]
      BY <1>0, <3>1
    <3> QED
      BY <1>0, <3>1, <3>2
  <2> QED
    BY <2>1, <2>2
<1>3. \A p \in Pointers : Value'[p] = Value[p]
  <2>1. \A p \in 1 .. Len(heap) : Value'[p] = Deep(Value', heap[p]) /\ Value[p] = Deep(Value, heap[p])
    BY <1>0, <1>1, <1>2
  <2>2. \A p \in DOMAIN heap : \A k \in DOMAIN heap[p].of : heap[p].of[k] \in 1 .. p - 1
    BY <1>0
  <2>3. Len(heap) \in 0 .. Len(heap)
    BY <1>0
  <2> DEFINE v == Value'
             w == Value
  <2>4. \A p \in 1 .. Len(heap) : v[p] = Deep(v, heap[p]) /\ w[p] = Deep(w, heap[p])
    BY <2>1
  <2> HIDE DEF v, w
  <2>5. \A p \in 1 .. Len(heap) : v[p] = w[p]
    BY <1>0, <2>2, <2>3, <2>4, ValuesAgree
  <2> QED
    BY <1>0, <2>5 DEF v, w
<1>4. Deep(Value', object) = Deep(Value, object)
  BY <1>3, DeepLocal
<1>5. Value'[result'] = Deep(Value, object)
  BY <1>1, <1>2, <1>4
<1>6. {Value[p] : p \in Pointers}' = {Value[p] : p \in Pointers} \cup {Deep(Value, object)}
  <2>1. {Value[p] : p \in Pointers}' = {Value'[p] : p \in Pointers \cup {result'}}
    BY <1>2
  <2> QED
    BY <1>3, <1>5, <2>1
<1> QED
  BY <1>2, <1>3, <1>4, <1>5, <1>6

Known == {Value[p] : p \in Pointers}

\* A list of pointers stands for a list of values.
LEMMA ListsMap ==
  ASSUME NEW args \in Lists(MaxArity)
  PROVE  [k \in DOMAIN args |-> Value[args[k]]] \in Types!Lists(MaxArity)
<1>1. PICK n \in 0 .. MaxArity : args \in [1 .. n -> Pointers]
  BY DEF Lists
<1>2. [k \in DOMAIN args |-> Value[args[k]]] \in [1 .. n -> Known]
  BY <1>1 DEF Known
<1> QED
  BY <1>2 DEF Types!Lists, Known

\* Each call is one of TypeValues, for the values of what it is given.
LEMMA GetImplements ==
  ASSUME IInv, IInv', NEW object \in Objects, object.kind \in Tables,
         \A k \in DOMAIN object.of : object.of[k] \in Pointers,
         Get(object)
  PROVE  Types!Answer(Deep(Value, object))
<1>1. asked' = object
  BY GetAnswers
<1>2. Deep(Value, asked)' = Deep(Value', object)
  BY <1>1
<1>3. Known' = Known \cup {Deep(Value, object)} /\ Deep(Value, asked)' = Deep(Value, object)
      /\ Value[result]' = Deep(Value, object)
  BY <1>2, GetAnswers DEF Known
<1> QED
  BY <1>3 DEF Types!Answer, Known

\* What does not change the heap changes no value.
LEMMA SameValues ==
  ASSUME UNCHANGED <<heap, asked, result>>
  PROVE  UNCHANGED <<Known, Deep(Value, asked), Value[result]>>
BY DEF Known, Deep, Value, Pointers

LEMMA NextImplements ==
  ASSUME IInv, IInv', [Next]_vars
  PROVE  [Types!Get]_<<Known, Deep(Value, asked), Value[result]>>
<1>0. Pointers = 1 .. Len(heap) /\ Len(heap) \in Nat
  BY DEF IInv, Shaped, Pointers
<1>1. CASE GetFunctionType
  <2>1. PICK args \in Lists(MaxArity), ret \in Pointers : Get(Object("function", Append(args, ret), << >>))
    BY <1>1 DEF GetFunctionType
  <2> DEFINE object == Object("function", Append(args, ret), << >>)
             of == [k \in DOMAIN args |-> Value[args[k]]]
  <2>2. args \in Seq(Pointers)
    BY StorageAssumption DEF Lists
  <2>3. object \in Objects /\ object.kind \in Tables /\ \A k \in DOMAIN object.of : object.of[k] \in Pointers
    BY <2>1, FunctionObject DEF IInv
  <2>4. Types!Answer(Deep(Value, object))
    <3>1. Get(object)
      BY <2>1
    <3> HIDE DEF object
    <3> QED
      BY <2>3, <3>1, GetImplements
  <2>5. Deep(Value, object) = Types!Value("function", Append(of, Value[ret]), << >>)
    <3>1. [k \in DOMAIN Append(args, ret) |-> Value[Append(args, ret)[k]]] = Append(of, Value[ret])
      BY <2>2
    <3>2. object = [kind |-> "function", of |-> Append(args, ret), dims |-> << >>]
      BY DEF Object
    <3> HIDE DEF of, object
    <3>3. [k \in DOMAIN object.of |-> Value[object.of[k]]] = Append(of, Value[ret])
      BY <3>1, <3>2
    <3>4. Deep(Value, object) = [object EXCEPT !.of = Append(of, Value[ret])]
      BY <3>3 DEF Deep
    <3> QED
      BY <3>2, <3>4 DEF Types!Value
  <2>6. of \in Types!Lists(MaxArity) /\ Value[ret] \in Known
    BY <2>1, ListsMap DEF Known
  <2> HIDE DEF of, object
  <2>7. Types!Answer(Types!Value("function", Append(of, Value[ret]), << >>))
    BY <2>4, <2>5 DEF Types!Answer
  <2> QED
    BY <2>6, <2>7 DEF Types!Get, Types!Answer, Known
<1>2. CASE GetTensorType
  <2>1. PICK et \in Pointers, dims \in Dims : Get(Object("tensor", <<et>>, dims))
    BY <1>2 DEF GetTensorType
  <2> DEFINE object == Object("tensor", <<et>>, dims)
  <2>2. object \in Objects /\ object.kind \in Tables /\ \A k \in DOMAIN object.of : object.of[k] \in Pointers
    BY <2>1, TensorObject DEF IInv
  <2>3. Types!Answer(Deep(Value, object))
    <3>1. Get(object)
      BY <2>1
    <3> HIDE DEF object
    <3> QED
      BY <2>2, <3>1, GetImplements
  <2>4. Deep(Value, object) = Types!Value("tensor", <<Value[et]>>, dims)
    BY DEF Deep, Object, Types!Value
  <2> HIDE DEF object
  <2>5. Types!Answer(Types!Value("tensor", <<Value[et]>>, dims)) /\ Value[et] \in Known
    BY <2>1, <2>3, <2>4 DEF Types!Answer, Known
  <2> QED
    BY <2>1, <2>5 DEF Types!Get, Types!Answer, Known
<1>3. CASE GetTupleType
  <2>1. PICK types \in Lists(MaxArity) : Get(Object("tuple", types, << >>))
    BY <1>3 DEF GetTupleType
  <2> DEFINE object == Object("tuple", types, << >>)
             of == [k \in DOMAIN types |-> Value[types[k]]]
  <2>2. object \in Objects /\ object.kind \in Tables /\ \A k \in DOMAIN object.of : object.of[k] \in Pointers
    BY <2>1, TupleObject DEF IInv
  <2>3. Types!Answer(Deep(Value, object))
    <3>1. Get(object)
      BY <2>1
    <3> HIDE DEF object
    <3> QED
      BY <2>2, <3>1, GetImplements
  <2>4. Deep(Value, object) = Types!Value("tuple", of, << >>)
    BY DEF Deep, Object, Types!Value
  <2>5. of \in Types!Lists(MaxArity)
    BY <2>1, ListsMap
  <2> HIDE DEF of, object
  <2>6. Types!Answer(Types!Value("tuple", of, << >>))
    BY <2>3, <2>4 DEF Types!Answer
  <2> QED
    BY <2>5, <2>6 DEF Types!Get, Types!Answer
<1>4. CASE Destroy
  <2>1. UNCHANGED <<heap, asked, result>>
    BY <1>4 DEF Destroy
  <2> QED
    BY <2>1, SameValues
<1>5. CASE UNCHANGED vars
  <2>1. UNCHANGED <<heap, asked, result>>
    BY <1>5 DEF vars
  <2> QED
    BY <2>1, SameValues
<1> QED
  BY <1>1, <1>2, <1>3, <1>4, <1>5 DEF Next

LEMMA InitImplements == Init => Types!Init
<1> SUFFICES ASSUME Init PROVE Types!Init
  OBVIOUS
<1>1. IInv
  BY InitIInv
<1>2. Pointers = DOMAIN Base /\ \A p \in Pointers : heap[p] = Object(Base[p], << >>, << >>)
  BY DEF Init, Pointers
<1>3. \A p \in Pointers : Value[p] = Types!BaseValue(p)
  <2> SUFFICES ASSUME NEW p \in Pointers PROVE Value[p] = Types!BaseValue(p)
    OBVIOUS
  <2>1. Value[p] = Deep(Value, heap[p])
    BY <1>1, ValueEquation
  <2>2. [k \in DOMAIN << >> |-> Value[<< >>[k]]] = << >>
    OBVIOUS
  <2> QED
    BY <1>2, <2>1, <2>2 DEF Deep, Object, Types!BaseValue, Types!Value, Types!Base, Base
<1>4. Known = {Types!BaseValue(k) : k \in DOMAIN Types!Base}
  BY <1>2, <1>3 DEF Known, Types!Base, Base
<1>5. 1 \in Pointers /\ result = 1 /\ asked = heap[1]
  BY <1>2, BaseFacts DEF Init
<1>6. Deep(Value, asked) = Value[1]
  BY <1>1, <1>5, ValueEquation
<1> QED
  BY <1>3, <1>4, <1>5, <1>6 DEF Types!Init, Known

\* The storage implements types as values (get_function_type, get_tensor_type,
\* get_tuple_type): every call returns the type of what it was given, and changes
\* none that was returned before.
THEOREM Implementation == Spec => Implements
<1>1. Init => Types!Init
  BY InitImplements
<1>2. IInv /\ IInv' /\ [Next]_vars => [Types!Get]_<<Known, Deep(Value, asked), Value[result]>>
  BY NextImplements
<1> QED
  BY <1>1, <1>2, Invariant, PTL DEF Spec, Implements, Types!Spec, Known

-----------------------------------------------------------------------------
(* What the destructor deletes. *)

\* An object that was allocated has one entry, and the members of the class none.
LEMMA OneEntry ==
  ASSUME IInv, NEW p \in Pointers
  PROVE  Cardinality({e \in Entries : table[e[1]][e[2]] = p}) = IF p \in DOMAIN Base THEN 0 ELSE 1
<1> DEFINE Mine == {e \in Entries : table[e[1]][e[2]] = p}
<1>0. Pointers = 1 .. Len(heap) /\ Len(heap) \in Nat
  BY DEF IInv, Shaped, Pointers
<1>1. \A e \in Entries : e[1] \in Tables /\ e[2] \in DOMAIN table[e[1]] /\ e = <<e[1], e[2]>>
  BY DEF Entries
<1>2. \A e \in Mine : p \in 8 .. Len(heap) /\ e = <<heap[p].kind, heap[p]>>
  <2> SUFFICES ASSUME NEW e \in Mine PROVE p \in 8 .. Len(heap) /\ e = <<heap[p].kind, heap[p]>>
    OBVIOUS
  <2>1. e[1] \in Tables /\ e[2] \in DOMAIN table[e[1]] /\ e = <<e[1], e[2]>> /\ table[e[1]][e[2]] = p
    BY <1>1
  <2>2. e[2].kind = e[1] /\ p \in 8 .. Len(heap) /\ heap[p] = e[2]
    BY <2>1 DEF IInv, Held
  <2> QED
    BY <2>1, <2>2
<1>3. CASE p \in DOMAIN Base
  <2>1. Mine = {}
    BY <1>2, <1>3, BaseFacts
  <2> HIDE DEF Mine
  <2> QED
    BY <1>3, <2>1, FS_EmptySet DEF Mine
<1>4. CASE p \notin DOMAIN Base
  <2>1. p \in 8 .. Len(heap)
    BY <1>0, <1>4, BaseFacts
  <2>2. /\ heap[p].kind \in Tables /\ heap[p] \in DOMAIN table[heap[p].kind]
        /\ table[heap[p].kind][heap[p]] = p
    BY <2>1 DEF IInv, Indexed
  <2>3. <<heap[p].kind, heap[p]>> \in Mine
    BY <2>2 DEF Entries
  <2>4. Mine = {<<heap[p].kind, heap[p]>>}
    BY <1>2, <2>3
  <2>5. Cardinality({<<heap[p].kind, heap[p]>>}) = 1
    BY FS_Singleton
  <2> QED
    BY <1>4, <2>4, <2>5
<1> QED
  BY <1>3, <1>4

\* The destructor (~type_storage) deletes every object that a getter allocated,
\* once, and none of the members of the class.
THEOREM FreeingOnce == Spec => []FreedOnce
<1>1. Init => FreedOnce
  BY DEF Init, FreedOnce
<1>2. ASSUME IInv, FreedOnce, [Next]_vars PROVE FreedOnce'
  <2>1. CASE Destroy
    <3>1. freed' = [p \in Pointers |-> Cardinality({e \in Entries : table[e[1]][e[2]] = p})] /\ heap' = heap
      BY <2>1 DEF Destroy
    <3>2. \A p \in Pointers : freed'[p] = IF p \in DOMAIN Base THEN 0 ELSE 1
      BY <1>2, <3>1, OneEntry
    <3> QED
      BY <3>1, <3>2 DEF FreedOnce, Pointers
  <2>2. CASE freed' = << >>
    BY <2>2 DEF FreedOnce
  <2>3. CASE UNCHANGED vars
    BY <1>2, <2>3 DEF FreedOnce, Pointers, vars
  <2> QED
    BY <1>2, <2>1, <2>2, <2>3 DEF Next, GetFunctionType, GetTensorType, GetTupleType, Get
<1> QED
  BY <1>1, <1>2, Invariant, PTL DEF Spec

-----------------------------------------------------------------------------
(* Sequences and functions. *)

\* What a sequence is.
LEMMA SeqFacts ==
  ASSUME NEW S, NEW x \in Seq(S)
  PROVE  Len(x) \in Nat /\ DOMAIN x = 1 .. Len(x) /\ \A i \in 1 .. Len(x) : x[i] \in S
  OBVIOUS

\* A sequence of other elements.
LEMMA SeqRange ==
  ASSUME NEW S, NEW T, NEW x \in Seq(S), \A i \in 1 .. Len(x) : x[i] \in T
  PROVE  x \in Seq(T)
<1>1. Len(x) \in Nat /\ x = [i \in 1 .. Len(x) |-> x[i]]
  OBVIOUS
<1> QED
  BY <1>1

\* A shape is a sequence of integers.
LEMMA NatInt ==
  ASSUME NEW s \in Seq(Nat)
  PROVE  s \in Seq(Int)
<1>1. \A i \in 1 .. Len(s) : s[i] \in Int
  BY SeqFacts
<1> QED
  BY <1>1, SeqRange

\* A function on the first n numbers is a sequence of length n.
LEMMA FunctionSeq ==
  ASSUME NEW S, NEW n \in Nat, NEW p \in [1 .. n -> S]
  PROVE  p \in Seq(S) /\ Len(p) = n
  OBVIOUS

\* What holds at 0 and after each number holds up to m.
LEMMA Inductive ==
  ASSUME NEW m \in Nat, NEW S, NEW f, f[0] \in S,
         \A n \in 1 .. m : f[n - 1] \in S => f[n] \in S
  PROVE  \A n \in 0 .. m : f[n] \in S
<1> DEFINE Bad == {n \in 0 .. m : f[n] \notin S}
<1> SUFFICES ASSUME Bad # {} PROVE FALSE
  OBVIOUS
<1>1. Bad \in SUBSET Nat
  OBVIOUS
<1> HIDE DEF Bad
<1>2. PICK k \in Bad : \A n \in Bad : k <= n
  BY <1>1, Least
<1>3. k \in 0 .. m /\ f[k] \notin S /\ k # 0
  BY <1>2 DEF Bad
<1>4. k - 1 \in 0 .. m /\ ~(k <= k - 1)
  BY <1>3
<1>5. k - 1 \notin Bad
  BY <1>2, <1>4
<1>6. f[k - 1] \in S
  BY <1>4, <1>5 DEF Bad
<1> QED
  BY <1>3, <1>6

\* f is b at 0 and follows from its last value by g.
Follows(m, b, g, f) == f[0] = b /\ \A n \in 1 .. m : f[n] = g[n][f[n - 1]]

\* There is a function that follows from its first value.
LEMMA Recursion ==
  ASSUME NEW m \in Nat, NEW S, NEW b \in S, NEW g \in [1 .. m -> [S -> S]]
  PROVE  \E f \in [0 .. m -> S] : Follows(m, b, g, f)
<1> DEFINE Upto(k, f) == f[0] = b /\ \A n \in 1 .. k : f[n] = g[n][f[n - 1]]
           Missing == {k \in 0 .. m : ~\E f \in [0 .. k -> S] : Upto(k, f)}
<1>1. Missing = {}
  <2> SUFFICES ASSUME Missing # {} PROVE FALSE
    OBVIOUS
  <2>1. Missing \in SUBSET Nat
    OBVIOUS
  <2> HIDE DEF Missing
  <2>2. PICK k \in Missing : \A n \in Missing : k <= n
    BY <2>1, Least
  <2> USE DEF Missing
  <2>3. k \in 0 .. m /\ ~\E f \in [0 .. k -> S] : Upto(k, f)
    BY <2>2
  <2>4. k # 0
    <3> DEFINE f == [n \in 0 .. 0 |-> b]
    <3>1. f \in [0 .. 0 -> S] /\ Upto(0, f)
      OBVIOUS
    <3> QED
      BY <2>3, <3>1
  <2>5. k - 1 \in 0 .. m /\ k - 1 \notin Missing
    <3>1. k - 1 \in 0 .. m /\ ~(k <= k - 1)
      BY <2>3, <2>4
    <3> HIDE DEF Missing
    <3> QED
      BY <2>2, <3>1
  <2>6. PICK f \in [0 .. k - 1 -> S] : Upto(k - 1, f)
    BY <2>5
  <2> DEFINE h == [n \in 0 .. k |-> IF n = k THEN g[k][f[k - 1]] ELSE f[n]]
  <2>7. h \in [0 .. k -> S]
    BY <2>3, <2>4
  <2>8. h[0] = b
    BY <2>3, <2>4, <2>6
  <2>9. ASSUME NEW n \in 1 .. k PROVE h[n] = g[n][h[n - 1]]
    <3>1. h[n - 1] = f[n - 1]
      BY <2>3
    <3>2. CASE n = k
      BY <3>1, <3>2
    <3>3. CASE n # k
      BY <2>3, <2>6, <3>1, <3>3
    <3> QED
      BY <3>2, <3>3
  <2>10. Upto(k, h)
    BY <2>8, <2>9
  <2> HIDE DEF h, Upto
  <2> QED
    BY <2>3, <2>7, <2>10
<1>2. \E f \in [0 .. m -> S] : Upto(m, f)
  BY <1>1
<1> QED
  BY <1>2 DEF Follows

-----------------------------------------------------------------------------
(* Numbers that wrap, shapes, the points in them and their numbers. *)

\* There is a largest integer, for every width.
LEMMA HalfPositive == Half \in Nat /\ Half >= 1
<1> DEFINE m == Width - 1
           S == Nat \ {0}
           g == [n \in 1 .. m |-> [x \in S |-> 2 * x]]
           p == CHOOSE p : p = [w \in 0 .. Width - 1 |-> IF w = 0 THEN 1 ELSE 2 * p[w - 1]]
<1>1. m \in Nat
  BY WidthAssumption
<1>2. g \in [1 .. m -> [S -> S]] /\ 1 \in S
  OBVIOUS
<1>3. \A n \in 1 .. m, x \in S : g[n][x] = 2 * x
  OBVIOUS
<1>4. Half = p[m]
  BY DEF Half
<1>5. \E f : f = [w \in 0 .. m |-> IF w = 0 THEN 1 ELSE 2 * f[w - 1]]
  <2> HIDE DEF m, S, g
  <2>1. PICK f \in [0 .. m -> S] : Follows(m, 1, g, f)
    BY <1>1, <1>2, Recursion
  <2>2. \A n \in 1 .. m : f[n] = 2 * f[n - 1]
    BY <1>1, <1>3, <2>1 DEF Follows
  <2>3. f = [w \in 0 .. m |-> IF w = 0 THEN 1 ELSE 2 * f[w - 1]]
    BY <1>1, <2>1, <2>2 DEF Follows
  <2> QED
    BY <2>3
<1>6. p = [w \in 0 .. m |-> IF w = 0 THEN 1 ELSE 2 * p[w - 1]]
  BY <1>5
<1> HIDE DEF m, p
<1>7. p[0] \in S /\ \A n \in 1 .. m : p[n - 1] \in S => p[n] \in S
  BY <1>1, <1>6
<1>8. p[m] \in S
  <2> HIDE DEF S
  <2>1. m \in 0 .. m
    BY <1>1
  <2> QED
    BY <1>1, <1>7, <2>1, Inductive
<1> QED
  BY <1>4, <1>8

\* A number that is a product of numbers.
LEMMA WrapSmall == ASSUME NEW n \in Int, -Half <= n, n < Half PROVE Wrap(n) = n
  BY HalfPositive DEF Wrap

\* A number that wrapped is a number.
LEMMA WrapType == ASSUME NEW n \in Int PROVE Wrap(n) \in Int
  BY HalfPositive DEF Wrap

\* The product of a shape, dimension after dimension.
LEMMA CountEquation ==
  ASSUME NEW shape \in Seq(Int)
  PROVE  \E c \in [0 .. Len(shape) -> Int] :
           /\ c[0] = 1 /\ \A n \in 1 .. Len(shape) : c[n] = c[n - 1] * shape[n]
           /\ Count(shape) = c[Len(shape)]
<1> DEFINE m == Len(shape)
           g == [n \in 1 .. m |-> [x \in Int |-> x * shape[n]]]
           p == CHOOSE p : p = [n \in 0 .. Len(shape) |-> IF n = 0 THEN 1 ELSE p[n - 1] * shape[n]]
<1>1. m \in Nat /\ \A n \in 1 .. m : shape[n] \in Int
  OBVIOUS
<1>2. g \in [1 .. m -> [Int -> Int]] /\ 1 \in Int
  BY <1>1
<1>3. \A n \in 1 .. m, x \in Int : g[n][x] = x * shape[n]
  OBVIOUS
<1>4. Count(shape) = p[m]
  BY DEF Count
<1>5. \E f : f = [n \in 0 .. m |-> IF n = 0 THEN 1 ELSE f[n - 1] * shape[n]]
  <2> HIDE DEF m, g
  <2>1. PICK f \in [0 .. m -> Int] : Follows(m, 1, g, f)
    BY <1>1, <1>2, Recursion
  <2>2. ASSUME NEW n \in 1 .. m PROVE f[n] = f[n - 1] * shape[n]
    <3>1. f[n - 1] \in Int /\ f[n] = g[n][f[n - 1]]
      BY <1>1, <2>1 DEF Follows
    <3> QED
      BY <1>3, <3>1
  <2>3. f = [n \in 0 .. m |-> IF n = 0 THEN 1 ELSE f[n - 1] * shape[n]]
    BY <1>1, <2>1, <2>2 DEF Follows
  <2> QED
    BY <2>3
<1>6. p = [n \in 0 .. m |-> IF n = 0 THEN 1 ELSE p[n - 1] * shape[n]]
  BY <1>5
<1> HIDE DEF m, p
<1>7. p[0] \in Int /\ \A n \in 1 .. m : p[n - 1] \in Int => p[n] \in Int
  BY <1>1, <1>6
<1>8. \A n \in 0 .. m : p[n] \in Int
  BY <1>1, <1>7, Inductive
<1>9. p \in [0 .. m -> Int] /\ p[0] = 1 /\ \A n \in 1 .. m : p[n] = p[n - 1] * shape[n]
  BY <1>1, <1>6, <1>8
<1> QED
  BY <1>4, <1>9 DEF m
\* The same, but the product wraps.
LEMMA ElemsEquation ==
  ASSUME NEW shape \in Seq(Int)
  PROVE  \E c \in [0 .. Len(shape) -> Int] :
           /\ c[0] = 1 /\ \A n \in 1 .. Len(shape) : c[n] = Wrap(c[n - 1] * shape[n])
           /\ Elems(shape) = c[Len(shape)]
<1> DEFINE m == Len(shape)
           g == [n \in 1 .. m |-> [x \in Int |-> Wrap(x * shape[n])]]
           p == CHOOSE p : p = [n \in 0 .. Len(shape) |-> IF n = 0 THEN 1 ELSE Wrap(p[n - 1] * shape[n])]
<1>1. m \in Nat /\ \A n \in 1 .. m : shape[n] \in Int
  OBVIOUS
<1>2. g \in [1 .. m -> [Int -> Int]] /\ 1 \in Int
  <2>1. ASSUME NEW n \in 1 .. m, NEW x \in Int PROVE Wrap(x * shape[n]) \in Int
    <3>1. x * shape[n] \in Int
      BY <1>1
    <3> QED
      BY <3>1, WrapType
  <2> QED
    BY <2>1
<1>3. \A n \in 1 .. m, x \in Int : g[n][x] = Wrap(x * shape[n])
  OBVIOUS
<1>4. Elems(shape) = p[m]
  BY DEF Elems
<1>5. \E f : f = [n \in 0 .. m |-> IF n = 0 THEN 1 ELSE Wrap(f[n - 1] * shape[n])]
  <2> HIDE DEF m, g
  <2>1. PICK f \in [0 .. m -> Int] : Follows(m, 1, g, f)
    BY <1>1, <1>2, Recursion
  <2>2. ASSUME NEW n \in 1 .. m PROVE f[n] = Wrap(f[n - 1] * shape[n])
    <3>1. f[n - 1] \in Int /\ f[n] = g[n][f[n - 1]]
      BY <1>1, <2>1 DEF Follows
    <3> QED
      BY <1>3, <3>1
  <2>3. f = [n \in 0 .. m |-> IF n = 0 THEN 1 ELSE Wrap(f[n - 1] * shape[n])]
    BY <1>1, <2>1, <2>2 DEF Follows
  <2> QED
    BY <2>3
<1>6. p = [n \in 0 .. m |-> IF n = 0 THEN 1 ELSE Wrap(p[n - 1] * shape[n])]
  BY <1>5
<1> HIDE DEF m, p
<1>7. p[0] \in Int /\ \A n \in 1 .. m : p[n - 1] \in Int => p[n] \in Int
  <2>1. p[0] \in Int
    BY <1>1, <1>6
  <2>2. ASSUME NEW n \in 1 .. m, p[n - 1] \in Int PROVE p[n] \in Int
    <3>1. p[n - 1] * shape[n] \in Int
      BY <1>1, <2>2
    <3>2. p[n] = Wrap(p[n - 1] * shape[n])
      BY <1>1, <1>6
    <3> QED
      BY <3>1, <3>2, WrapType
  <2> QED
    BY <2>1, <2>2
<1>8. \A n \in 0 .. m : p[n] \in Int
  BY <1>1, <1>7, Inductive
<1>9. p \in [0 .. m -> Int] /\ p[0] = 1 /\ \A n \in 1 .. m : p[n] = Wrap(p[n - 1] * shape[n])
  BY <1>1, <1>6, <1>8
<1> QED
  BY <1>4, <1>9 DEF m
\* The place of a point in the order of memory, dimension after dimension.
LEMMA OffsetEquation ==
  ASSUME NEW shape \in Seq(Int), NEW q \in [1 .. Len(shape) -> Int]
  PROVE  \E c \in [0 .. Len(shape) -> Int] :
           /\ c[0] = 0 /\ \A n \in 1 .. Len(shape) : c[n] = c[n - 1] * shape[n] + q[n]
           /\ Offset(shape, q) = c[Len(shape)]
<1> DEFINE m == Len(shape)
           g == [n \in 1 .. m |-> [x \in Int |-> x * shape[n] + q[n]]]
           p == CHOOSE p : p = [n \in 0 .. Len(shape) |-> IF n = 0 THEN 0 ELSE p[n - 1] * shape[n] + q[n]]
<1>1. m \in Nat /\ \A n \in 1 .. m : shape[n] \in Int /\ q[n] \in Int
  OBVIOUS
<1>2. g \in [1 .. m -> [Int -> Int]] /\ 0 \in Int
  BY <1>1
<1>3. \A n \in 1 .. m, x \in Int : g[n][x] = x * shape[n] + q[n]
  OBVIOUS
<1>4. Offset(shape, q) = p[m]
  BY DEF Offset
<1>5. \E f : f = [n \in 0 .. m |-> IF n = 0 THEN 0 ELSE f[n - 1] * shape[n] + q[n]]
  <2> HIDE DEF m, g
  <2>1. PICK f \in [0 .. m -> Int] : Follows(m, 0, g, f)
    BY <1>1, <1>2, Recursion
  <2>2. ASSUME NEW n \in 1 .. m PROVE f[n] = f[n - 1] * shape[n] + q[n]
    <3>1. f[n - 1] \in Int /\ f[n] = g[n][f[n - 1]]
      BY <1>1, <2>1 DEF Follows
    <3> QED
      BY <1>3, <3>1
  <2>3. f = [n \in 0 .. m |-> IF n = 0 THEN 0 ELSE f[n - 1] * shape[n] + q[n]]
    BY <1>1, <2>1, <2>2 DEF Follows
  <2> QED
    BY <2>3
<1>6. p = [n \in 0 .. m |-> IF n = 0 THEN 0 ELSE p[n - 1] * shape[n] + q[n]]
  BY <1>5
<1> HIDE DEF m, p
<1>7. p[0] \in Int /\ \A n \in 1 .. m : p[n - 1] \in Int => p[n] \in Int
  <2>1. p[0] \in Int
    BY <1>1, <1>6
  <2>2. ASSUME NEW n \in 1 .. m, p[n - 1] \in Int PROVE p[n] \in Int
    <3>1. p[n] = p[n - 1] * shape[n] + q[n]
      BY <1>1, <1>6
    <3>2. shape[n] \in Int /\ q[n] \in Int
      BY <1>1
    <3>3. p[n - 1] * shape[n] \in Int
      BY <2>2, <3>2
    <3> QED
      BY <3>1, <3>2, <3>3
  <2> QED
    BY <2>1, <2>2
<1>8. \A n \in 0 .. m : p[n] \in Int
  BY <1>1, <1>7, Inductive
<1>9. p \in [0 .. m -> Int] /\ p[0] = 0 /\ \A n \in 1 .. m : p[n] = p[n - 1] * shape[n] + q[n]
  BY <1>1, <1>6, <1>8, SMTT(30)
<1> QED
  BY <1>4, <1>9 DEF m

\* The product of the first dimensions.
LEMMA CountPrefix ==
  ASSUME NEW shape \in Seq(Int), NEW m \in 0 .. Len(shape),
         NEW c \in [0 .. Len(shape) -> Int], c[0] = 1, \A n \in 1 .. Len(shape) : c[n] = c[n - 1] * shape[n]
  PROVE  Count(SubSeq(shape, 1, m)) = c[m]
<1> DEFINE s == SubSeq(shape, 1, m)
<1>0. \A n \in 0 .. m : n \in 0 .. Len(shape) /\ c[n] \in Int
  <2>1. Len(shape) \in Nat
    OBVIOUS
  <2> QED
    BY <2>1
<1>1. s \in Seq(Int) /\ Len(s) = m /\ m \in Nat /\ \A n \in 1 .. m : s[n] = shape[n] /\ n \in 1 .. Len(shape)
  OBVIOUS
<1> HIDE DEF s
<1>2. PICK b \in [0 .. m -> Int] :
        /\ b[0] = 1 /\ \A n \in 1 .. m : b[n] = b[n - 1] * s[n]
        /\ Count(s) = b[m]
  BY <1>1, CountEquation
<1> DEFINE e == [n \in 0 .. m |-> b[n] - c[n]]
<1>3. e[0] \in {0}
  BY <1>1, <1>2
<1>4. ASSUME NEW n \in 1 .. m, e[n - 1] \in {0} PROVE e[n] \in {0}
  <2>1. b[n - 1] = c[n - 1]
    <3>1. n - 1 \in 0 .. m /\ b[n - 1] \in Int /\ c[n - 1] \in Int
      BY <1>0, <1>1, <1>2
    <3> QED
      BY <1>4, <3>1
  <2>2. b[n] = b[n - 1] * s[n] /\ c[n] = c[n - 1] * shape[n] /\ s[n] = shape[n]
    BY <1>1, <1>2
  <2>3. b[n] = c[n]
    BY <2>1, <2>2
  <2>4. b[n] \in Int /\ n \in 0 .. m
    BY <1>1, <1>2
  <2> QED
    BY <2>3, <2>4
<1> HIDE DEF e
<1>5. e[m] \in {0}
  <2> DEFINE S == {0}
  <2>1. \A n \in 1 .. m : e[n - 1] \in S => e[n] \in S
    BY <1>4
  <2>2. e[0] \in S /\ m \in 0 .. m
    BY <1>1, <1>3
  <2> HIDE DEF S
  <2>3. e[m] \in S
    BY <1>1, <2>1, <2>2, Inductive
  <2> QED
    BY <2>3 DEF S
<1>6. b[m] - c[m] = 0 /\ b[m] \in Int /\ c[m] \in Int
  BY <1>0, <1>1, <1>2, <1>5 DEF e
<1> QED
  BY <1>1, <1>2, <1>6 DEF s

\* A product is positive only if every dimension is.
LEMMA CountPositive ==
  ASSUME NEW shape \in Seq(Nat)
  PROVE  /\ Count(shape) \in Nat
         /\ (Count(shape) # 0 <=> \A d \in 1 .. Len(shape) : shape[d] # 0)
<1>1. PICK c \in [0 .. Len(shape) -> Int] :
        /\ c[0] = 1 /\ \A n \in 1 .. Len(shape) : c[n] = c[n - 1] * shape[n]
        /\ Count(shape) = c[Len(shape)]
  BY CountEquation
<1> DEFINE m == Len(shape)
<1>2. m \in Nat /\ \A n \in 1 .. m : shape[n] \in Nat
  OBVIOUS
<1>3. \A n \in 0 .. m : c[n] \in Nat
  <2>1. \A n \in 1 .. m : c[n - 1] \in Nat => c[n] \in Nat
    BY <1>1, <1>2
  <2>2. c[0] \in Nat
    BY <1>1
  <2> HIDE DEF m
  <2> QED
    BY <1>2, <2>1, <2>2, Inductive
<1>4. ASSUME \A d \in 1 .. m : shape[d] # 0 PROVE c[m] # 0
  <2> DEFINE S == Nat \ {0}
  <2>1. c[0] \in S
    BY <1>1
  <2>2. ASSUME NEW n \in 1 .. m, c[n - 1] \in S PROVE c[n] \in S
    <3>1. shape[n] \in S /\ c[n] = c[n - 1] * shape[n]
      BY <1>1, <1>2, <1>4
    <3> HIDE DEF m
    <3> QED
      BY <2>2, <3>1
  <2>3. m \in 0 .. m
    BY <1>2
  <2> HIDE DEF m, S
  <2>4. c[m] \in S
    BY <1>2, <2>1, <2>2, <2>3, Inductive
  <2> QED
    BY <2>4 DEF S
<1>5. ASSUME NEW d \in 1 .. m, shape[d] = 0 PROVE c[m] = 0
  <2> DEFINE b == [n \in 0 .. m - d |-> c[d + n]]
  <2>1. m - d \in Nat /\ m - d \in 0 .. m - d /\ d + (m - d) = m /\ m - d >= 0
    BY <1>2
  <2>2. b[0] \in {0}
    BY <1>1, <1>2, <1>3, <1>5, <2>1
  <2>3. ASSUME NEW n \in 1 .. m - d, b[n - 1] \in {0} PROVE b[n] \in {0}
    <3>1. d + n \in 1 .. m /\ d + (n - 1) = d + n - 1 /\ n - 1 \in 0 .. m - d
      BY <1>2
    <3>2. c[d + n - 1] = 0
      BY <2>3, <3>1
    <3>3. c[d + n] = c[d + n - 1] * shape[d + n] /\ shape[d + n] \in Nat
      BY <1>1, <1>2, <3>1
    <3> QED
      BY <3>1, <3>2, <3>3
  <2> HIDE DEF b
  <2>4. b[m - d] \in {0}
    <3> DEFINE S == {0}
    <3>1. \A n \in 1 .. m - d : b[n - 1] \in S => b[n] \in S
      BY <2>3
    <3>2. b[0] \in S
      BY <2>2
    <3> HIDE DEF S
    <3>3. b[m - d] \in S
      BY <2>1, <3>1, <3>2, Inductive
    <3> QED
      BY <3>3 DEF S
  <2> QED
    BY <2>1, <2>4 DEF b
<1> QED
  BY <1>1, <1>2, <1>3, <1>4, <1>5

\* With dimensions of at least 1, a product that an integer can count is not wrapped.
LEMMA ElemsSame ==
  ASSUME NEW shape \in Seq(Nat \ {0}), Count(shape) < Half
  PROVE  Elems(shape) = Count(shape)
<1> DEFINE m == Len(shape)
<1>1. m \in Nat /\ shape \in Seq(Int) /\ \A n \in 1 .. m : shape[n] \in Nat /\ shape[n] >= 1
  OBVIOUS
<1>2. PICK c \in [0 .. m -> Int] :
        /\ c[0] = 1 /\ \A n \in 1 .. m : c[n] = c[n - 1] * shape[n]
        /\ Count(shape) = c[m]
  BY <1>1, CountEquation
<1>3. PICK e \in [0 .. m -> Int] :
        /\ e[0] = 1 /\ \A n \in 1 .. m : e[n] = Wrap(e[n - 1] * shape[n])
        /\ Elems(shape) = e[m]
  BY <1>1, ElemsEquation
<1> HIDE DEF m
<1>4. \A n \in 0 .. m : c[n] \in Nat
  <2>1. ASSUME NEW n \in 1 .. m, c[n - 1] \in Nat PROVE c[n] \in Nat
    <3>1. c[n] = c[n - 1] * shape[n] /\ shape[n] \in Nat
      BY <1>1, <1>2
    <3> QED
      BY <2>1, <3>1
  <2>2. c[0] \in Nat
    BY <1>2
  <2> QED
    BY <1>1, <2>1, <2>2, Inductive
<1>5. ASSUME NEW n \in 1 .. m PROVE c[n - 1] <= c[n]
  <2>1. c[n] = c[n - 1] * shape[n] /\ shape[n] \in Nat /\ shape[n] >= 1 /\ c[n - 1] \in Nat
    BY <1>1, <1>2, <1>4
  <2>2. \A x, y \in Nat : y >= 1 => x <= x * y
    OBVIOUS
  <2> QED
    BY <2>1, <2>2
\* From the last one down.
<1>6. \A n \in 0 .. m : c[n] <= c[m]
  <2> DEFINE d == [k \in 0 .. m |-> c[m - k]]
             S == {x \in Nat : x <= c[m]}
  <2>1. d[0] \in S
    BY <1>1, <1>4
  <2>2. ASSUME NEW k \in 1 .. m, d[k - 1] \in S PROVE d[k] \in S
    <3>1. m - (k - 1) \in 1 .. m /\ m - (k - 1) - 1 = m - k /\ m - k \in 0 .. m /\ k \in 0 .. m /\ k - 1 \in 0 .. m /\ m \in 0 .. m
      BY <1>1
    <3>2. c[m - k] <= c[m - (k - 1)]
      BY <1>5, <3>1
    <3>3. c[m - k] \in Nat /\ c[m - (k - 1)] \in Nat /\ c[m - (k - 1)] <= c[m] /\ c[m] \in Nat
      BY <1>4, <2>2, <3>1
    <3> QED
      BY <3>1, <3>2, <3>3
  <2>3. \A n \in 0 .. m : m - n \in 0 .. m /\ m - (m - n) = n
    BY <1>1
  <2>4. \A k \in 0 .. m : d[k] \in S
    <3> HIDE DEF d, S
    <3> QED
      BY <1>1, <2>1, <2>2, Inductive
  <2> QED
    BY <2>3, <2>4
<1>7. \A n \in 0 .. m : e[n] - c[n] \in {0}
  <2> DEFINE b == [n \in 0 .. m |-> e[n] - c[n]]
             S == {0}
  <2>1. b[0] \in S
    BY <1>1, <1>2, <1>3
  <2>2. ASSUME NEW n \in 1 .. m, b[n - 1] \in S PROVE b[n] \in S
    <3>1. n \in 0 .. m /\ n - 1 \in 0 .. m
      BY <1>1
    <3>2. e[n - 1] = c[n - 1]
      <4>1. e[n - 1] \in Int /\ c[n - 1] \in Int
        BY <3>1
      <4>2. e[n - 1] - c[n - 1] = 0
        BY <2>2, <3>1
      <4> QED
        BY <4>1, <4>2
    <3>3. e[n] = Wrap(c[n])
      BY <1>2, <1>3, <3>2
    <3>4. c[n] \in Nat /\ c[n] < Half
      <4>1. c[n] \in Nat /\ c[m] \in Nat /\ c[n] <= c[m] /\ c[m] < Half
        BY <1>1, <1>2, <1>4, <1>6, <3>1 DEF m
      <4> QED
        BY <4>1, HalfPositive
    <3>5. e[n] = c[n]
      BY <3>3, <3>4, WrapSmall, HalfPositive
    <3> QED
      BY <1>2, <3>1, <3>5
  <2> HIDE DEF b, S
  <2>3. \A n \in 0 .. m : b[n] \in S
    BY <1>1, <2>1, <2>2, Inductive
  <2> QED
    BY <2>3 DEF b, S
<1> QED
  <2>1. m \in 0 .. m
    BY <1>1
  <2>2. e[m] - c[m] = 0 /\ e[m] \in Int /\ c[m] \in Int
    BY <1>2, <1>3, <1>7, <2>1
  <2> QED
    BY <1>2, <1>3, <2>2 DEF m

\* An empty dimension makes the product 0, wrapped or not.
LEMMA ElemsZero ==
  ASSUME NEW shape \in Seq(Int), NEW d \in 1 .. Len(shape), shape[d] = 0
  PROVE  Elems(shape) = 0
<1> DEFINE m == Len(shape)
<1>1. m \in Nat /\ \A n \in 1 .. m : shape[n] \in Int
  OBVIOUS
<1>2. PICK e \in [0 .. m -> Int] :
        /\ e[0] = 1 /\ \A n \in 1 .. m : e[n] = Wrap(e[n - 1] * shape[n])
        /\ Elems(shape) = e[m]
  BY ElemsEquation
<1>3. d \in 1 .. m
  OBVIOUS
<1> HIDE DEF m
<1>4. Wrap(0) = 0
  BY WrapSmall, HalfPositive
<1> DEFINE b == [n \in 0 .. m - d |-> e[d + n]]
           S == {0}
<1>5. m - d \in Nat /\ m - d \in 0 .. m - d /\ d + (m - d) = m
  BY <1>1, <1>3
<1>6. b[0] \in S
  <2>1. e[d] = Wrap(e[d - 1] * 0) /\ e[d - 1] \in Int
    BY <1>1, <1>2, <1>3
  <2>2. e[d] = 0
    BY <1>4, <2>1
  <2> QED
    BY <1>3, <1>5, <2>2
<1>7. ASSUME NEW n \in 1 .. m - d, b[n - 1] \in S PROVE b[n] \in S
  <2>1. d + n \in 1 .. m /\ d + (n - 1) = d + n - 1 /\ n - 1 \in 0 .. m - d /\ n \in 0 .. m - d
    BY <1>1, <1>3
  <2>2. e[d + n - 1] = 0
    BY <1>7, <2>1
  <2>3. e[d + n] = Wrap(e[d + n - 1] * shape[d + n]) /\ shape[d + n] \in Int
    BY <1>1, <1>2, <2>1
  <2>4. e[d + n] = Wrap(0)
    BY <2>2, <2>3
  <2> QED
    BY <1>4, <2>1, <2>4
<1>8. b[m - d] \in S
  <2> HIDE DEF b, S
  <2> QED
    BY <1>5, <1>6, <1>7, Inductive
<1> QED
  BY <1>2, <1>5, <1>8 DEF m

\* The points of a shape.
LEMMA PointsAre ==
  ASSUME NEW shape, Len(shape) \in Nat, DOMAIN shape = 1 .. Len(shape),
         \A d \in 1 .. Len(shape) : shape[d] \in Int
  PROVE  \A p : p \in Points(shape) <=>
           /\ p \in [1 .. Len(shape) -> Nat] /\ \A d \in 1 .. Len(shape) : p[d] < shape[d]
<1> DEFINE U == UNION {0 .. shape[d] - 1 : d \in DOMAIN shape}
<1>1. U \in SUBSET Nat
  OBVIOUS
<1>2. ASSUME NEW p \in [1 .. Len(shape) -> Nat], \A d \in 1 .. Len(shape) : p[d] < shape[d]
      PROVE  p \in [1 .. Len(shape) -> U]
  <2>1. \A d \in 1 .. Len(shape) : p[d] \in 0 .. shape[d] - 1
    BY <1>2
  <2> QED
    BY <2>1
<1>3. Points(shape) = {p \in [1 .. Len(shape) -> U] : \A d \in 1 .. Len(shape) : p[d] < shape[d]}
  BY DEF Points
<1> HIDE DEF U
<1>4. [1 .. Len(shape) -> U] \subseteq [1 .. Len(shape) -> Nat]
  BY <1>1
<1> QED
  BY <1>2, <1>3, <1>4

\* The points of a shape, by their coordinates.
LEMMA PointsOf ==
  ASSUME NEW shape \in Seq(Int)
  PROVE  \A p : p \in Points(shape) <=>
           /\ p \in [1 .. Len(shape) -> Nat] /\ \A d \in 1 .. Len(shape) : p[d] < shape[d]
<1>1. Len(shape) \in Nat /\ DOMAIN shape = 1 .. Len(shape) /\ \A d \in 1 .. Len(shape) : shape[d] \in Int
  OBVIOUS
<1> QED
  BY <1>1, PointsAre

\* A point is before the end of the memory.
LEMMA OffsetInside ==
  ASSUME NEW shape \in Seq(Nat), NEW p \in Points(shape)
  PROVE  Offset(shape, p) \in 0 .. Count(shape) - 1
<1> DEFINE m == Len(shape)
<1>1. m \in Nat /\ shape \in Seq(Int) /\ \A n \in 1 .. m : shape[n] \in Nat
  OBVIOUS
<1>2. p \in [1 .. m -> Nat] /\ \A n \in 1 .. m : p[n] < shape[n]
  BY <1>1, PointsOf
<1>3. p \in [1 .. m -> Int]
  BY <1>2
<1>4. PICK c \in [0 .. m -> Int] :
        /\ c[0] = 1 /\ \A n \in 1 .. m : c[n] = c[n - 1] * shape[n]
        /\ Count(shape) = c[m]
  BY <1>1, CountEquation
<1>5. PICK o \in [0 .. m -> Int] :
        /\ o[0] = 0 /\ \A n \in 1 .. m : o[n] = o[n - 1] * shape[n] + p[n]
        /\ Offset(shape, p) = o[m]
  BY <1>1, <1>3, OffsetEquation
<1> HIDE DEF m
<1> DEFINE S == {x \in Nat \X Nat : x[1] < x[2]}
           f == [n \in 0 .. m |-> <<o[n], c[n]>>]
<1>6. f[0] \in S
  BY <1>1, <1>4, <1>5
<1>7. ASSUME NEW n \in 1 .. m, f[n - 1] \in S PROVE f[n] \in S
  <2>1. n \in 0 .. m /\ n - 1 \in 0 .. m
    BY <1>1
  <2>2. o[n - 1] \in Nat /\ c[n - 1] \in Nat /\ o[n - 1] < c[n - 1]
    BY <1>7, <2>1
  <2>3. p[n] \in Nat /\ shape[n] \in Nat /\ p[n] < shape[n]
    BY <1>1, <1>2
  <2>4. o[n] = o[n - 1] * shape[n] + p[n] /\ c[n] = c[n - 1] * shape[n]
    BY <1>4, <1>5
  <2>5. \A a, b, s, q \in Nat : a < b /\ q < s => /\ a * s + q \in Nat /\ b * s \in Nat
                                                 /\ a * s + q < b * s
    <3> SUFFICES ASSUME NEW a \in Nat, NEW b \in Nat, NEW s \in Nat, NEW q \in Nat, a < b, q < s
                 PROVE  a * s + q \in Nat /\ b * s \in Nat /\ a * s + q < b * s
      OBVIOUS
    <3>1. (a + 1) * s <= b * s
      BY SMTT(30)
    <3>2. (a + 1) * s = a * s + s
      OBVIOUS
    <3>3. a * s \in Nat /\ b * s \in Nat
      OBVIOUS
    <3> QED
      BY <3>1, <3>2, <3>3
  <2>6. o[n] \in Nat /\ c[n] \in Nat /\ o[n] < c[n]
    <3> HIDE DEF f, S
    <3>1. /\ o[n - 1] * shape[n] + p[n] \in Nat /\ c[n - 1] * shape[n] \in Nat
          /\ o[n - 1] * shape[n] + p[n] < c[n - 1] * shape[n]
      BY <2>2, <2>3, <2>5, Zenon
    <3> QED
      BY <2>4, <3>1, Zenon
  <2> QED
    BY <2>1, <2>6
<1>8. f[m] \in S
  <2> HIDE DEF f, S
  <2>1. m \in 0 .. m
    BY <1>1
  <2> QED
    BY <1>1, <1>6, <1>7, <2>1, Inductive
<1>9. o[m] \in Nat /\ c[m] \in Nat /\ o[m] < c[m]
  BY <1>1, <1>8
<1> QED
  BY <1>4, <1>5, <1>9 DEF m

\* What has a place in memory is a point.
LEMMA PointInside ==
  ASSUME NEW shape \in Seq(Nat), NEW n \in 0 .. Count(shape) - 1
  PROVE  Point(shape, n) \in Points(shape)
<1> DEFINE m == Len(shape)
           tail(d) == SubSeq(shape, d + 1, m)
<1>1. m \in Nat /\ shape \in Seq(Int) /\ \A d \in 1 .. m : shape[d] \in Nat
  OBVIOUS
<1>2. Count(shape) \in Nat /\ \A d \in 1 .. m : shape[d] # 0
  BY CountPositive
<1>3. ASSUME NEW d \in 1 .. m PROVE Count(tail(d)) \in Nat /\ Count(tail(d)) # 0
  <2>1. tail(d) \in Seq(Nat) /\ \A k \in 1 .. Len(tail(d)) : tail(d)[k] = shape[d + k] /\ d + k \in 1 .. m
    BY <1>1
  <2>2. \A k \in 1 .. Len(tail(d)) : tail(d)[k] # 0
    BY <1>2, <2>1
  <2> HIDE DEF tail
  <2> QED
    BY <2>1, <2>2, CountPositive
<1>4. n \in Nat /\ ~(n >= Count(shape))
  BY <1>2
<1>5. Point(shape, n) = [d \in 1 .. m |-> (n \div Count(tail(d))) % shape[d]]
  BY <1>4 DEF Point
<1>6. ASSUME NEW d \in 1 .. m
      PROVE  /\ (n \div Count(tail(d))) % shape[d] \in Nat
             /\ (n \div Count(tail(d))) % shape[d] < shape[d]
  <2> HIDE DEF tail
  <2>1. n \div Count(tail(d)) \in Int
    BY <1>3, <1>4
  <2>2. shape[d] \in Nat /\ shape[d] > 0
    BY <1>1, <1>2
  <2> QED
    BY <2>1, <2>2
<1> HIDE DEF tail, m
<1>7. Point(shape, n) \in [1 .. m -> Nat] /\ \A d \in 1 .. m : Point(shape, n)[d] < shape[d]
  BY <1>5, <1>6
<1> QED
  BY <1>1, <1>7, PointsOf DEF m

-----------------------------------------------------------------------------
(* The dimensions that a reduction keeps. *)

\* What comes after x when dimension n is looked at.
Keep(axes, n, x) == IF \E i \in DOMAIN axes : axes[i] = n - 1 THEN x ELSE Append(x, n)
\* The list of dimensions after dimension n, from that before it.
Output(shape, axes, n, x) == IF n - 1 \in ToSet(axes) THEN x ELSE Append(x, shape[n])

\* The dimensions that are kept, one after the other.
LEMMA KeptEquation ==
  ASSUME NEW shape \in Seq(Int), NEW axes
  PROVE  \E f \in [0 .. Len(shape) -> Seq(1 .. Len(shape))] :
           /\ f[0] = << >> /\ Kept(shape, axes) = f[Len(shape)]
           /\ \A n \in 1 .. Len(shape) : f[n] = Keep(axes, n, f[n - 1])
<1> DEFINE m == Len(shape)
           S == Seq(1 .. m)
           g == [n \in 1 .. m |-> [x \in S |-> Keep(axes, n, x)]]
           p == CHOOSE p : p = [n \in 0 .. Len(shape) |->
                  IF n = 0 THEN << >> ELSE Keep(axes, n, p[n - 1])]
<1>1. m \in Nat /\ \A n \in 1 .. m : shape[n] \in Int
  OBVIOUS
<1>2. << >> \in S /\ \A n \in 1 .. m, x \in S : Keep(axes, n, x) \in S
  <2>1. ASSUME NEW n \in 1 .. m, NEW x \in S PROVE Keep(axes, n, x) \in S
    <3>1. Append(x, n) \in S
      OBVIOUS
    <3> HIDE DEF S
    <3> QED
      BY <3>1 DEF Keep
  <2> QED
    BY <2>1
<1>3. g \in [1 .. m -> [S -> S]] /\ \A n \in 1 .. m, x \in S : g[n][x] = Keep(axes, n, x)
  <2> HIDE DEF S, m
  <2> QED
    BY <1>2
<1>4. Kept(shape, axes) = p[m]
  BY DEF Kept, Keep
<1> HIDE DEF m, S, g
<1>5. \E f : f = [n \in 0 .. m |-> IF n = 0 THEN << >> ELSE Keep(axes, n, f[n - 1])]
  <2>1. PICK f \in [0 .. m -> S] : Follows(m, << >>, g, f)
    BY <1>1, <1>2, <1>3, Recursion
  <2>2. ASSUME NEW n \in 1 .. m PROVE f[n] = Keep(axes, n, f[n - 1])
    <3>1. f[n - 1] \in S /\ f[n] = g[n][f[n - 1]]
      BY <1>1, <2>1 DEF Follows
    <3> QED
      BY <1>3, <3>1
  <2>3. f[0] = << >>
    BY <2>1 DEF Follows
  <2>4. f = [n \in 0 .. m |-> IF n = 0 THEN << >> ELSE Keep(axes, n, f[n - 1])]
    BY <1>1, <2>1, <2>2, <2>3
  <2> QED
    BY <2>4
<1>6. p = [n \in 0 .. m |-> IF n = 0 THEN << >> ELSE Keep(axes, n, p[n - 1])]
  <2> USE DEF m
  <2> QED
    BY <1>5
<1> HIDE DEF p
<1>7. p[0] = << >> /\ \A n \in 1 .. m : p[n] = Keep(axes, n, p[n - 1])
  BY <1>1, <1>6
<1>8. \A n \in 1 .. m : p[n - 1] \in S => p[n] \in S
  BY <1>2, <1>7
<1>9. \A n \in 0 .. m : p[n] \in S
  BY <1>1, <1>2, <1>7, <1>8, Inductive
<1>10. p \in [0 .. m -> S]
  BY <1>6, <1>9
<1> QED
  BY <1>4, <1>7, <1>10 DEF m, S

\* The same for their sizes.
LEMMA OutputEquation ==
  ASSUME NEW shape \in Seq(Int), NEW axes
  PROVE  \E f \in [0 .. Len(shape) -> Seq(Int)] :
           /\ f[0] = << >> /\ output_shape(shape, axes) = f[Len(shape)]
           /\ \A n \in 1 .. Len(shape) : f[n] = Output(shape, axes, n, f[n - 1])
<1> DEFINE m == Len(shape)
           S == Seq(Int)
           g == [n \in 1 .. m |-> [x \in S |-> Output(shape, axes, n, x)]]
           p == CHOOSE p : p = [n \in 0 .. Len(shape) |->
                  IF n = 0 THEN << >> ELSE Output(shape, axes, n, p[n - 1])]
<1>1. m \in Nat /\ \A n \in 1 .. m : shape[n] \in Int
  OBVIOUS
<1>2. << >> \in S /\ \A n \in 1 .. m, x \in S : Output(shape, axes, n, x) \in S
  BY <1>1 DEF Output
<1>3. g \in [1 .. m -> [S -> S]] /\ \A n \in 1 .. m, x \in S : g[n][x] = Output(shape, axes, n, x)
  <2> HIDE DEF S, m
  <2> QED
    BY <1>2
<1>4. output_shape(shape, axes) = p[m]
  BY DEF output_shape, Output
<1> HIDE DEF m, S, g
<1>5. \E f : f = [n \in 0 .. m |-> IF n = 0 THEN << >> ELSE Output(shape, axes, n, f[n - 1])]
  <2>1. PICK f \in [0 .. m -> S] : Follows(m, << >>, g, f)
    BY <1>1, <1>2, <1>3, Recursion
  <2>2. ASSUME NEW n \in 1 .. m PROVE f[n] = Output(shape, axes, n, f[n - 1])
    <3>1. f[n - 1] \in S /\ f[n] = g[n][f[n - 1]]
      BY <1>1, <2>1 DEF Follows
    <3> QED
      BY <1>3, <3>1
  <2>3. f[0] = << >>
    BY <2>1 DEF Follows
  <2>4. f = [n \in 0 .. m |-> IF n = 0 THEN << >> ELSE Output(shape, axes, n, f[n - 1])]
    BY <1>1, <2>1, <2>2, <2>3
  <2> QED
    BY <2>4
<1>6. p = [n \in 0 .. m |-> IF n = 0 THEN << >> ELSE Output(shape, axes, n, p[n - 1])]
  <2> USE DEF m
  <2> QED
    BY <1>5
<1> HIDE DEF p
<1>7. p[0] = << >> /\ \A n \in 1 .. m : p[n] = Output(shape, axes, n, p[n - 1])
  BY <1>1, <1>6
<1>8. \A n \in 1 .. m : p[n - 1] \in S => p[n] \in S
  BY <1>2, <1>7
<1>9. \A n \in 0 .. m : p[n] \in S
  BY <1>1, <1>2, <1>7, <1>8, Inductive
<1>10. p \in [0 .. m -> S]
  BY <1>6, <1>9
<1> QED
  BY <1>4, <1>7, <1>10 DEF m, S

\* Every dimension that is not reduced is kept.
Others(kept, axes, n) ==
  \A d \in 1 .. n : (~\E i \in DOMAIN axes : axes[i] = d - 1) => \E k \in 1 .. Len(kept) : kept[k] = d

\* A reduction keeps the dimensions that are not axes, in order.
LEMMA KeptFacts ==
  ASSUME NEW shape \in Seq(Int), NEW axes
  PROVE  /\ Kept(shape, axes) \in Seq(1 .. Len(shape))
         /\ Others(Kept(shape, axes), axes, Len(shape))
<1> DEFINE m == Len(shape)
           out(n) == \E i \in DOMAIN axes : axes[i] = n - 1
<1>1. PICK f \in [0 .. m -> Seq(1 .. m)] :
        /\ f[0] = << >> /\ Kept(shape, axes) = f[m]
        /\ \A n \in 1 .. m : f[n] = Keep(axes, n, f[n - 1])
  BY KeptEquation
<1>2. m \in Nat /\ m \in 0 .. m
  OBVIOUS
<1> HIDE DEF m, out
<1> SUFFICES ASSUME NEW d \in 1 .. m, ~out(d)
             PROVE  \E k \in 1 .. Len(f[m]) : f[m][k] = d
  BY <1>1, <1>2 DEF m, out, Others
<1> DEFINE S == {x \in Seq(1 .. m) : \E k \in 1 .. Len(x) : x[k] = d}
           b == [n \in 0 .. m - d |-> f[d + n]]
<1>3. m - d \in Nat /\ m - d \in 0 .. m - d /\ d + (m - d) = m
  BY <1>2
<1>4. b[0] \in S
  <2>1. f[d] = Append(f[d - 1], d) /\ f[d - 1] \in Seq(1 .. m) /\ f[d] \in Seq(1 .. m)
    <3>1. f[d - 1] \in Seq(1 .. m) /\ f[d] \in Seq(1 .. m) /\ f[d] = Keep(axes, d, f[d - 1])
      BY <1>1, <1>2
    <3>2. Keep(axes, d, f[d - 1]) = Append(f[d - 1], d)
      BY DEF Keep, out
    <3> QED
      BY <3>1, <3>2
  <2>2. Len(f[d]) \in 1 .. Len(f[d]) /\ f[d][Len(f[d])] = d
    BY <2>1
  <2> QED
    BY <1>3, <2>1, <2>2
<1>5. ASSUME NEW n \in 1 .. m - d, b[n - 1] \in S PROVE b[n] \in S
  <2>1. d + n \in 1 .. m /\ d + (n - 1) = d + n - 1 /\ n - 1 \in 0 .. m - d /\ n \in 0 .. m - d
    BY <1>2
  <2>2. f[d + n - 1] \in S
    BY <1>5, <2>1
  <2>3. f[d + n] = IF out(d + n) THEN f[d + n - 1] ELSE Append(f[d + n - 1], d + n)
    BY <1>1, <2>1 DEF Keep, out
  <2>4. f[d + n] \in S
    <3>1. PICK k \in 1 .. Len(f[d + n - 1]) : f[d + n - 1][k] = d
      BY <2>2
    <3>2. CASE out(d + n)
      BY <2>2, <2>3, <3>2
    <3>3. CASE ~out(d + n)
      <4>1. f[d + n] = Append(f[d + n - 1], d + n) /\ f[d + n - 1] \in Seq(1 .. m)
        BY <2>2, <2>3, <3>3
      <4>2. k \in 1 .. Len(f[d + n]) /\ f[d + n][k] = d /\ f[d + n] \in Seq(1 .. m)
        BY <2>1, <3>1, <4>1
      <4> QED
        BY <4>2
    <3> QED
      BY <3>2, <3>3
  <2> QED
    BY <2>1, <2>4
<1>6. b[m - d] \in S
  <2> HIDE DEF b, S
  <2> QED
    BY <1>3, <1>4, <1>5, Inductive
<1> QED
  BY <1>3, <1>6

\* What sema infers is what the builder computes.
LEMMA OutputIsKept ==
  ASSUME NEW shape \in Seq(Int), NEW axes
  PROVE  output_shape(shape, axes) =
           [i \in DOMAIN Kept(shape, axes) |-> shape[Kept(shape, axes)[i]]]
<1> DEFINE m == Len(shape)
           out(n) == \E i \in DOMAIN axes : axes[i] = n - 1
<1>1. PICK f \in [0 .. m -> Seq(1 .. m)] :
        /\ f[0] = << >> /\ Kept(shape, axes) = f[m]
        /\ \A n \in 1 .. m : f[n] = Keep(axes, n, f[n - 1])
  BY KeptEquation
<1>2. PICK o \in [0 .. m -> Seq(Int)] :
        /\ o[0] = << >> /\ output_shape(shape, axes) = o[m]
        /\ \A n \in 1 .. m : o[n] = Output(shape, axes, n, o[n - 1])
  BY OutputEquation
<1>3. m \in Nat /\ m \in 0 .. m
  OBVIOUS
<1>4. \A n \in 1 .. m : out(n) <=> n - 1 \in ToSet(axes)
  BY DEF ToSet
<1> HIDE DEF m, out
<1> DEFINE Match(x, y) == Len(x) = Len(y) /\ \A i \in 1 .. Len(y) : x[i] = shape[y[i]]
           S == {z \in Seq(Int) \X Seq(1 .. m) : Match(z[1], z[2])}
           b == [n \in 0 .. m |-> <<o[n], f[n]>>]
<1>5. b[0] \in S
  BY <1>1, <1>2, <1>3
<1>6. ASSUME NEW n \in 1 .. m, b[n - 1] \in S PROVE b[n] \in S
  <2>1. n \in 0 .. m /\ n - 1 \in 0 .. m
    BY <1>3
  <2>2. Match(o[n - 1], f[n - 1]) /\ o[n - 1] \in Seq(Int) /\ f[n - 1] \in Seq(1 .. m)
    BY <1>6, <2>1
  <2>3. o[n] \in Seq(Int) /\ f[n] \in Seq(1 .. m)
    BY <1>1, <1>2, <2>1
  <2>4. Match(o[n], f[n])
    <3>1. CASE out(n)
      BY <1>1, <1>2, <1>4, <2>2, <3>1 DEF Keep, Output, out
    <3>2. CASE ~out(n)
      <4>1. o[n] = Append(o[n - 1], shape[n]) /\ f[n] = Append(f[n - 1], n)
        BY <1>1, <1>2, <1>4, <3>2 DEF Keep, Output, out
      <4>2. Len(o[n]) = Len(o[n - 1]) + 1 /\ Len(f[n]) = Len(f[n - 1]) + 1 /\ Len(f[n - 1]) \in Nat
        BY <2>2, <4>1
      <4>3. ASSUME NEW i \in 1 .. Len(f[n]) PROVE o[n][i] = shape[f[n][i]]
        <5>1. CASE i = Len(f[n])
          BY <2>2, <4>1, <4>2, <5>1
        <5>2. CASE i # Len(f[n])
          <6>1. i \in 1 .. Len(f[n - 1])
            BY <4>2, <5>2
          <6>2. o[n][i] = o[n - 1][i] /\ f[n][i] = f[n - 1][i]
            BY <2>2, <4>1, <6>1
          <6> QED
            BY <2>2, <6>1, <6>2
        <5> QED
          BY <5>1, <5>2
      <4> QED
        BY <2>2, <4>2, <4>3
    <3> QED
      BY <3>1, <3>2
  <2> HIDE DEF Match
  <2> QED
    BY <2>1, <2>3, <2>4
<1>7. b[m] \in S
  <2> HIDE DEF b, S
  <2> QED
    BY <1>3, <1>5, <1>6, Inductive
<1>8. o[m] \in Seq(Int) /\ f[m] \in Seq(1 .. m) /\ Match(o[m], f[m])
  BY <1>3, <1>7
<1>9. o[m] = [i \in DOMAIN f[m] |-> shape[f[m][i]]]
  <2>1. DOMAIN f[m] = 1 .. Len(f[m])
    BY <1>8
  <2>2. o[m] = [i \in 1 .. Len(f[m]) |-> shape[f[m][i]]]
    <3>1. \A x \in Seq(Int) : x = [i \in 1 .. Len(x) |-> x[i]]
      OBVIOUS
    <3>2. o[m] = [i \in 1 .. Len(o[m]) |-> o[m][i]]
      BY <1>8, <3>1, Zenon
    <3> QED
      BY <1>8, <3>2
  <2> QED
    BY <2>1, <2>2
<1> QED
  BY <1>1, <1>2, <1>9

-----------------------------------------------------------------------------
(* Kernels from affine maps. *)

\* The shape that the i-th map of a kernel of n operands is for.
MapShape(ins, type, n, i) == IF i = n + 1 THEN type.shape ELSE ins[i].shape

\* The sizes of the dimensions that the maps give to a loop.
Ranges(ins, type, n, maps, d) ==
  UNION {{MapShape(ins, type, n, i)[k] : k \in {j \in DOMAIN maps[i] : maps[i][j] = d}} : i \in 1 .. n + 1}

\* The loops agree with the dimensions.
Agree(ins, type, n, maps, L) ==
  \A i \in 1 .. n + 1 :
    /\ Len(maps[i]) = Len(MapShape(ins, type, n, i))
    /\ \A k \in DOMAIN maps[i] :
         IF maps[i][k] = 0 THEN MapShape(ins, type, n, i)[k] >= 1
         ELSE Ranges(ins, type, n, maps, maps[i][k]) = {MapShape(ins, type, n, i)[k]}

\* Operands and maps, of which each loop is in one.
Mapped(ins, type, n, maps, L) ==
  /\ n \in Nat /\ L \in Nat
  /\ Len(ins) = n /\ DOMAIN ins = 1 .. n
  /\ \A i \in 1 .. n : ins[i].shape \in Seq(Nat)
  /\ type.shape \in Seq(Nat)
  /\ maps \in Seq(Seq(0 .. L)) /\ Len(maps) = n + 1
  /\ \A d \in 1 .. L : \E i \in 1 .. n + 1 : \E k \in DOMAIN maps[i] : maps[i][k] = d

\* The kernel of operands and maps that agree.
GenericKernel(ins, type, n, maps, iters, init, body) ==
  LET dom == [d \in DOMAIN iters |-> CHOOSE r \in Ranges(ins, type, n, maps, d) : TRUE] IN
  Kernel(dom, iters, ins,
         [p \in Points(dom) |-> [i \in 1 .. n |-> <<i, Apply(maps[i], p)>>]],
         [p \in Points(dom) |-> Apply(maps[n + 1], p)], type, init, body)

\* As many maps as operands and one for the result, each a list of loops.
LEMMA MapsAre ==
  ASSUME NEW ins, NEW type, NEW n, NEW maps, NEW L, Mapped(ins, type, n, maps, L)
  PROVE  /\ DOMAIN maps = 1 .. n + 1 /\ Len(maps) = n + 1 /\ DOMAIN ins = 1 .. n /\ n \in Nat /\ L \in Nat
         /\ \A i \in 1 .. n + 1 : /\ maps[i] \in Seq(0 .. L) /\ DOMAIN maps[i] = 1 .. Len(maps[i])
                                   /\ \A k \in DOMAIN maps[i] : maps[i][k] \in 0 .. L
<1>1. DOMAIN maps = 1 .. n + 1 /\ Len(maps) = n + 1 /\ DOMAIN ins = 1 .. n /\ n \in Nat /\ L \in Nat
  BY DEF Mapped
<1>2. \A i \in 1 .. n + 1 : maps[i] \in Seq(0 .. L)
  BY <1>1 DEF Mapped
<1>3. ASSUME NEW S, NEW x \in Seq(S)
      PROVE  DOMAIN x = 1 .. Len(x) /\ \A k \in DOMAIN x : x[k] \in S
  OBVIOUS
<1> QED
  BY <1>1, <1>2, <1>3

\* linalg.generic makes that kernel if the shapes agree, and none otherwise.
LEMMA GenericIs ==
  ASSUME NEW ins, NEW type, NEW n, NEW maps, NEW L, NEW iters, NEW init, NEW body,
         Mapped(ins, type, n, maps, L), DOMAIN iters = 1 .. L
  PROVE  Generic(ins, type, maps, iters, init, body) =
           IF Agree(ins, type, n, maps, L) THEN <<GenericKernel(ins, type, n, maps, iters, init, body)>>
           ELSE << >>
<1> DEFINE shapes == Append([i \in DOMAIN ins |-> ins[i].shape], type.shape)
           ranges == [d \in DOMAIN iters |-> UNION {{shapes[i][k] : k \in
                        {j \in DOMAIN maps[i] : maps[i][j] = d}} : i \in DOMAIN maps}]
           dom == [d \in DOMAIN iters |-> CHOOSE r \in ranges[d] : TRUE]
           fits == \A i \in DOMAIN maps : Len(maps[i]) = Len(shapes[i]) /\
                     \A k \in DOMAIN maps[i] :
                       IF maps[i][k] = 0 THEN shapes[i][k] >= 1 ELSE ranges[maps[i][k]] = {shapes[i][k]}
           some == Kernel(dom, iters, ins,
                    [p \in Points(dom) |-> [i \in DOMAIN ins |-> <<i, Apply(maps[i], p)>>]],
                    [p \in Points(dom) |-> Apply(maps[Len(maps)], p)], type, init, body)
<1>1. Generic(ins, type, maps, iters, init, body) = IF fits THEN <<some>> ELSE << >>
  BY DEF Generic
<1>2. /\ DOMAIN maps = 1 .. n + 1 /\ Len(maps) = n + 1 /\ DOMAIN ins = 1 .. n /\ n \in Nat
      /\ \A i \in 1 .. n + 1 : DOMAIN maps[i] = 1 .. Len(maps[i]) /\ \A k \in DOMAIN maps[i] : maps[i][k] \in 0 .. L
  BY MapsAre
<1>3. \A i \in 1 .. n + 1 : shapes[i] = MapShape(ins, type, n, i)
  <2> DEFINE s == [i \in 1 .. n |-> ins[i].shape]
  <2>1. s \in Seq(Seq(Int)) /\ Len(s) = n /\ \A i \in 1 .. n : s[i] = ins[i].shape
    BY <1>2 DEF Mapped
  <2>2. shapes = Append(s, type.shape)
    BY <1>2
  <2> HIDE DEF s, shapes
  <2>3. \A i \in 1 .. n + 1 : shapes[i] = IF i = n + 1 THEN type.shape ELSE s[i]
    BY <1>2, <2>1, <2>2 DEF Mapped
  <2> QED
    BY <1>2, <2>1, <2>3 DEF MapShape
<1> HIDE DEF shapes
<1>4. \A d \in 1 .. L : ranges[d] = Ranges(ins, type, n, maps, d)
  <2> SUFFICES ASSUME NEW d \in 1 .. L
               PROVE  ranges[d] = Ranges(ins, type, n, maps, d)
    OBVIOUS
  <2>1. ranges[d] = UNION {{shapes[i][k] : k \in {j \in DOMAIN maps[i] : maps[i][j] = d}} : i \in 1 .. n + 1}
    BY <1>2
  <2>2. \A i \in 1 .. n + 1 :
          {shapes[i][k] : k \in {j \in DOMAIN maps[i] : maps[i][j] = d}}
            = {MapShape(ins, type, n, i)[k] : k \in {j \in DOMAIN maps[i] : maps[i][j] = d}}
    BY <1>3
  <2> DEFINE A(i) == {shapes[i][k] : k \in {j \in DOMAIN maps[i] : maps[i][j] = d}}
             B(i) == {MapShape(ins, type, n, i)[k] : k \in {j \in DOMAIN maps[i] : maps[i][j] = d}}
  <2>3. Ranges(ins, type, n, maps, d) = UNION {B(i) : i \in 1 .. n + 1}
    BY DEF Ranges
  <2>4. ranges[d] = UNION {A(i) : i \in 1 .. n + 1}
    BY <2>1
  <2>5. \A i \in 1 .. n + 1 : A(i) = B(i)
    BY <2>2
  <2> HIDE DEF ranges, A, B
  <2> QED
    BY <2>3, <2>4, <2>5
<1>5. dom = [d \in DOMAIN iters |-> CHOOSE r \in Ranges(ins, type, n, maps, d) : TRUE]
  BY <1>4
<1> HIDE DEF ranges, dom
<1>6. fits <=> Agree(ins, type, n, maps, L)
  <2> DEFINE A(i, k) == IF maps[i][k] = 0 THEN shapes[i][k] >= 1 ELSE ranges[maps[i][k]] = {shapes[i][k]}
             B(i, k) == IF maps[i][k] = 0 THEN MapShape(ins, type, n, i)[k] >= 1
                        ELSE Ranges(ins, type, n, maps, maps[i][k]) = {MapShape(ins, type, n, i)[k]}
  <2>1. ASSUME NEW i \in 1 .. n + 1, NEW k \in DOMAIN maps[i] PROVE A(i, k) <=> B(i, k)
    <3>1. maps[i][k] # 0 => maps[i][k] \in 1 .. L
      BY <1>2
    <3> QED
      BY <1>3, <1>4, <3>1
  <2>2. \A i \in 1 .. n + 1 : Len(maps[i]) = Len(shapes[i]) <=> Len(maps[i]) = Len(MapShape(ins, type, n, i))
    BY <1>3
  <2>3. fits <=> \A i \in 1 .. n + 1 : Len(maps[i]) = Len(shapes[i]) /\ \A k \in DOMAIN maps[i] : A(i, k)
    BY <1>2
  <2>4. Agree(ins, type, n, maps, L) <=>
          \A i \in 1 .. n + 1 :
            Len(maps[i]) = Len(MapShape(ins, type, n, i)) /\ \A k \in DOMAIN maps[i] : B(i, k)
    BY DEF Agree
  <2> HIDE DEF A, B, fits
  <2> QED
    BY <2>1, <2>2, <2>3, <2>4
<1>7. some = GenericKernel(ins, type, n, maps, iters, init, body)
  BY <1>2, <1>5 DEF GenericKernel
<1> QED
  BY <1>1, <1>6, <1>7

\* All dimensions that a map gives to a loop are D of the loop.
Fits(ins, type, n, maps, D) ==
  \A i \in 1 .. n + 1 :
    /\ Len(maps[i]) = Len(MapShape(ins, type, n, i))
    /\ \A k \in DOMAIN maps[i] :
         IF maps[i][k] = 0 THEN MapShape(ins, type, n, i)[k] >= 1
         ELSE MapShape(ins, type, n, i)[k] = D[maps[i][k]]

\* Then there is a kernel.
LEMMA GenericMade ==
  ASSUME NEW ins, NEW type, NEW n, NEW maps, NEW L, NEW D, Fits(ins, type, n, maps, D)
  PROVE  Agree(ins, type, n, maps, L)
<1>1. ASSUME NEW i \in 1 .. n + 1, NEW k \in DOMAIN maps[i], maps[i][k] # 0
      PROVE  Ranges(ins, type, n, maps, maps[i][k]) = {MapShape(ins, type, n, i)[k]}
  <2> DEFINE d == maps[i][k]
  <2>1. \A x \in Ranges(ins, type, n, maps, d) : x = D[d]
    <3> SUFFICES ASSUME NEW x \in Ranges(ins, type, n, maps, d) PROVE x = D[d]
      OBVIOUS
    <3>1. PICK a \in 1 .. n + 1 : x \in {MapShape(ins, type, n, a)[j] : j \in {j \in DOMAIN maps[a] : maps[a][j] = d}}
      BY DEF Ranges
    <3>2. PICK j \in DOMAIN maps[a] : maps[a][j] = d /\ x = MapShape(ins, type, n, a)[j]
      BY <3>1
    <3>3. MapShape(ins, type, n, a)[j] = D[d]
      BY <1>1, <3>2 DEF Fits
    <3> QED
      BY <3>2, <3>3
  <2>2. MapShape(ins, type, n, i)[k] \in Ranges(ins, type, n, maps, d)
    BY DEF Ranges
  <2>3. MapShape(ins, type, n, i)[k] = D[d]
    BY <1>1 DEF Fits
  <2> QED
    BY <2>1, <2>2, <2>3
<1> QED
  BY <1>1 DEF Agree, Fits

\* A kernel reads the elements of its operands and writes those of its result.
LEMMA GenericInside ==
  ASSUME NEW ins, NEW type, NEW n, NEW maps, NEW L, NEW iters, NEW init, NEW body,
         Mapped(ins, type, n, maps, L), DOMAIN iters = 1 .. L, Agree(ins, type, n, maps, L),
         NEW k, k = GenericKernel(ins, type, n, maps, iters, init, body)
  PROVE  /\ k.iters = iters /\ k.ins = ins /\ k.type = type /\ DOMAIN k.dom = 1 .. L /\ k.dom \in Seq(Nat)
         /\ \A p \in Points(k.dom) :
              /\ p \in [1 .. L -> Nat]
              /\ k.writes[p] = Apply(maps[n + 1], p) /\ k.writes[p] \in Points(type.shape)
              /\ k.reads[p] = [i \in 1 .. n |-> <<i, Apply(maps[i], p)>>]
              /\ \A i \in 1 .. n : Apply(maps[i], p) \in Points(ins[i].shape)
<1> DEFINE dom == [d \in 1 .. L |-> CHOOSE r \in Ranges(ins, type, n, maps, d) : TRUE]
<1>1. /\ k.iters = iters /\ k.ins = ins /\ k.type = type /\ k.dom = dom
      /\ k.reads = [p \in Points(dom) |-> [i \in 1 .. n |-> <<i, Apply(maps[i], p)>>]]
      /\ k.writes = [p \in Points(dom) |-> Apply(maps[n + 1], p)]
  BY DEF GenericKernel, Kernel
<1>2. /\ n \in Nat /\ L \in Nat /\ \A i \in 1 .. n + 1 : MapShape(ins, type, n, i) \in Seq(Nat)
      /\ \A i \in 1 .. n + 1 : /\ maps[i] \in Seq(0 .. L) /\ DOMAIN maps[i] = 1 .. Len(maps[i])
                                /\ \A j \in DOMAIN maps[i] : maps[i][j] \in 0 .. L
  <2>1. n \in Nat /\ L \in Nat
    BY DEF Mapped
  <2>2. ASSUME NEW i \in 1 .. n + 1 PROVE MapShape(ins, type, n, i) \in Seq(Nat)
    <3>1. CASE i = n + 1
      BY <3>1 DEF Mapped, MapShape
    <3>2. CASE i # n + 1
      <4>1. i \in 1 .. n
        BY <2>1, <3>2
      <4> QED
        BY <3>2, <4>1 DEF Mapped, MapShape
    <3> QED
      BY <3>1, <3>2
  <2> QED
    BY <2>1, <2>2, MapsAre
<1>3. ASSUME NEW i \in 1 .. n + 1, NEW j \in DOMAIN maps[i], maps[i][j] # 0
      PROVE  dom[maps[i][j]] = MapShape(ins, type, n, i)[j]
  <2>1. Ranges(ins, type, n, maps, maps[i][j]) = {MapShape(ins, type, n, i)[j]}
    BY <1>3 DEF Agree
  <2>2. maps[i][j] \in 1 .. L
    BY <1>2, <1>3, SMTT(30)
  <2> QED
    BY <2>1, <2>2
<1>4. \A d \in 1 .. L : dom[d] \in Nat
  <2> SUFFICES ASSUME NEW d \in 1 .. L PROVE dom[d] \in Nat
    OBVIOUS
  <2>1. PICK i \in 1 .. n + 1 : \E j \in DOMAIN maps[i] : maps[i][j] = d
    BY DEF Mapped
  <2>2. PICK j \in DOMAIN maps[i] : maps[i][j] = d
    BY <2>1
  <2>3. dom[d] = MapShape(ins, type, n, i)[j]
    <3>1. maps[i][j] # 0
      BY <1>2, <2>2
    <3> QED
      BY <1>3, <2>2, <3>1
  <2>4. j \in 1 .. Len(MapShape(ins, type, n, i))
    BY <1>2 DEF Agree
  <2> HIDE DEF dom
  <2> QED
    BY <1>2, <2>3, <2>4
<1>5. DOMAIN dom = 1 .. L /\ Len(dom) = L
  BY <1>2
<1>51. dom \in Seq(Nat)
  <2>1. dom = [d \in 1 .. L |-> dom[d]]
    OBVIOUS
  <2> HIDE DEF dom
  <2>2. dom \in [1 .. L -> Nat]
    BY <1>4, <2>1
  <2> QED
    BY <1>2, <2>2, FunctionSeq
<1> HIDE DEF dom
<1>6. ASSUME NEW p \in Points(dom) PROVE p \in [1 .. L -> Nat] /\ \A d \in 1 .. L : p[d] < dom[d]
  <2>1. \A d \in DOMAIN dom : dom[d] \in Int
    BY <1>4, <1>5
  <2> QED
    BY <1>4, <1>5, <2>1, PointsAre
<1>7. ASSUME NEW p \in Points(dom), NEW i \in 1 .. n + 1
      PROVE  Apply(maps[i], p) \in Points(MapShape(ins, type, n, i))
  <2> DEFINE q == Apply(maps[i], p)
             s == MapShape(ins, type, n, i)
  <2>1. /\ s \in Seq(Nat) /\ DOMAIN maps[i] = 1 .. Len(s)
        /\ \A j \in DOMAIN maps[i] : maps[i][j] = 0 => s[j] >= 1
    BY <1>2 DEF Agree
  <2>2. q = [j \in 1 .. Len(s) |-> IF maps[i][j] = 0 THEN 0 ELSE p[maps[i][j]]]
    BY <2>1 DEF Apply
  <2>3. ASSUME NEW j \in 1 .. Len(s) PROVE q[j] \in Nat /\ q[j] < s[j]
    <3>1. CASE maps[i][j] = 0
      BY <2>1, <2>2, <3>1
    <3>2. CASE maps[i][j] # 0
      <4>1. maps[i][j] \in 1 .. L /\ q[j] = p[maps[i][j]] /\ dom[maps[i][j]] = s[j]
        BY <1>2, <1>3, <2>1, <2>2, <3>2
      <4> QED
        BY <1>6, <4>1
    <3> QED
      BY <3>1, <3>2
  <2>4. q \in [1 .. Len(s) -> Nat]
    BY <2>2, <2>3
  <2> HIDE DEF q, s
  <2> QED
    BY <2>1, <2>3, <2>4, NatInt, PointsOf DEF q, s
<1>8. ASSUME NEW p \in Points(dom)
      PROVE  /\ k.writes[p] = Apply(maps[n + 1], p) /\ k.writes[p] \in Points(type.shape)
             /\ k.reads[p] = [i \in 1 .. n |-> <<i, Apply(maps[i], p)>>]
             /\ \A i \in 1 .. n : Apply(maps[i], p) \in Points(ins[i].shape)
  <2>1. n + 1 \in 1 .. n + 1 /\ \A i \in 1 .. n : i \in 1 .. n + 1 /\ i # n + 1
    BY <1>2
  <2>2. MapShape(ins, type, n, n + 1) = type.shape /\ \A i \in 1 .. n : MapShape(ins, type, n, i) = ins[i].shape
    BY <2>1 DEF MapShape
  <2> QED
    BY <1>1, <1>7, <2>1, <2>2
<1> QED
  BY <1>1, <1>5, <1>51, <1>6, <1>8

-----------------------------------------------------------------------------
(* Kernels that stay inside of their tensors and write apart. *)

\* What the invariants say of a kernel.
Inside(k) ==
  \A p \in Points(k.dom) :
    /\ k.writes[p] \in Points(k.type.shape)
    /\ \A r \in ToSet(k.reads[p]) : r[2] \in Points(k.ins[r[1]].shape)
Disjoint(k) ==
  \A p, q \in Points(k.dom) : k.writes[p] = k.writes[q] =>
    \A d \in DOMAIN k.dom : k.iters[d] = "parallel" => p[d] = q[d]

\* A kernel was made that does so, for a result of this type.
Sound(lowered, type) ==
  \E k : lowered = <<k>> /\ k.type = type /\ k.dom \in Seq(Nat) /\ Inside(k) /\ Disjoint(k)

\* Each parallel loop is a dimension of the result.
Written(map, iters, L) ==
  DOMAIN iters = 1 .. L /\ \A d \in 1 .. L : iters[d] = "parallel" => \E j \in DOMAIN map : map[j] = d

\* A kernel of affine maps stays inside of its operands and writes apart.
LEMMA GenericGood ==
  ASSUME NEW ins, NEW type, NEW n, NEW maps, NEW L, NEW iters, NEW init, NEW body,
         Mapped(ins, type, n, maps, L), Written(maps[n + 1], iters, L), Agree(ins, type, n, maps, L)
  PROVE  Sound(Generic(ins, type, maps, iters, init, body), type)
<1> DEFINE k == GenericKernel(ins, type, n, maps, iters, init, body)
<1>0. k = GenericKernel(ins, type, n, maps, iters, init, body)
  OBVIOUS
<1> HIDE DEF k
<1>1. Generic(ins, type, maps, iters, init, body) = <<k>>
  BY <1>0, GenericIs DEF Written
<1>2. /\ k.iters = iters /\ k.ins = ins /\ k.type = type /\ DOMAIN k.dom = 1 .. L /\ k.dom \in Seq(Nat)
      /\ \A p \in Points(k.dom) :
           /\ p \in [1 .. L -> Nat]
           /\ k.writes[p] = Apply(maps[n + 1], p) /\ k.writes[p] \in Points(type.shape)
           /\ k.reads[p] = [i \in 1 .. n |-> <<i, Apply(maps[i], p)>>]
           /\ \A i \in 1 .. n : Apply(maps[i], p) \in Points(ins[i].shape)
  BY <1>0, GenericInside DEF Written
<1>3. n \in Nat /\ L \in Nat
  BY MapsAre
<1>4. Inside(k)
  <2> SUFFICES ASSUME NEW p \in Points(k.dom), NEW r \in ToSet(k.reads[p])
               PROVE  r[2] \in Points(k.ins[r[1]].shape)
    BY <1>2 DEF Inside
  <2>1. PICK i \in 1 .. n : r = <<i, Apply(maps[i], p)>>
    <3> DEFINE f == [i \in 1 .. n |-> <<i, Apply(maps[i], p)>>]
    <3>1. k.reads[p] = f
      BY <1>2
    <3>2. r \in ToSet(f)
      BY <3>1
    <3> QED
      BY <3>2 DEF ToSet
  <2> QED
    BY <1>2, <2>1
<1>5. Disjoint(k)
  <2> SUFFICES ASSUME NEW p \in Points(k.dom), NEW q \in Points(k.dom), k.writes[p] = k.writes[q],
                      NEW d \in 1 .. L, iters[d] = "parallel"
               PROVE  p[d] = q[d]
    BY <1>2 DEF Disjoint
  <2>1. PICK j \in DOMAIN maps[n + 1] : maps[n + 1][j] = d
    BY DEF Written
  <2>2. Apply(maps[n + 1], p) = Apply(maps[n + 1], q)
    BY <1>2
  <2>3. d # 0
    BY <1>3
  <2>4. Apply(maps[n + 1], p)[j] = p[d] /\ Apply(maps[n + 1], q)[j] = q[d]
    BY <2>1, <2>3 DEF Apply
  <2> QED
    BY <2>2, <2>4
<1> QED
  BY <1>1, <1>2, <1>4, <1>5 DEF Sound

\* A kernel that writes at every point the element of that point.
LEMMA CopyGood ==
  ASSUME NEW k, k.dom = k.type.shape, \A p \in Points(k.dom) : k.writes[p] = p,
         \A p \in Points(k.dom) : \A r \in ToSet(k.reads[p]) : r[2] \in Points(k.ins[r[1]].shape)
  PROVE  Inside(k) /\ Disjoint(k)
  BY DEF Inside, Disjoint

-----------------------------------------------------------------------------
(* Identity maps: the operands and the result have one shape. *)

\* An elementwise operation on operands of one shape makes such a kernel.
LEMMA ElementwiseGood ==
  ASSUME NEW ins, NEW type, NEW n \in Nat, Len(ins) = n, DOMAIN ins = 1 .. n, type.shape \in Seq(Nat),
         \A i \in 1 .. n : ins[i].shape = type.shape, NEW body
  PROVE  Sound(Elementwise(ins, type, body), type)
<1> DEFINE s == type.shape
           L == Len(s)
           identity == [d \in DOMAIN s |-> d]
           maps == [i \in 1 .. Len(ins) + 1 |-> identity]
           iters == Parallel(L)
<1>1. L \in Nat /\ DOMAIN s = 1 .. L /\ s \in Seq(Int)
  OBVIOUS
<1>2. identity \in Seq(0 .. L) /\ Len(identity) = L /\ DOMAIN identity = 1 .. L /\ \A d \in 1 .. L : identity[d] = d
  <2>1. identity = [d \in 1 .. L |-> d]
    BY <1>1
  <2> HIDE DEF L, identity
  <2> QED
    BY <1>1, <2>1
<1> HIDE DEF identity, L
<1>3. maps \in Seq(Seq(0 .. L)) /\ Len(maps) = n + 1 /\ \A i \in 1 .. n + 1 : maps[i] = identity
  BY <1>2
<1>4. n + 1 \in 1 .. n + 1
  OBVIOUS
<1> HIDE DEF maps
<1>5. Mapped(ins, type, n, maps, L)
  <2>1. \A d \in 1 .. L : \E i \in 1 .. n + 1 : \E k \in DOMAIN maps[i] : maps[i][k] = d
    BY <1>2, <1>3, <1>4
  <2> QED
    BY <1>1, <1>3, <2>1 DEF Mapped
<1>6. \A i \in 1 .. n + 1 : MapShape(ins, type, n, i) = s
  BY DEF MapShape
<1>7. Agree(ins, type, n, maps, L)
  <2> HIDE DEF s
  <2>1. ASSUME NEW i \in 1 .. n + 1
        PROVE  /\ Len(maps[i]) = Len(MapShape(ins, type, n, i))
               /\ \A k \in DOMAIN maps[i] :
                    IF maps[i][k] = 0 THEN MapShape(ins, type, n, i)[k] >= 1
                    ELSE MapShape(ins, type, n, i)[k] = s[maps[i][k]]
    <3>1. maps[i] = identity /\ MapShape(ins, type, n, i) = s /\ Len(s) = L
      BY <1>3, <1>6 DEF L
    <3>2. \A k \in 1 .. L : k # 0
      BY <1>1
    <3> QED
      BY <1>2, <3>1, <3>2
  <2> QED
    <3>1. Fits(ins, type, n, maps, s)
      BY <2>1 DEF Fits
    <3> QED
      BY <3>1, GenericMade
<1>8. Written(maps[n + 1], iters, L)
  BY <1>2, <1>3, <1>4 DEF Written, Parallel
<1>9. Elementwise(ins, type, body) = Generic(ins, type, maps, iters, Garbage, body)
  BY DEF Elementwise, maps, identity, L
<1> HIDE DEF iters
<1>10. Sound(Generic(ins, type, maps, iters, Garbage, body), type)
  BY <1>5, <1>7, <1>8, GenericGood
<1> QED
  BY <1>9, <1>10

-----------------------------------------------------------------------------
(* The stages, by the name of the expression. *)

\* The functions that take a tensor and a list.
Listed == {"broadcast", "reduce_sum", "reduce_max", "reshape", "transpose"}
\* No name is of two kinds.
LEMMA Apart ==
  ASSUME NEW x
  PROVE  /\ x \in Calculations => x \notin FloatFunctions
         /\ x \in Calculations \cup FloatFunctions =>
              /\ x \in Registered /\ x \notin Arithmetic /\ x \notin Comparisons /\ x \notin Listed
              /\ x \notin {"print", "matmul", "gather", "stack", "neg", "elements", "slice", "reduce_sum", "reduce_max"}
         /\ x \in Arithmetic => x \notin Comparisons
         /\ x \in Arithmetic \cup Comparisons =>
              /\ x \notin Registered /\ x \notin Calculations /\ x \notin FloatFunctions /\ x \notin Listed
              /\ x \notin {"print", "matmul", "gather", "stack", "neg", "elements", "slice", "reduce_sum", "reduce_max"}
         /\ x \in {"neg", "elements", "slice"} =>
              /\ x \notin Registered /\ x \notin Calculations /\ x \notin FloatFunctions /\ x \notin Listed
              /\ x \notin Arithmetic /\ x \notin Comparisons
         /\ x \in Listed \cup {"print", "matmul", "gather", "stack", "reduce_sum", "reduce_max"} =>
              /\ x \in Registered /\ x \notin Calculations /\ x \notin FloatFunctions 
              /\ x \notin Arithmetic /\ x \notin Comparisons
         /\ x \in {"print", "matmul", "gather", "stack"} => x \notin Listed
  BY DEF Registered, Calculations, FloatFunctions, Listed, Arithmetic, Comparisons

\* What sema asks of an expression.
LEMMA ResolveIs ==
  ASSUME NEW x, NEW args
  PROVE  /\ x \in Calculations => Resolve(x, args) = calculation_infer(args)
         /\ x \in FloatFunctions => Resolve(x, args) = float_infer(args)
         /\ x = "print" => Resolve(x, args) = print_infer(args)
         /\ x = "matmul" => Resolve(x, args) = matmul_infer(args)
         /\ x = "broadcast" => Resolve(x, args) = broadcast_infer(args)
         /\ x \in {"reduce_sum", "reduce_max"} => Resolve(x, args) = reduce_infer(args)
         /\ x = "reshape" => Resolve(x, args) = reshape_infer(args)
         /\ x = "transpose" => Resolve(x, args) = transpose_infer(args)
         /\ x = "gather" => Resolve(x, args) = gather_infer(args)
         /\ x = "stack" => Resolve(x, args) = stack_infer(args)
         /\ x \in Arithmetic \cup Comparisons =>
              Resolve(x, args) = resolve_binary_expr(x, args[1].type, args[2].type)
         /\ x = "neg" => Resolve(x, args) = Answer(args[1].type, FALSE)
         /\ x = "elements" => Resolve(x, args) = resolve_tensor(args)
         /\ x = "slice" => Resolve(x, args) = resolve_index_access(args[1].type, args[2].type)
<1>1. /\ x \in Calculations => Infer(x, args) = calculation_infer(args)
      /\ x \in FloatFunctions => Infer(x, args) = float_infer(args)
      /\ x = "print" => Infer(x, args) = print_infer(args)
      /\ x = "matmul" => Infer(x, args) = matmul_infer(args)
      /\ x = "broadcast" => Infer(x, args) = broadcast_infer(args)
      /\ x \in {"reduce_sum", "reduce_max"} => Infer(x, args) = reduce_infer(args)
      /\ x = "reshape" => Infer(x, args) = reshape_infer(args)
      /\ x = "transpose" => Infer(x, args) = transpose_infer(args)
      /\ x = "gather" => Infer(x, args) = gather_infer(args)
      /\ x = "stack" => Infer(x, args) = stack_infer(args)
  BY Apart DEF Infer, Listed
<1>2. x \in Registered => Resolve(x, args) = Infer(x, args)
  BY Apart DEF Resolve
<1>3. /\ x \in Arithmetic \cup Comparisons =>
              Resolve(x, args) = resolve_binary_expr(x, args[1].type, args[2].type)
      /\ x = "neg" => Resolve(x, args) = Answer(args[1].type, FALSE)
      /\ x = "elements" => Resolve(x, args) = resolve_tensor(args)
      /\ x = "slice" => Resolve(x, args) = resolve_index_access(args[1].type, args[2].type)
  BY Apart DEF Resolve
<1> QED
  BY <1>1, <1>2, <1>3, Apart DEF Listed

\* The pattern that takes an operation.
LEMMA LowerIs ==
  ASSUME NEW o
  PROVE  /\ o.kind \in Calculations \cup FloatFunctions \cup {"neg"} \cup Arithmetic \cup Comparisons =>
              Lower(o) = Elementwise(o.args, o.type, o.kind)
         /\ o.kind = "matmul" => Lower(o) = lowering_matmul(o)
         /\ o.kind = "elements" => Lower(o) = lowering_elements(o)
         /\ o.kind = "stack" => Lower(o) = lowering_stack(o)
         /\ o.kind = "reshape" => Lower(o) = lowering_reshape(o)
         /\ o.kind = "transpose" => Lower(o) = lowering_transpose(o)
         /\ o.kind = "broadcast" => Lower(o) = lowering_broadcast(o)
         /\ o.kind = "reduce_sum" => Lower(o) = lowering_reduce_sum(o)
         /\ o.kind = "reduce_max" => Lower(o) = lowering_reduce_max(o)
         /\ o.kind = "gather" => Lower(o) = lowering_gather(o)
         /\ o.kind = "slice" => Lower(o) = lowering_slice(o)
<1>1. o.kind \in Calculations \cup FloatFunctions \cup {"neg"} \cup Arithmetic \cup Comparisons =>
        o.kind \notin {"matmul", "elements", "stack", "reshape", "transpose", "broadcast",
                       "reduce_sum", "reduce_max", "gather", "slice"}
  BY DEF Calculations, FloatFunctions, Arithmetic, Comparisons
<1> QED
  BY <1>1 DEF Lower

\* What the verifier asks of an operation.
LEMMA VerifiedIs ==
  ASSUME NEW o
  PROVE  /\ o.kind \in Calculations \cup {"neg", "print"} => Verified(o)
         /\ o.kind \in FloatFunctions => Verified(o) = IsFloat(o.args[1].elem)
         /\ o.kind \in Arithmetic => Verified(o) = (TypeOf(o.args[1]) = TypeOf(o.args[2]))
         /\ o.kind \in Comparisons => Verified(o) = cmp_verify(o.args[1], o.args[2], o.type)
         /\ o.kind = "broadcast" => Verified(o) = broadcast_verify(o.args[1], o.type)
         /\ o.kind \in {"reduce_sum", "reduce_max"} => Verified(o) = reduce_verify(o.args[1], o.attr, o.type)
         /\ o.kind = "reshape" => Verified(o) = reshape_verify(o.args[1], o.type)
         /\ o.kind = "transpose" => Verified(o) = transpose_verify(o.args[1], o.attr, o.type)
         /\ o.kind = "matmul" => Verified(o) = matmul_verify(o.args[1], o.args[2])
         /\ o.kind = "gather" => Verified(o) = gather_verify(o.args[1], o.args[2], o.attr[1], o.type)
         /\ o.kind \in {"elements", "stack"} => Verified(o) = literal_verify(o.args, o.attr, o.type)
         /\ o.kind = "slice" => Verified(o) = slice_verify(o.args[1], o.args[2], o.attr[1], o.type)
<1>1. o.kind \in Calculations \cup {"neg", "print"} => Verified(o)
  BY Apart DEF Verified, Listed
<1>2. o.kind \in FloatFunctions => Verified(o) = IsFloat(o.args[1].elem)
  BY Apart DEF Verified, Listed
<1>3. o.kind \in Arithmetic => Verified(o) = (TypeOf(o.args[1]) = TypeOf(o.args[2]))
  BY Apart DEF Verified, Listed
<1>4. o.kind \in Comparisons => Verified(o) = cmp_verify(o.args[1], o.args[2], o.type)
  BY Apart DEF Verified, Listed
<1>5.    /\ o.kind = "broadcast" => Verified(o) = broadcast_verify(o.args[1], o.type)
         /\ o.kind \in {"reduce_sum", "reduce_max"} => Verified(o) = reduce_verify(o.args[1], o.attr, o.type)
         /\ o.kind = "reshape" => Verified(o) = reshape_verify(o.args[1], o.type)
         /\ o.kind = "transpose" => Verified(o) = transpose_verify(o.args[1], o.attr, o.type)
  BY Apart DEF Verified, Listed
<1>6.    /\ o.kind = "matmul" => Verified(o) = matmul_verify(o.args[1], o.args[2])
         /\ o.kind = "gather" => Verified(o) = gather_verify(o.args[1], o.args[2], o.attr[1], o.type)
         /\ o.kind \in {"elements", "stack"} => Verified(o) = literal_verify(o.args, o.attr, o.type)
         /\ o.kind = "slice" => Verified(o) = slice_verify(o.args[1], o.args[2], o.attr[1], o.type)
  BY Apart DEF Verified, Listed
<1> QED
  BY <1>1, <1>2, <1>3, <1>4, <1>5, <1>6

\* The values of the operands.
AreValues(v, a) == v = [i \in DOMAIN a |-> a[i].value]

\* The operation g that is made of name x, operands a with values v, and inferred shape s.
Generates(x, a, s, v, g) ==
  /\ x \in Calculations \cup FloatFunctions \cup {"neg"} => g = Op(x, <<v[1]>>, << >>, TypeOf(v[1]))
  /\ x = "print" => g = Op(x, v, << >>, Void)
  /\ x = "matmul" => g = Op(x, v, << >>, matmul_build(v[1], v[2]))
  /\ x \in Listed => g = WithList(x, v, a)
  /\ x = "gather" => g = Op(x, <<v[1], v[2]>>, a[3].lits, gather_build(v[1], v[2], a[3].lits[1]))
  /\ x = "stack" => g = Op(x, v, <<Len(v)>>, stack_build(v, <<Len(v)>>))
  /\ x \in Arithmetic => g = Op(x, v, << >>, TypeOf(v[1]))
  /\ x \in Comparisons => g = Op(x, v, << >>, TensorOf("bool", s))
  /\ x = "elements" => g = generate_tensor(v, s)
  /\ x = "slice" => g = Op(x, v, <<0>>, slice_build(v[1], 0))

\* It is the one the code generator makes.
LEMMA GenerateIs ==
  ASSUME NEW x, NEW a, NEW s, NEW v, AreValues(v, a)
  PROVE  Generates(x, a, s, v, Generate(x, a, s))
<1>1. x \in Calculations \cup FloatFunctions \cup {"neg"} =>
              Generate(x, a, s) = Op(x, <<v[1]>>, << >>, TypeOf(v[1]))
  BY Apart DEF AreValues, Generate, Listed
<1>2.    /\ x = "print" => Generate(x, a, s) = Op(x, v, << >>, Void)
         /\ x = "matmul" => Generate(x, a, s) = Op(x, v, << >>, matmul_build(v[1], v[2]))
  BY Apart DEF AreValues, Generate, Listed
<1>3. x \in Listed => Generate(x, a, s) = WithList(x, v, a)
  BY Apart DEF AreValues, Generate, Listed
<1>4.    /\ x = "gather" => Generate(x, a, s) =
              Op(x, <<v[1], v[2]>>, a[3].lits, gather_build(v[1], v[2], a[3].lits[1]))
         /\ x = "stack" => Generate(x, a, s) = Op(x, v, <<Len(v)>>, stack_build(v, <<Len(v)>>))
  BY Apart DEF AreValues, Generate, Listed
<1>5.    /\ x \in Arithmetic => Generate(x, a, s) = Op(x, v, << >>, TypeOf(v[1]))
  BY Apart DEF AreValues, Generate, Listed
<1>6.    /\ x \in Comparisons => Generate(x, a, s) = Op(x, v, << >>, TensorOf("bool", s))
  BY Apart DEF AreValues, Generate, Listed
<1>7.    /\ x = "elements" => Generate(x, a, s) = generate_tensor(v, s)
         /\ x = "slice" => Generate(x, a, s) = Op(x, v, <<0>>, slice_build(v[1], 0))
  BY Apart DEF AreValues, Generate, Listed
<1> QED
  BY <1>1, <1>2, <1>3, <1>4, <1>5, <1>6, <1>7 DEF Generates

-----------------------------------------------------------------------------
(* An expression on its way; elementwise operations. *)

\* What sema finds, and the operation the code generator makes.
Found(e) == Resolve(e.name, e.args)
Made(e) == Generate(e.name, Taken(e), Found(e).type.shape)

\* The expressions that become an operation.
Generated(e) == e \in Exprs /\ ~Found(e).reported /\ ~Valueless(Taken(e))

\* The bounds of the kernels that an operation was lowered to.
BoundsOf(e, o, lowered) ==
  \A i \in DOMAIN lowered :
    LET k == lowered[i]  a == e.args IN
    \A p \in Points(k.dom) :
      /\ k.writes[p] \in Points(k.type.shape)
      /\ \A r \in ToSet(k.reads[p]) :
           \/ r[2] \in Points(k.ins[r[1]].shape)
           \/ o.kind = "slice" /\ a[2].value.at[<< >>] \notin 0 .. a[1].type.shape[1] - 1
           \/ o.kind = "gather" /\ \E q \in DOMAIN a[2].value.at :
                a[2].value.at[q] \notin 0 .. a[1].type.shape[o.attr[1] + 1] - 1
           \/ o.kind = "reshape" /\ Count(o.type.shape) # Count(k.ins[1].shape)

\* What happens to an operation is what the expression makes one expect.
Lowered(e, o) ==
  \E k : /\ Lower(o) = <<k>> /\ k.type = o.type /\ k.dom \in Seq(Nat) /\ Disjoint(k) /\ BoundsOf(e, o, <<k>>)
Outcome(e, o) ==
  /\ o.kind # "print" /\ o.type = Found(e).type /\ o.type = TensorOf(o.type.elem, o.type.shape)
  /\ Undefined(o, e.name, Taken(e)) => Gap(e)
  /\ ~Undefined(o, e.name, Taken(e)) =>
       \/ ~Verified(o) /\ Gap(e)
       \/ Verified(o) /\ Lower(o) = << >> /\ Gap(e)
       \/ Verified(o) /\ ~Gap(e) /\ Lowered(e, o)

\* A kernel inside of its operands is in bounds.
LEMMA SoundBounds ==
  ASSUME NEW e, NEW o, NEW k, Inside(k)
  PROVE  BoundsOf(e, o, <<k>>)
  BY DEF Inside, BoundsOf

\* An operation that becomes such a kernel is what one expects.
LEMMA SoundLowered ==
  ASSUME NEW e, NEW o, Sound(Lower(o), o.type)
  PROVE  Lowered(e, o)
<1>1. PICK k : Lower(o) = <<k>> /\ k.type = o.type /\ k.dom \in Seq(Nat) /\ Inside(k) /\ Disjoint(k)
  BY DEF Sound
<1> QED
  BY <1>1, SoundBounds DEF Lowered

-----------------------------------------------------------------------------
(* Operands. *)

\* The type of an operand with a value.
Tensed(a) ==
  /\ a.type = TensorOf(a.value.elem, a.value.shape)
  /\ a.type.con = "tensor" /\ a.type.elem = a.value.elem /\ a.type.shape = a.value.shape
  /\ a.value.elem \in Elements /\ a.value.shape \in Seq(Nat)
  /\ DOMAIN a.value.at = Points(a.value.shape)

\* An operand that is a tensor has one for its value.
LEMMA OperandTensed ==
  ASSUME NEW a, IsOperand(a), a.type \notin {Void, Unknown}
  PROVE  Tensed(a)
  BY DEF IsOperand, Tensed, TypeOf, TensorOf, Type

\* The operands of everything but a literal are the arguments.
LEMMA Arguments0 ==
  ASSUME NEW e, Generated(e), e.name # "elements"
  PROVE  /\ Taken(e) = e.args /\ Len(e.args) \in Nat /\ Len(e.args) < Half
         /\ DOMAIN e.args = 1 .. Len(e.args)
         /\ \A i \in 1 .. Len(e.args) : Tensed(e.args[i]) /\ e.args[i].lits \in Seq(Int)
<1>1. /\ e.args \in Seq(ToSet(e.args)) /\ Len(e.args) < Half
      /\ \A i \in DOMAIN e.args : IsOperand(e.args[i]) /\ e.args[i].lits \in Seq(Int)
  BY ExprsAssumption DEF Generated, Sequenced
<1>2. Taken(e) = e.args
  BY DEF Taken, Operands
<1>3. \A i \in DOMAIN e.args : e.args[i].type \notin {Void, Unknown}
  BY <1>2 DEF Generated, Valueless
<1>4. Len(e.args) \in Nat /\ DOMAIN e.args = 1 .. Len(e.args)
  <2>1. \A S : \A x \in Seq(S) : Len(x) \in Nat /\ DOMAIN x = 1 .. Len(x)
    OBVIOUS
  <2> QED
    BY <1>1, <2>1
<1> QED
  BY <1>1, <1>2, <1>3, <1>4, OperandTensed

\* The values of the operands.
Values(e) == [i \in DOMAIN Taken(e) |-> Taken(e)[i].value]

\* The operation that is made of an expression, by name.
LEMMA MadeIs ==
  ASSUME NEW e
  PROVE  Generates(e.name, Taken(e), Found(e).type.shape, Values(e), Made(e))
  BY GenerateIs DEF Made, Values, AreValues

\* The operands are tensors.
LEMMA ValuesAre ==
  ASSUME NEW e, Generated(e), e.name # "elements"
  PROVE  /\ DOMAIN Values(e) = 1 .. Len(e.args) /\ Len(Values(e)) = Len(e.args)
         /\ \A i \in 1 .. Len(e.args) : Values(e)[i] = e.args[i].value
<1>1. /\ Taken(e) = e.args /\ Len(e.args) \in Nat /\ DOMAIN e.args = 1 .. Len(e.args)
  BY Arguments0
<1>2. Values(e) = [i \in 1 .. Len(e.args) |-> e.args[i].value]
  BY <1>1 DEF Values
<1> QED
  BY <1>1, <1>2

\* The elementwise operations.
Simple == Calculations \cup FloatFunctions \cup {"neg"} \cup Arithmetic \cup Comparisons

\* What sema found, by name.
LEMMA SimpleFound ==
  ASSUME NEW e, Generated(e), e.name \in Simple
  PROVE  /\ Len(e.args) = IF e.name \in Arithmetic \cup Comparisons THEN 2 ELSE 1
         /\ e.name \in Arithmetic \cup Comparisons => e.args[1].type = e.args[2].type
         /\ e.name \in FloatFunctions => IsFloat(e.args[1].type.elem)
         /\ Found(e).type = IF e.name \in Comparisons THEN TensorOf("bool", e.args[1].type.shape)
                            ELSE e.args[1].type
<1>1. /\ e.name # "elements" /\ ~Found(e).reported /\ e.name \in Names /\ e \in Exprs
  BY Apart DEF Generated, Simple, Names
<1>2. \A i \in 1 .. Len(e.args) : Tensed(e.args[i])
  BY <1>1, Arguments0
<1>3. CASE e.name \in Calculations
  <2>1. Found(e) = calculation_infer(e.args)
    BY <1>3, ResolveIs DEF Found
  <2>2. Len(e.args) = 1 /\ Found(e) = Answer(e.args[1].type, FALSE)
    BY <1>1, <2>1 DEF calculation_infer, Failed, Answer
  <2> QED
    BY <1>3, <2>2, Apart DEF Answer
<1>4. CASE e.name \in FloatFunctions
  <2>1. Found(e) = float_infer(e.args)
    BY <1>4, ResolveIs DEF Found
  <2>2. Len(e.args) = 1 /\ Found(e) = Answer(e.args[1].type, FALSE) /\ is_float_type(e.args[1].type)
    BY <1>1, <2>1 DEF float_infer, Failed, Answer
  <2> QED
    BY <1>4, <2>2, Apart DEF Answer, is_float_type
<1>5. CASE e.name = "neg"
  <2>1. Found(e) = Answer(e.args[1].type, FALSE)
    BY <1>5, ResolveIs DEF Found
  <2>2. Len(e.args) = 1
    BY <1>1, <1>5, ExprsAssumption
  <2> QED
    BY <1>5, <2>1, <2>2, Apart DEF Answer
<1>6. CASE e.name \in Arithmetic \cup Comparisons
  <2>1. Found(e) = resolve_binary_expr(e.name, e.args[1].type, e.args[2].type)
    BY <1>6, ResolveIs DEF Found
  <2>2. Len(e.args) = 2
    BY <1>1, <1>6, ExprsAssumption
  <2>3. IsTensor(e.args[1].type)
    BY <1>2, <2>2 DEF Tensed, IsTensor
  <2>4. e.name \notin FloatFunctions
    BY <1>6, Apart
  <2> DEFINE l == e.args[1].type
             r == e.args[2].type
  <2>5. /\ Found(e).reported = (l # r)
        /\ Found(e).type = IF e.name \notin Comparisons THEN l
                           ELSE IF IsTensor(l) THEN TensorOf("bool", l.shape) ELSE Bool
    BY <2>1 DEF resolve_binary_expr, Answer
  <2> QED
    BY <1>1, <1>6, <2>2, <2>3, <2>4, <2>5
<1> QED
  BY <1>3, <1>4, <1>5, <1>6 DEF Simple

\* One or two operands of one shape.
LEMMA ElementwiseOf ==
  ASSUME NEW ins, NEW type, NEW n \in {1, 2}, Len(ins) = n, DOMAIN ins = 1 .. n, type.shape \in Seq(Nat),
         \A i \in 1 .. n : ins[i].shape = type.shape, NEW body
  PROVE  Sound(Elementwise(ins, type, body), type)
  BY ElementwiseGood

\* Undefined needs a dimension below zero or literals.
LEMMA DefinedShape ==
  ASSUME NEW o, NEW name, NEW a, o.type.shape \in Seq(Nat), Consumed(name, a) = << >>
  PROVE  ~Undefined(o, name, a)
<1>1. \A d \in DOMAIN o.type.shape : ~(o.type.shape[d] < 0)
  <2>1. \A d \in DOMAIN o.type.shape : o.type.shape[d] \in Nat
    OBVIOUS
  <2> QED
    BY <2>1
<1> QED
  BY <1>1 DEF Undefined

\* Elementwise operations compile, with the type that sema found.
LEMMA SimpleOutcome ==
  ASSUME NEW e, Generated(e), e.name \in Simple
  PROVE  Outcome(e, Made(e))
<1> DEFINE o == Made(e)
           a == e.args
           n == IF e.name \in Arithmetic \cup Comparisons THEN 2 ELSE 1
           vals == Values(e)
<1>0. o = Made(e) /\ n \in {1, 2}
  OBVIOUS
<1>1. /\ e.name # "elements" /\ e.name # "print"
  BY Apart DEF Simple
<1>2. /\ Taken(e) = a /\ DOMAIN a = 1 .. Len(a) /\ \A i \in 1 .. Len(a) : Tensed(a[i])
  BY <1>1, Arguments0
<1>3. /\ Len(a) = n
      /\ e.name \in Arithmetic \cup Comparisons => a[1].type = a[2].type
      /\ e.name \in FloatFunctions => IsFloat(a[1].type.elem)
      /\ Found(e).type = IF e.name \in Comparisons THEN TensorOf("bool", a[1].type.shape)
                         ELSE a[1].type
  BY SimpleFound
<1>4. Tensed(a[1]) /\ (n = 2 => Tensed(a[2]))
  BY <1>2, <1>3
<1> HIDE DEF n
<1>5. vals[1] = a[1].value /\ (n = 2 => vals[2] = a[2].value) /\ Len(vals) = n /\ DOMAIN vals = 1 .. n
  BY <1>0, <1>1, <1>2, <1>3, ValuesAre
<1>6. TypeOf(vals[1]) = a[1].type
  BY <1>4, <1>5 DEF Tensed, TypeOf
<1>7. /\ o.kind = e.name /\ Len(o.args) = n /\ DOMAIN o.args = 1 .. n
      /\ o.type = Found(e).type /\ o.args[1] = vals[1] /\ (n = 2 => o.args[2] = vals[2])
  <2>1. CASE e.name \in Calculations \cup FloatFunctions \cup {"neg"}
    <3>1. o = Op(e.name, <<vals[1]>>, << >>, TypeOf(vals[1]))
      BY <2>1, MadeIs DEF Generates
    <3>2. e.name \notin Comparisons /\ e.name \notin Arithmetic /\ n = 1
      BY <2>1, Apart DEF n
    <3> QED
      BY <1>3, <1>6, <3>1, <3>2 DEF Op
  <2>2. CASE e.name \in Arithmetic
    <3>1. o = Op(e.name, vals, << >>, TypeOf(vals[1]))
      BY <2>2, MadeIs DEF Generates
    <3>2. e.name \notin Comparisons
      BY <2>2, Apart
    <3> QED
      BY <1>3, <1>5, <1>6, <3>1, <3>2 DEF Op
  <2>3. CASE e.name \in Comparisons
    <3>1. o = Op(e.name, vals, << >>, TensorOf("bool", Found(e).type.shape))
      BY <2>3, MadeIs DEF Generates
    <3>2. Found(e).type.shape = a[1].type.shape
      BY <1>3, <2>3 DEF TensorOf, Type
    <3> QED
      BY <1>3, <1>5, <1>6, <2>3, <3>1, <3>2 DEF Op
  <2> QED
    BY <2>1, <2>2, <2>3 DEF Simple
<1> HIDE DEF o
<1>9. o.type.shape = a[1].type.shape /\ o.type.shape \in Seq(Nat) /\ o.type = TensorOf(o.type.elem, o.type.shape)
  BY <1>3, <1>4, <1>7 DEF Tensed, TensorOf, Type
<1>10. \A i \in 1 .. n : o.args[i].shape = o.type.shape
  <2>1. o.args[1].shape = o.type.shape
    BY <1>4, <1>5, <1>7, <1>9 DEF Tensed
  <2>2. n = 2 => o.args[2].shape = o.type.shape
    BY <1>3, <1>4, <1>5, <1>7, <1>9 DEF Tensed, n
  <2> QED
    BY <1>0, <2>1, <2>2
<1>11. Verified(o)
  <2>1. CASE e.name \in Calculations \cup {"neg"}
    BY <2>1, <1>7, VerifiedIs
  <2>2. CASE e.name \in FloatFunctions
    BY <2>2, <1>3, <1>4, <1>5, <1>7, VerifiedIs DEF Tensed
  <2>3. CASE e.name \in Arithmetic \cup Comparisons
    <3>1. TypeOf(o.args[1]) = TypeOf(o.args[2])
      BY <2>3, <1>3, <1>4, <1>5, <1>7 DEF n, TypeOf, Tensed
    <3>2. CASE e.name \in Arithmetic
      BY <3>1, <3>2, <1>7, VerifiedIs
    <3>3. CASE e.name \in Comparisons
      <4>1. o.type = TensorOf("bool", o.args[1].shape)
        BY <3>3, <1>3, <1>4, <1>5, <1>7 DEF Tensed
      <4> QED
        BY <4>1, <3>1, <3>3, <1>7, VerifiedIs DEF cmp_verify
    <3> QED
      BY <2>3, <3>2, <3>3
  <2> QED
    BY <2>1, <2>2, <2>3 DEF Simple
<1>12. Lowered(e, o)
  <2>1. Lower(o) = Elementwise(o.args, o.type, o.kind)
    BY <1>7, LowerIs DEF Simple
  <2>2. Sound(Elementwise(o.args, o.type, o.kind), o.type)
    BY <1>0, <1>7, <1>9, <1>10, ElementwiseOf
  <2> QED
    BY <2>1, <2>2, SoundLowered
<1>13. ~Undefined(o, e.name, Taken(e))
  <2>1. Consumed(e.name, Taken(e)) = << >>
    BY Apart DEF Simple, Consumed, Listed
  <2> QED
    BY <2>1, <1>9, DefinedShape
<1>14. ~Gap(e)
  <2>1. e.name \notin {"broadcast", "reduce_sum", "reduce_max", "matmul", "gather", "reshape", "elements"}
    BY Apart DEF Simple, Listed
  <2> QED
    BY <2>1 DEF Gap, Generated
<1> QED
  BY <1>0, <1>1, <1>7, <1>9, <1>11, <1>12, <1>13, <1>14 DEF Outcome

-----------------------------------------------------------------------------
(* The operations of a literal that became an attribute. *)

\* Nothing before a kernel.
LEMMA EmptyFirst ==
  ASSUME NEW k
  PROVE  << >> \o <<k>> = <<k>>
<1> DEFINE x == << >>
           y == <<k>>
           S == {k}
<1>1. x \in Seq(S) /\ y \in Seq(S) /\ Len(x) = 0 /\ Len(y) = 1 /\ y[1] = k
  OBVIOUS
<1> HIDE DEF x, S
<1>2. x \o y \in Seq(S) /\ Len(x \o y) = 1 /\ (x \o y)[1] = k
  BY <1>1
<1> QED
  BY <1>1, <1>2 DEF x

\* The operations of a literal are erased before what they use.
LEMMA LiteralsErase ==
  ASSUME NEW a, a.node = "tensor" => a.lits \in Seq(Int)
  PROVE  ErasedSafely(LiteralOps(a))
<1> DEFINE ops == LiteralOps(a)
           n == Len(a.lits)
           one(k) == FlattenSeq([j \in DOMAIN ops[k] |->
                      IF Cardinality(Users(ops, ops[k][j])) = 1 THEN << >> ELSE << >>])
<1>1. CASE a.node # "tensor"
  <2>1. ops = <<<< >>>>
    BY <1>1 DEF LiteralOps
  <2>2. Users(ops, 1) = {}
    BY <2>1 DEF Users, ToSet
  <2> HIDE DEF ops
  <2> DEFINE F == CHOOSE f : f = [k \in DOMAIN ops |->
               FlattenSeq([j \in DOMAIN ops[k] |->
                 IF Cardinality(Users(ops, ops[k][j])) = 1 THEN f[ops[k][j]] ELSE << >>]) \o <<k>>]
  <2>3. Chain(ops) = F[1]
    BY <2>1 DEF Chain
  <2>4. F[1] = <<1>>
    <3> DEFINE Eq(f) == f = [k \in DOMAIN ops |->
               FlattenSeq([j \in DOMAIN ops[k] |->
                 IF Cardinality(Users(ops, ops[k][j])) = 1 THEN f[ops[k][j]] ELSE << >>]) \o <<k>>]
               f0 == [k \in {1} |-> FlattenSeq(<< >>) \o <<k>>]
    <3>1. \A f : [j \in DOMAIN ops[1] |->
                 IF Cardinality(Users(ops, ops[1][j])) = 1 THEN f[ops[1][j]] ELSE << >>] = << >>
      BY <2>1
    <3>2. DOMAIN ops = {1}
      BY <2>1
    <3>3. \A f : Eq(f) <=> f = f0
      <4> SUFFICES ASSUME NEW f PROVE Eq(f) <=> f = f0
        OBVIOUS
      <4> DEFINE arm(k) == [j \in DOMAIN ops[k] |->
                   IF Cardinality(Users(ops, ops[k][j])) = 1 THEN f[ops[k][j]] ELSE << >>]
      <4>2. arm(1) = << >>
        BY <3>1
      <4> HIDE DEF arm
      <4>3. [k \in DOMAIN ops |-> FlattenSeq(arm(k)) \o <<k>>] = f0
        BY <4>2, <3>2
      <4>1. [k \in DOMAIN ops |->
               FlattenSeq([j \in DOMAIN ops[k] |->
                 IF Cardinality(Users(ops, ops[k][j])) = 1 THEN f[ops[k][j]] ELSE << >>]) \o <<k>>] = f0
        BY <4>3 DEF arm
      <4> QED
        BY <4>1
    <3>4. F = f0
      <4>1. F = CHOOSE f : Eq(f)
        OBVIOUS
      <4> HIDE DEF F, Eq
      <4> QED
        BY <3>3, <4>1
    <3>5. F[1] = FlattenSeq(<< >>) \o <<1>>
      BY <3>4
    <3>6. FlattenSeq(<< >>) = << >>
      BY DEF FlattenSeq
    <3> QED
      BY <3>5, <3>6, EmptyFirst
  <2> HIDE DEF F
  <2>5. erase_dead_value(ops) = [i \in 1 .. 1 |-> 1]
    <3>1. Chain(ops) = <<1>>
      BY <2>3, <2>4
    <3> QED
      BY <3>1 DEF erase_dead_value, Reverse
  <2> QED
    BY <2>2, <2>5 DEF ErasedSafely, ops
<1>2. CASE a.node = "tensor"
  <2>1. n \in Nat /\ DOMAIN a.lits = 1 .. n
    BY <1>2
  <2> HIDE DEF n
  <2>2. ops = Append([k \in 1 .. n |-> << >>], [k \in 1 .. n |-> k])
    BY <1>2, <2>1 DEF LiteralOps
  <2>3. /\ Len(ops) = n + 1 /\ DOMAIN ops = 1 .. n + 1 /\ ops[n + 1] = [k \in 1 .. n |-> k]
        /\ \A k \in 1 .. n : ops[k] = << >>
    <3> DEFINE x == [k \in 1 .. n |-> << >>]
               y == [k \in 1 .. n |-> k]
               S == {<< >>, y}
    <3>1. x \in Seq(S) /\ Len(x) = n /\ y \in S
      BY <2>1
    <3>2. \A k \in 1 .. n : x[k] = << >>
      OBVIOUS
    <3> HIDE DEF x, y, S
    <3>3. ops = Append(x, y)
      BY <2>2 DEF x, y
    <3> HIDE DEF ops
    <3>4. Len(ops) = n + 1 /\ DOMAIN ops = 1 .. n + 1 /\ ops[n + 1] = y /\ \A k \in 1 .. n : ops[k] = << >>
      BY <2>1, <3>1, <3>2, <3>3
    <3> QED
      BY <3>4 DEF y
  <2> HIDE DEF ops
  <2>4. \A k : Users(ops, k) \subseteq {n + 1}
    <3>1. ToSet(<< >>) = {}
      BY DEF ToSet
    <3> QED
      BY <2>1, <2>3, <3>1 DEF Users
  <2>5. Users(ops, n + 1) = {}
    <3>1. ToSet([k \in 1 .. n |-> k]) \subseteq 1 .. n
      BY DEF ToSet
    <3>2. n + 1 \notin ToSet(ops[n + 1])
      BY <2>1, <2>3, <3>1
    <3> QED
      BY <2>4, <3>2 DEF Users
  <2> DEFINE part(f, k) == FlattenSeq([j \in DOMAIN ops[k] |->
                 IF Cardinality(Users(ops, ops[k][j])) = 1 THEN f[ops[k][j]] ELSE << >>]) \o <<k>>
             Eq(f) == f = [k \in DOMAIN ops |-> part(f, k)]
             F == CHOOSE f : f = [k \in DOMAIN ops |->
               FlattenSeq([j \in DOMAIN ops[k] |->
                 IF Cardinality(Users(ops, ops[k][j])) = 1 THEN f[ops[k][j]] ELSE << >>]) \o <<k>>]
  <2>6. Chain(ops) = F[n + 1]
    BY <2>3 DEF Chain
  <2>7. F = CHOOSE f : Eq(f)
    OBVIOUS
  <2>8. \A f : \A k \in 1 .. n : part(f, k) = <<k>>
    <3> SUFFICES ASSUME NEW f, NEW k \in 1 .. n PROVE part(f, k) = <<k>>
      OBVIOUS
    <3>1. [j \in DOMAIN ops[k] |->
                 IF Cardinality(Users(ops, ops[k][j])) = 1 THEN f[ops[k][j]] ELSE << >>] = << >>
      BY <2>3
    <3>2. FlattenSeq(<< >>) = << >>
      BY DEF FlattenSeq
    <3> QED
      BY <3>1, <3>2, EmptyFirst
  <2> DEFINE flat(f) == [j \in 1 .. n |-> IF Cardinality(Users(ops, j)) = 1 THEN f[j] ELSE << >>]
  <2>9. \A f : part(f, n + 1) = FlattenSeq(flat(f)) \o <<n + 1>>
    <3> SUFFICES ASSUME NEW f PROVE part(f, n + 1) = FlattenSeq(flat(f)) \o <<n + 1>>
      OBVIOUS
    <3>1. [j \in DOMAIN ops[n + 1] |->
                 IF Cardinality(Users(ops, ops[n + 1][j])) = 1 THEN f[ops[n + 1][j]] ELSE << >>] = flat(f)
      BY <2>3
    <3> QED
      BY <3>1
  <2> DEFINE f0 == [k \in 1 .. n |-> <<k>>]
             f1 == [k \in 1 .. n + 1 |-> IF k = n + 1 THEN FlattenSeq(flat(f0)) \o <<n + 1>> ELSE <<k>>]
  <2>10. Eq(f1)
    <3>1. flat(f1) = flat(f0)
      BY <2>1
    <3>2. \A k \in 1 .. n + 1 : f1[k] = part(f1, k)
      <4> SUFFICES ASSUME NEW k \in 1 .. n + 1 PROVE f1[k] = part(f1, k)
        OBVIOUS
      <4> HIDE DEF part, flat
      <4>1. CASE k = n + 1
        BY <2>1, <2>9, <3>1, <4>1
      <4>2. CASE k # n + 1
        <5>1. k \in 1 .. n
          BY <2>1, <4>2
        <5> HIDE DEF f0
        <5>2. f1[k] = <<k>>
          BY <4>2
        <5> HIDE DEF f1
        <5> QED
          BY <2>8, <5>1, <5>2
      <4> QED
        BY <4>1, <4>2
    <3> HIDE DEF part
    <3> QED
      BY <2>3, <3>2
  <2>11. Eq(F)
    <3> HIDE DEF f1, Eq, F
    <3> QED
      BY <2>7, <2>10
  <2>12. \A k \in 1 .. n : F[k] = <<k>>
    <3> HIDE DEF part, F
    <3>1. \A k \in 1 .. n : F[k] = part(F, k)
      <4>1. 1 .. n \subseteq DOMAIN ops
        BY <2>1, <2>3
      <4> QED
        BY <2>11, <4>1
    <3> QED
      BY <2>8, <3>1
  <2>13. F[n + 1] = FlattenSeq(flat(F)) \o <<n + 1>>
    <3> HIDE DEF part, F, flat
    <3>1. F[n + 1] = part(F, n + 1)
      BY <2>1, <2>3, <2>11
    <3> QED
      BY <2>9, <3>1
  <2>14. FlattenSeq(flat(F)) \in Seq(Nat)
    <3> HIDE DEF F
    <3>1. \A j \in 1 .. n : flat(F)[j] \in Seq(Nat)
      <4> SUFFICES ASSUME NEW j \in 1 .. n PROVE flat(F)[j] \in Seq(Nat)
        OBVIOUS
      <4>1. <<j>> \in Seq(Nat) /\ << >> \in Seq(Nat)
        OBVIOUS
      <4> QED
        BY <2>12, <4>1
    <3>2. flat(F) \in Seq(Seq(Nat))
      <4>1. DOMAIN flat(F) = 1 .. n /\ flat(F) = [j \in 1 .. n |-> flat(F)[j]]
        OBVIOUS
      <4> HIDE DEF flat
      <4> QED
        BY <2>1, <3>1, <4>1
    <3> HIDE DEF flat
    <3> QED
      BY <3>2, FlattenSeqType
  <2> DEFINE x == FlattenSeq(flat(F))
             erased == erase_dead_value(ops)
  <2> HIDE DEF F, x
  <2>15. erased = Reverse(x \o <<n + 1>>)
    BY <2>6, <2>13 DEF erase_dead_value, x
  <2>16. /\ DOMAIN erased = 1 .. Len(x) + 1 /\ erased \in Seq(Nat) /\ Len(erased) = Len(x) + 1
         /\ erased[1] = n + 1 /\ Len(x) \in Nat
    <3> DEFINE y == x \o <<n + 1>>
    <3>1. x \in Seq(Nat) /\ Len(x) \in Nat /\ y \in Seq(Nat) /\ Len(y) = Len(x) + 1 /\ y[Len(x) + 1] = n + 1
      BY <2>1, <2>14 DEF x
    <3> HIDE DEF y
    <3>2. erased = [i \in 1 .. Len(y) |-> y[(Len(y) - i) + 1]]
      BY <2>15 DEF Reverse, y
    <3> HIDE DEF erased
    <3>3. erased = [i \in 1 .. Len(x) + 1 |-> y[(Len(x) + 1 - i) + 1]]
      BY <3>1, <3>2
    <3>4. \A i \in 1 .. Len(x) + 1 : y[(Len(x) + 1 - i) + 1] \in Nat
      BY <3>1
    <3>5. 1 \in 1 .. Len(x) + 1 /\ (Len(x) + 1 - 1) + 1 = Len(x) + 1
      BY <3>1
    <3>6. erased[1] = n + 1
      BY <3>1, <3>3, <3>5
    <3>7. erased \in Seq(Nat) /\ Len(erased) = Len(x) + 1
      BY <3>1, <3>3, <3>4
    <3> QED
      BY <3>1, <3>3, <3>6, <3>7
  <2> HIDE DEF erased
  <2>17. ASSUME NEW i \in DOMAIN erased
         PROVE  Users(ops, erased[i]) \subseteq ToSet(SubSeq(erased, 1, i - 1))
    <3>1. CASE i = 1
      BY <2>5, <2>16, <3>1
    <3>2. CASE i # 1
      <4> DEFINE z == SubSeq(erased, 1, i - 1)
      <4>1. i - 1 \in 1 .. Len(erased)
        BY <2>16, <3>2
      <4>2. DOMAIN z = 1 .. i - 1 /\ z[1] = erased[1] /\ 1 \in 1 .. i - 1
        BY <2>16, <4>1
      <4>3. n + 1 \in ToSet(z)
        BY <2>16, <4>2 DEF ToSet
      <4> HIDE DEF z
      <4>4. Users(ops, erased[i]) \subseteq ToSet(z)
        BY <2>4, <4>3
      <4> QED
        BY <4>4 DEF z
    <3> QED
      BY <3>1, <3>2
  <2> QED
    BY <2>17 DEF ErasedSafely, erased, ops
<1> QED
  BY <1>1, <1>2

-----------------------------------------------------------------------------
(* Operations on a tensor and a list. *)

\* Sema has seen a tensor and a list.
LEMMA ListFound ==
  ASSUME NEW e, Generated(e), e.name \in Listed
  PROVE  /\ TensorAndList(e.args) /\ Len(e.args) = 2 /\ Taken(e) = e.args
         /\ Tensed(e.args[1]) /\ e.args[2].lits \in Seq(Int) /\ Values(e)[1] = e.args[1].value
<1>1. /\ e.name # "elements" /\ ~Found(e).reported
  BY DEF Generated, Listed
<1>2. TensorAndList(e.args)
  <2>1. /\ e.name = "broadcast" => Found(e) = broadcast_infer(e.args)
        /\ e.name \in {"reduce_sum", "reduce_max"} => Found(e) = reduce_infer(e.args)
        /\ e.name = "reshape" => Found(e) = reshape_infer(e.args)
        /\ e.name = "transpose" => Found(e) = transpose_infer(e.args)
    BY ResolveIs DEF Found
  <2>2. e.name = "broadcast" => TensorAndList(e.args)
    BY <1>1, <2>1 DEF broadcast_infer, Failed, Answer
  <2>3. e.name \in {"reduce_sum", "reduce_max"} => TensorAndList(e.args)
    BY <1>1, <2>1 DEF reduce_infer, Failed, Answer, Inferred
  <2>4. e.name = "reshape" => TensorAndList(e.args)
    BY <1>1, <2>1 DEF reshape_infer, Failed, Answer, Inferred
  <2>5. e.name = "transpose" => TensorAndList(e.args)
    BY <1>1, <2>1 DEF transpose_infer, Failed, Answer, Inferred
  <2> QED
    BY <2>2, <2>3, <2>4, <2>5 DEF Listed
<1>3. Len(e.args) = 2
  BY <1>2 DEF TensorAndList
<1>4. 1 \in 1 .. 2 /\ 2 \in 1 .. 2
  OBVIOUS
<1> QED
  BY <1>1, <1>2, <1>3, <1>4, Arguments0, ValuesAre

\* The type of the result, by name.
ListType(e) ==
  LET t == e.args[1].value  list == e.args[2].lits IN
  IF e.name \in {"broadcast", "reshape"} THEN TensorOf(t.elem, list)
  ELSE IF e.name \in {"reduce_sum", "reduce_max"} THEN reduce_build(t, list)
  ELSE transpose_build(t, list)

\* The list becomes the attribute.
LEMMA ListMade ==
  ASSUME NEW e, Generated(e), e.name \in Listed
  PROVE  Made(e) = Op(e.name, <<e.args[1].value>>, e.args[2].lits, ListType(e))
<1>1. Made(e) = WithList(e.name, Values(e), Taken(e))
  BY MadeIs DEF Generates
<1>2. Taken(e) = e.args /\ Values(e)[1] = e.args[1].value
  BY ListFound
<1>3. CASE e.name \in {"broadcast", "reshape"}
  BY <1>1, <1>2, <1>3 DEF WithList, ListType
<1>4. CASE e.name \in {"reduce_sum", "reduce_max"}
  BY <1>1, <1>2, <1>4 DEF WithList, ListType
<1>5. CASE e.name = "transpose"
  BY <1>1, <1>2, <1>5 DEF WithList, ListType
<1> QED
  BY <1>3, <1>4, <1>5 DEF Listed

\* Only a dimension below zero is undefined.
LEMMA ListUndefined ==
  ASSUME NEW e, Generated(e), e.name \in Listed, NEW o
  PROVE  /\ Undefined(o, e.name, Taken(e)) => \E d \in DOMAIN o.type.shape : o.type.shape[d] < 0
         /\ IsTensor(o.type) /\ (\E d \in DOMAIN o.type.shape : o.type.shape[d] < 0) =>
              Undefined(o, e.name, Taken(e))
<1>1. Taken(e) = e.args /\ e.args[2].lits \in Seq(Int)
  BY ListFound
<1>2. Consumed(e.name, Taken(e)) = <<e.args[2]>>
  BY <1>1 DEF Consumed, Listed
<1>3. ErasedSafely(LiteralOps(e.args[2]))
  BY <1>1, LiteralsErase
<1>4. \A i \in DOMAIN Consumed(e.name, Taken(e)) : ErasedSafely(LiteralOps(Consumed(e.name, Taken(e))[i]))
  <2>1. DOMAIN <<e.args[2]>> = {1} /\ <<e.args[2]>>[1] = e.args[2]
    OBVIOUS
  <2> QED
    BY <1>2, <1>3, <2>1
<1> QED
  BY <1>4 DEF Undefined

\* What may be said of the other gaps.
LEMMA GapIs ==
  ASSUME NEW e, Generated(e)
  PROVE  /\ e.name \in {"reduce_sum", "reduce_max"} =>
              (Gap(e) <=> Cardinality(ToSet(e.args[2].lits)) < Len(e.args[2].lits))
         /\ e.name = "matmul" => (Gap(e) <=> Len(e.args[1].type.shape) > 3)
         /\ e.name = "gather" => (Gap(e) <=> Len(e.args[2].type.shape) # 1)
         /\ e.name = "reshape" =>
              (Gap(e) <=> \E i \in DOMAIN e.args[2].lits : e.args[2].lits[i] < 0)
         /\ e.name \in {"transpose", "stack", "slice"} => ~Gap(e)
         /\ e.name = "elements" =>
              (Gap(e) <=> \E i, j \in DOMAIN Taken(e) :
                              Len(Taken(e)[i].type.shape) # Len(Taken(e)[j].type.shape))
  BY DEF Gap, Generated

-----------------------------------------------------------------------------
(* broadcast *)

\* A dimension below zero.
NegativeIn(s) == \E i \in DOMAIN s : s[i] < 0

\* A broadcast that is verified becomes a kernel in bounds.
LEMMA BroadcastLowered ==
  ASSUME NEW in, NEW target \in Seq(Nat), in.shape \in Seq(Nat), NEW type, type.shape = target,
         NEW o, o.args = <<in>>, o.attr = target, o.type = type,
         broadcast_verify(in, type)
  PROVE  Sound(lowering_broadcast(o), type)
<1> DEFINE from == in.shape
           ins == <<in>>
           L == Len(target)
           off == Len(target) - Len(from)
<1>1. L \in Nat /\ Len(from) \in Nat /\ DOMAIN target = 1 .. L /\ DOMAIN from = 1 .. Len(from) /\ off \in Nat
      /\ off + Len(from) = L /\ off = L - Len(from) /\ Len(target) = L
  BY DEF broadcast_verify
<1>2. Len(ins) = 1 /\ DOMAIN ins = 1 .. 1 /\ ins[1] = in
  OBVIOUS
<1>3. CASE from = target
  <2> DEFINE points == Points(target)
             k == Kernel(target, Parallel(L), ins, [p \in points |-> <<<<1, p>>>>], [p \in points |-> p],
                         type, Garbage, "copy")
  <2>1. lowering_broadcast(o) = <<k>>
    BY <1>3 DEF lowering_broadcast, Copy
  <2>2. k.dom = target /\ k.type = type /\ k.ins = ins /\ k.writes = [p \in points |-> p]
        /\ k.reads = [p \in points |-> <<<<1, p>>>>]
    BY DEF Kernel
  <2> HIDE DEF k
  <2>3. \A p \in Points(k.dom) : k.writes[p] = p
    BY <2>2
  <2>4. ASSUME NEW p \in Points(k.dom), NEW r \in ToSet(k.reads[p])
        PROVE  r[2] \in Points(k.ins[r[1]].shape)
    <3>1. k.reads[p] = <<<<1, p>>>>
      BY <2>2
    <3>2. r = <<1, p>>
      BY <3>1 DEF ToSet
    <3> QED
      BY <1>2, <1>3, <2>2, <3>2
  <2>5. Inside(k) /\ Disjoint(k)
    BY <2>2, <2>3, <2>4, CopyGood
  <2> QED
    BY <2>1, <2>2, <2>5 DEF Sound
<1>4. CASE from # target
  <2> DEFINE map == broadcast_map(from, target)
             identity == [d \in DOMAIN target |-> d]
             maps == <<map, identity>>
             iters == Parallel(L)
  <2>1. /\ DOMAIN map = 1 .. Len(from) /\ map \in Seq(0 .. L) /\ Len(map) = Len(from)
        /\ \A k \in 1 .. Len(from) : map[k] = IF from[k] = 1 /\ target[off + k] > 1 THEN 0 ELSE off + k
    <3> DEFINE f == [k \in 1 .. Len(from) |-> IF from[k] = 1 /\ target[off + k] > 1 THEN 0 ELSE off + k]
    <3>1. map = f
      BY <1>1 DEF broadcast_map
    <3>2. \A k \in 1 .. Len(from) : f[k] \in 0 .. L
      <4> SUFFICES ASSUME NEW k \in 1 .. Len(from) PROVE f[k] \in 0 .. L
        OBVIOUS
      <4> HIDE DEF from, off, L
      <4>1. off + k \in 0 .. L /\ 0 \in 0 .. L
        BY <1>1
      <4> QED
        BY <4>1
    <3>3. f \in Seq(0 .. L) /\ Len(f) = Len(from)
      <4>1. f = [k \in 1 .. Len(from) |-> f[k]]
        OBVIOUS
      <4> HIDE DEF off, L, from, f
      <4> QED
        BY <1>1, <3>2, <4>1
    <3> QED
      BY <3>1, <3>3
  <2>2. identity \in Seq(0 .. L) /\ Len(identity) = L /\ DOMAIN identity = 1 .. L /\ \A d \in 1 .. L : identity[d] = d
    <3>1. identity = [d \in 1 .. L |-> d]
      BY <1>1
    <3> HIDE DEF identity, L
    <3> QED
      BY <1>1, <3>1
  <2> HIDE DEF map, identity
  <2>3. maps \in Seq(Seq(0 .. L)) /\ Len(maps) = 1 + 1 /\ maps[1] = map /\ maps[1 + 1] = identity
    BY <2>1, <2>2
  <2> HIDE DEF maps
  <2>4. MapShape(ins, type, 1, 1) = from /\ MapShape(ins, type, 1, 1 + 1) = target
    BY <1>2 DEF MapShape
  <2>5. \A i \in 1 .. 1 + 1 : i = 1 \/ i = 1 + 1
    OBVIOUS
  <2>6. Mapped(ins, type, 1, maps, L)
    <3>1. \A d \in 1 .. L : \E i \in 1 .. 1 + 1 : \E k \in DOMAIN maps[i] : maps[i][k] = d
      <4>1. 1 + 1 \in 1 .. 1 + 1
        OBVIOUS
      <4> QED
        BY <2>2, <2>3, <4>1
    <3>2. \A i \in 1 .. 1 : ins[i].shape \in Seq(Int)
      BY <1>2
    <3> QED
      BY <1>1, <1>2, <2>3, <3>1, <3>2 DEF Mapped
  <2>7. Fits(ins, type, 1, maps, target)
    <3>1. ASSUME NEW k \in DOMAIN map
          PROVE  IF map[k] = 0 THEN from[k] >= 1 ELSE from[k] = target[map[k]]
      <4>1. k \in 1 .. Len(from) /\ off + k # 0 /\ off + k \in 1 .. L
        <5> HIDE DEF from, off, L
        <5> QED
          BY <1>1, <2>1
      <4>2. from[k] = target[off + k] \/ (from[k] < target[off + k] /\ from[k] = 1)
        <5>1. Len(from) - k \in 0 .. Len(from) - 1 /\ Len(from) - (Len(from) - k) = k
              /\ Len(target) - (Len(from) - k) = off + k
          <6> HIDE DEF from, off, L
          <6> QED
            BY <1>1, <4>1
        <5> QED
          BY <5>1 DEF broadcast_verify
      <4>3. from[k] \in Nat /\ target[off + k] \in Nat
        BY <1>1, <4>1, SMTT(30)
      <4>4. map[k] = IF from[k] = 1 /\ target[off + k] > 1 THEN 0 ELSE off + k
        BY <2>1, <4>1
      <4> HIDE DEF off, L, from
      <4> QED
        BY <4>1, <4>2, <4>3, <4>4
    <3>2. ASSUME NEW k \in DOMAIN identity
          PROVE  IF identity[k] = 0 THEN target[k] >= 1 ELSE target[k] = target[identity[k]]
      <4>1. identity[k] = k /\ k # 0
        BY <1>1, <2>2
      <4> QED
        BY <4>1
    <3>3. Len(map) = Len(from) /\ Len(identity) = Len(target)
      BY <2>1, <2>2
    <3> HIDE DEF from
    <3>4. ASSUME NEW i \in 1 .. 1 + 1
          PROVE  /\ Len(maps[i]) = Len(MapShape(ins, type, 1, i))
                 /\ \A k \in DOMAIN maps[i] :
                      IF maps[i][k] = 0 THEN MapShape(ins, type, 1, i)[k] >= 1
                      ELSE MapShape(ins, type, 1, i)[k] = target[maps[i][k]]
      <4>1. CASE i = 1
        BY <2>3, <2>4, <3>1, <3>3, <4>1
      <4>2. CASE i = 1 + 1
        BY <2>3, <2>4, <3>2, <3>3, <4>2
      <4> QED
        BY <2>5, <4>1, <4>2
    <3> QED
      BY <3>4 DEF Fits
  <2>8. Agree(ins, type, 1, maps, L)
    BY <2>7, GenericMade
  <2>9. Written(maps[1 + 1], iters, L)
    BY <2>2, <2>3 DEF Written, Parallel
  <2>10. lowering_broadcast(o) = Generic(ins, type, maps, iters, Garbage, "copy")
    <3>1. o.args[1] = in
      BY <1>2
    <3> QED
      BY <1>4, <3>1 DEF lowering_broadcast, maps, map, identity
  <2> HIDE DEF iters, L, ins
  <2>11. Sound(Generic(ins, type, maps, iters, Garbage, "copy"), type)
    BY <2>6, <2>8, <2>9, GenericGood
  <2> QED
    BY <2>10, <2>11
<1> QED
  BY <1>3, <1>4

\* Sema compares the shapes less strictly than the verifier does, which is a gap.
LEMMA BroadcastOutcome ==
  ASSUME NEW e, Generated(e), e.name = "broadcast"
  PROVE  Outcome(e, Made(e))
<1> DEFINE o == Made(e)
           t == e.args[1].value
           list == e.args[2].lits
<1>0. e.name \in Listed
  BY DEF Listed
<1>1. /\ TensorAndList(e.args) /\ Tensed(e.args[1]) /\ list \in Seq(Int) /\ t.shape \in Seq(Nat)
      /\ e.args[1].type.shape = t.shape /\ e.args[1].type.elem = t.elem
  BY <1>0, ListFound DEF Tensed
<1>2. o = Op("broadcast", <<t>>, list, TensorOf(t.elem, list))
  BY <1>0, ListMade DEF ListType
<1>3. /\ o.kind = "broadcast" /\ o.args = <<t>> /\ o.attr = list /\ o.type = TensorOf(t.elem, list)
      /\ o.type.shape = list /\ o.type.elem = t.elem /\ IsTensor(o.type) /\ o.args[1] = t
  BY <1>2 DEF Op, TensorOf, Type, IsTensor
<1>4. Found(e).type = o.type /\ ~(Len(t.shape) > Len(list))
  <2>1. Found(e) = broadcast_infer(e.args)
    BY ResolveIs DEF Found
  <2>2. Found(e) = Answer(TensorOf(t.elem, list), Len(t.shape) > Len(list))
    BY <1>1, <2>1 DEF broadcast_infer
  <2>3. ~Found(e).reported
    BY DEF Generated
  <2> DEFINE long == Len(t.shape) > Len(list)
  <2>4. Found(e).type = TensorOf(t.elem, list) /\ Found(e).reported = long
    BY <2>2 DEF Answer
  <2> HIDE DEF long
  <2>5. ~long
    BY <2>3, <2>4
  <2> QED
    BY <1>3, <2>4, <2>5 DEF long
<1> HIDE DEF o
<1>5. Undefined(o, e.name, Taken(e)) <=> NegativeIn(list)
  BY <1>0, <1>3, ListUndefined DEF NegativeIn
<1> DEFINE Bad == \E d \in DOMAIN t.shape :
             LET to == list[Len(list) - Len(t.shape) + d] IN
             t.shape[d] # to /\ ~(t.shape[d] = 1 /\ to > 1)
<1>6. Gap(e) <=> Bad \/ NegativeIn(list)
  BY <1>1 DEF Gap, Generated, NegativeIn
<1> HIDE DEF Bad
<1>7. Verified(o) = broadcast_verify(t, o.type)
  BY <1>3, VerifiedIs
<1>8. broadcast_verify(t, o.type) <=> ~Bad
  <2>1. Len(t.shape) \in Nat /\ Len(list) \in Nat /\ Len(t.shape) <= Len(list)
        /\ DOMAIN t.shape = 1 .. Len(t.shape) /\ DOMAIN list = 1 .. Len(list)
    <3>1. t.shape \in Seq(Nat) /\ list \in Seq(Int)
      BY <1>1
    <3>2. /\ Len(t.shape) \in Nat /\ Len(list) \in Nat
          /\ DOMAIN t.shape = 1 .. Len(t.shape) /\ DOMAIN list = 1 .. Len(list)
      BY <3>1, SeqFacts
    <3> QED
      BY <1>4, <3>2
  <2> DEFINE n == Len(t.shape)
             m == Len(list)
             OK(from, to) == from = to \/ (from < to /\ from = 1)
  <2>2. broadcast_verify(t, o.type) <=> \A i \in 0 .. n - 1 : OK(t.shape[n - i], list[m - i])
    BY <1>3, <2>1 DEF broadcast_verify
  <2>8. /\ n \in Nat /\ m \in Nat /\ n <= m
        /\ \A d \in 1 .. n : t.shape[d] \in Int
        /\ \A d \in 1 .. m : list[d] \in Int
    BY <1>1, <2>1, SMTT(30)
  <2> HIDE DEF n, m
  <2>3. ASSUME NEW i \in 0 .. n - 1
        PROVE  n - i \in 1 .. n /\ m - n + (n - i) = m - i
    BY <2>8
  <2>4. ASSUME NEW d \in 1 .. n
        PROVE  n - d \in 0 .. n - 1 /\ n - (n - d) = d /\ m - (n - d) = m - n + d
               /\ t.shape[d] \in Int /\ list[m - n + d] \in Int
    <3>1. m - n + d \in 1 .. m
      BY <2>8
    <3> QED
      BY <2>8, <3>1
  <2>5. ASSUME NEW from \in Int, NEW to \in Int
        PROVE  OK(from, to) <=> ~(from # to /\ ~(from = 1 /\ to > 1))
    OBVIOUS
  <2> HIDE DEF OK, n, m
  <2>6. Bad <=> \E d \in 1 .. n : ~OK(t.shape[d], list[m - n + d])
    <3>1. \A d \in 1 .. n : OK(t.shape[d], list[m - n + d]) <=>
             ~(t.shape[d] # list[m - n + d] /\ ~(t.shape[d] = 1 /\ list[m - n + d] > 1))
      BY <2>4, <2>5
    <3> QED
      BY <2>1, <3>1 DEF Bad, n, m
  <2>7. (\A i \in 0 .. n - 1 : OK(t.shape[n - i], list[m - i])) <=> \A d \in 1 .. n : OK(t.shape[d], list[m - n + d])
    <3>1. ASSUME \A i \in 0 .. n - 1 : OK(t.shape[n - i], list[m - i]), NEW d \in 1 .. n
          PROVE  OK(t.shape[d], list[m - n + d])
      BY <2>4, <3>1
    <3>2. ASSUME \A d \in 1 .. n : OK(t.shape[d], list[m - n + d]), NEW i \in 0 .. n - 1
          PROVE  OK(t.shape[n - i], list[m - i])
      BY <2>3, <3>2
    <3> QED
      BY <3>1, <3>2
  <2> QED
    BY <2>2, <2>6, <2>7
<1>9. ~NegativeIn(list) /\ Verified(o) => Lowered(e, o)
  <2> SUFFICES ASSUME ~NegativeIn(list), Verified(o) PROVE Lowered(e, o)
    OBVIOUS
  <2>1. list \in Seq(Nat)
    <3>1. DOMAIN list = 1 .. Len(list) /\ \A i \in 1 .. Len(list) : list[i] \in Int
      BY <1>1
    <3>2. \A i \in 1 .. Len(list) : list[i] \in Nat
      BY <3>1 DEF NegativeIn
    <3> QED
      BY <1>1, <3>2, SeqRange
  <2>2. Sound(lowering_broadcast(o), o.type)
    BY <1>1, <1>3, <1>7, <2>1, BroadcastLowered
  <2>3. Lower(o) = lowering_broadcast(o)
    BY <1>3, LowerIs
  <2> QED
    BY <2>2, <2>3, SoundLowered
<1>10. o.kind # "print" /\ o.type = TensorOf(o.type.elem, o.type.shape)
  BY <1>3
<1> QED
  BY <1>4, <1>5, <1>6, <1>7, <1>8, <1>9, <1>10 DEF Outcome, o

-----------------------------------------------------------------------------
(* Permutations. *)

\* No axis is named twice if there are as many as were named.
LEMMA InjectiveCard ==
  ASSUME NEW axes \in Seq(Int)
  PROVE  IsInjective(axes) <=> ~(Cardinality(ToSet(axes)) < Len(axes))
<1> DEFINE n == Len(axes)
           T == ToSet(axes)
<1>1. n \in Nat /\ DOMAIN axes = 1 .. n
  OBVIOUS
<1> HIDE DEF n
<1>2. axes \in [1 .. n -> T] /\ \A t \in T : \E i \in 1 .. n : axes[i] = t
  BY <1>1 DEF ToSet
<1> HIDE DEF T
<1>3. axes \in Surjection(1 .. n, T)
  BY <1>2 DEF Surjection
<1>4. IsFiniteSet(1 .. n) /\ Cardinality(1 .. n) = n
  BY <1>1, FS_Interval
<1>5. IsFiniteSet(T) /\ Cardinality(T) <= n /\ (Cardinality(T) = n <=> axes \in Injection(1 .. n, T))
  BY <1>3, <1>4, FS_Surjection
<1>6. Cardinality(T) \in Nat
  BY <1>5, FS_CardinalityType
<1>7. axes \in Injection(1 .. n, T) <=> IsInjective(axes)
  BY <1>1, <1>2 DEF Injection, IsInjective
<1>8. ~(Cardinality(T) < n) <=> Cardinality(T) = n
  BY <1>1, <1>5, <1>6
<1> QED
  BY <1>5, <1>7, <1>8 DEF n, T

\* A permutation names every dimension.
LEMMA InjectiveOnto ==
  ASSUME NEW n \in Nat, NEW perm \in Seq(Int), Len(perm) = n, IsInjective(perm),
         \A i \in DOMAIN perm : perm[i] \in 0 .. n - 1
  PROVE  \A d \in 1 .. n : \E i \in 1 .. n : perm[i] = d - 1
<1>1. DOMAIN perm = 1 .. n
  OBVIOUS
<1>2. perm \in Injection(1 .. n, 0 .. n - 1)
  BY <1>1 DEF Injection, IsInjective
<1>3. IsFiniteSet(1 .. n) /\ Cardinality(1 .. n) = n /\ IsFiniteSet(0 .. n - 1) /\ Cardinality(0 .. n - 1) = n
  BY FS_Interval
<1>4. perm \in Surjection(1 .. n, 0 .. n - 1)
  BY <1>2, <1>3, FS_Injection
<1>5. \A t \in 0 .. n - 1 : \E i \in 1 .. n : perm[i] = t
  BY <1>4 DEF Surjection
<1>6. \A d \in 1 .. n : d - 1 \in 0 .. n - 1
  OBVIOUS
<1> QED
  BY <1>5, <1>6

-----------------------------------------------------------------------------
(* transpose *)

\* What sema accepts as a permutation is one for the verifier and the lowering.
LEMMA TransposeOutcome ==
  ASSUME NEW e, Generated(e), e.name = "transpose"
  PROVE  Outcome(e, Made(e))
<1> DEFINE o == Made(e)
           t == e.args[1].value
           perm == e.args[2].lits
           n == Len(t.shape)
           s == [i \in DOMAIN perm |-> t.shape[perm[i] + 1]]
<1>0. e.name \in Listed
  BY DEF Listed
<1>1. /\ TensorAndList(e.args) /\ Tensed(e.args[1]) /\ perm \in Seq(Int) /\ t.shape \in Seq(Nat)
      /\ e.args[1].type.shape = t.shape /\ e.args[1].type.elem = t.elem
  BY <1>0, ListFound DEF Tensed
<1>2. o = Op("transpose", <<t>>, perm, TensorOf(t.elem, s))
  BY <1>0, ListMade DEF ListType, transpose_build
<1> HIDE DEF s
<1>3. /\ o.kind = "transpose" /\ o.args = <<t>> /\ o.attr = perm /\ o.type = TensorOf(t.elem, s)
      /\ o.type.shape = s /\ o.type.elem = t.elem /\ IsTensor(o.type) /\ o.args[1] = t
  BY <1>2 DEF Op, TensorOf, Type, IsTensor
<1>4. /\ Len(perm) = n /\ (\A i \in DOMAIN perm : perm[i] \in 0 .. n - 1) /\ IsInjective(perm)
      /\ Found(e).type = o.type
  <2>1. Found(e) = transpose_infer(e.args) /\ ~Found(e).reported
    BY ResolveIs DEF Found, Generated
  <2>2. Found(e) = Inferred(Len(perm) = n /\ (\A i \in DOMAIN perm : perm[i] \in 0 .. n - 1) /\ IsInjective(perm),
                            t.elem, s)
    BY <1>1, <2>1 DEF transpose_infer, s
  <2> DEFINE ok == Len(perm) = n /\ (\A i \in DOMAIN perm : perm[i] \in 0 .. n - 1) /\ IsInjective(perm)
  <2>3. Found(e) = Inferred(ok, t.elem, s)
    BY <2>2
  <2> HIDE DEF ok
  <2>4. ok /\ Found(e).type = TensorOf(t.elem, s)
    BY <2>1, <2>3 DEF Inferred, Failed, Answer
  <2> QED
    BY <1>3, <2>4 DEF ok
<1>5. n \in Nat /\ DOMAIN perm = 1 .. n /\ DOMAIN t.shape = 1 .. n /\ \A d \in 1 .. n : t.shape[d] \in Nat
  <2>1. n \in Nat /\ DOMAIN t.shape = 1 .. n /\ \A d \in 1 .. n : t.shape[d] \in Nat
    BY <1>1, SeqFacts
  <2>2. DOMAIN perm = 1 .. Len(perm)
    BY <1>1
  <2> HIDE DEF n
  <2> QED
    BY <1>4, <2>1, <2>2
<1>6. s \in Seq(Nat) /\ Len(s) = n /\ DOMAIN s = 1 .. n /\ \A i \in 1 .. n : s[i] = t.shape[perm[i] + 1]
  <2>1. s = [i \in 1 .. n |-> t.shape[perm[i] + 1]]
    BY <1>5 DEF s
  <2>2. \A i \in 1 .. n : t.shape[perm[i] + 1] \in Nat
    <3> SUFFICES ASSUME NEW i \in 1 .. n PROVE t.shape[perm[i] + 1] \in Nat
      OBVIOUS
    <3> HIDE DEF n
    <3>1. perm[i] + 1 \in 1 .. n
      BY <1>4, <1>5
    <3> QED
      BY <1>5, <3>1
  <2> HIDE DEF n
  <2> QED
    BY <1>5, <2>1, <2>2
<1> HIDE DEF o
<1>7. ~Undefined(o, e.name, Taken(e))
  <2>1. \A d \in DOMAIN s : s[d] \in Nat
    BY <1>6
  <2> QED
    BY <1>0, <1>3, <2>1, ListUndefined
<1>8. Verified(o)
  <2>1. transpose_verify(t, perm, o.type)
    <3>1. \A i \in DOMAIN perm : t.shape[perm[i] + 1] = s[i]
      BY <1>5, <1>6
    <3> QED
      BY <1>3, <1>4, <3>1 DEF transpose_verify
  <2> QED
    BY <1>3, <2>1, VerifiedIs
<1>9. ~Gap(e)
  BY GapIs
<1>10. Sound(lowering_transpose(o), o.type)
  <2> DEFINE from(p) == [d \in DOMAIN p |-> p[CHOOSE i \in DOMAIN p : perm[i] = d - 1]]
             points == Points(s)
             k == Kernel(s, Parallel(Len(s)), <<t>>, [p \in points |-> <<<<1, from(p)>>>>],
                         [p \in points |-> p], o.type, Garbage, "copy")
  <2>1. lowering_transpose(o) = <<k>>
    BY <1>3 DEF lowering_transpose, Copy
  <2>2. k.dom = s /\ k.type = o.type /\ k.ins = <<t>> /\ k.writes = [p \in points |-> p]
        /\ k.reads = [p \in points |-> <<<<1, from(p)>>>>]
    BY DEF Kernel
  <2> HIDE DEF k
  <2>3. \A p \in Points(k.dom) : k.writes[p] = p
    BY <2>2
  <2>4. ASSUME NEW p \in Points(k.dom), NEW r \in ToSet(k.reads[p])
        PROVE  r[2] \in Points(k.ins[r[1]].shape)
    <3>1. k.reads[p] = <<<<1, from(p)>>>>
      BY <2>2
    <3> DEFINE q == from(p)
    <3>2. r = <<1, q>>
      BY <3>1 DEF ToSet
    <3>3. p \in Points(s)
      BY <2>2
    <3>4. p \in [1 .. n -> Nat] /\ \A d \in 1 .. n : p[d] < s[d]
      <4>1. s \in Seq(Int)
        BY <1>6, SeqRange
      <4> QED
        BY <1>6, <3>3, <4>1, PointsOf
    <3>5. ASSUME NEW d \in 1 .. n
          PROVE  q[d] \in Nat /\ q[d] < t.shape[d]
      <4>1. \E i \in 1 .. n : perm[i] = d - 1
        <5> HIDE DEF n
        <5> QED
          BY <1>1, <1>4, <1>5, InjectiveOnto
      <4> DEFINE i == CHOOSE i \in 1 .. n : perm[i] = d - 1
      <4>2. i \in 1 .. n /\ perm[i] = d - 1
        BY <4>1
      <4>3. q[d] = p[i]
        BY <3>4
      <4> HIDE DEF i, q
      <4>4. perm[i] + 1 = d
        BY <1>5, <4>2
      <4> QED
        BY <1>6, <3>4, <4>2, <4>3, <4>4
    <3>6. q = [d \in 1 .. n |-> q[d]]
      BY <3>4
    <3> HIDE DEF q
    <3>7. q \in [1 .. n -> Nat]
      BY <3>5, <3>6
    <3>8. t.shape \in Seq(Int)
      BY <1>1, <1>5, SeqRange
    <3>9. q \in Points(t.shape)
      BY <3>5, <3>7, <3>8, PointsOf
    <3> QED
      BY <2>2, <3>2, <3>9
  <2>5. Inside(k) /\ Disjoint(k)
    BY <1>3, <2>2, <2>3, <2>4, CopyGood
  <2>6. k.dom \in Seq(Nat)
    BY <1>6, <2>2
  <2> QED
    BY <2>1, <2>2, <2>5, <2>6 DEF Sound
<1>11. Lowered(e, o)
  BY <1>3, <1>10, LowerIs, SoundLowered
<1>12. o.kind # "print" /\ o.type = TensorOf(o.type.elem, o.type.shape)
  BY <1>3
<1> QED
  BY <1>4, <1>7, <1>8, <1>9, <1>11, <1>12 DEF Outcome, o

-----------------------------------------------------------------------------
(* reshape *)

\* A reshape compiles unless a dimension is below zero; it stays in bounds if no product wraps.
LEMMA ReshapeOutcome ==
  ASSUME NEW e, Generated(e), e.name = "reshape"
  PROVE  Outcome(e, Made(e))
<1> DEFINE o == Made(e)
           t == e.args[1].value
           list == e.args[2].lits
<1>0. e.name \in Listed
  BY DEF Listed
<1>1. /\ TensorAndList(e.args) /\ Tensed(e.args[1]) /\ list \in Seq(Int) /\ t.shape \in Seq(Nat)
      /\ e.args[1].type.shape = t.shape /\ e.args[1].type.elem = t.elem
  BY <1>0, ListFound DEF Tensed
<1>2. o = Op("reshape", <<t>>, list, TensorOf(t.elem, list))
  BY <1>0, ListMade DEF ListType
<1>3. /\ o.kind = "reshape" /\ o.args = <<t>> /\ o.attr = list /\ o.type = TensorOf(t.elem, list)
      /\ o.type.shape = list /\ o.type.elem = t.elem /\ IsTensor(o.type) /\ o.args[1] = t
  BY <1>2 DEF Op, TensorOf, Type, IsTensor
<1>4. Elems(t.shape) = Elems(list) /\ Found(e).type = o.type
  <2>1. Found(e) = reshape_infer(e.args) /\ ~Found(e).reported
    BY ResolveIs DEF Found, Generated
  <2> DEFINE ok == Elems(t.shape) = Elems(list)
  <2>3. Found(e) = Inferred(ok, t.elem, list)
    BY <1>1, <2>1 DEF reshape_infer
  <2> HIDE DEF ok
  <2>4. ok /\ Found(e).type = TensorOf(t.elem, list)
    BY <2>1, <2>3 DEF Inferred, Failed, Answer
  <2> QED
    BY <1>3, <2>4 DEF ok
<1> HIDE DEF o
<1>5. Undefined(o, e.name, Taken(e)) <=> NegativeIn(list)
  BY <1>0, <1>3, ListUndefined DEF NegativeIn
<1>6. Gap(e) <=> NegativeIn(list)
  BY GapIs DEF NegativeIn
<1>7. Verified(o)
  BY <1>3, <1>4, VerifiedIs DEF reshape_verify
<1>8. ASSUME ~NegativeIn(list) PROVE Lowered(e, o)
  <2>1. list \in Seq(Nat)
    <3>1. DOMAIN list = 1 .. Len(list) /\ \A i \in 1 .. Len(list) : list[i] \in Int
      BY <1>1
    <3>2. \A i \in 1 .. Len(list) : list[i] \in Nat
      BY <1>8, <3>1 DEF NegativeIn
    <3> QED
      BY <1>1, <3>2, SeqRange
  <2> DEFINE points == Points(list)
             k == Kernel(list, Parallel(Len(list)), <<t>>,
                         [p \in points |-> <<<<1, Point(t.shape, Offset(list, p))>>>>],
                         [p \in points |-> p], o.type, Garbage, "copy")
  <2>2. Lower(o) = <<k>>
    <3>1. Lower(o) = lowering_reshape(o)
      BY <1>3, LowerIs
    <3> QED
      BY <1>3, <3>1 DEF lowering_reshape, Reshape, Copy
  <2>3. k.dom = list /\ k.type = o.type /\ k.ins = <<t>> /\ k.writes = [p \in points |-> p]
        /\ k.reads = [p \in points |-> <<<<1, Point(t.shape, Offset(list, p))>>>>]
    BY DEF Kernel
  <2> HIDE DEF k
  <2>4. Disjoint(k)
    BY <2>3 DEF Disjoint
  <2>5. BoundsOf(e, o, <<k>>)
    <3>1. ASSUME NEW p \in Points(k.dom) PROVE k.writes[p] \in Points(k.type.shape)
      BY <1>3, <2>3
    <3>2. ASSUME NEW p \in Points(k.dom), NEW r \in ToSet(k.reads[p]), Count(list) = Count(t.shape)
          PROVE  r[2] \in Points(k.ins[r[1]].shape)
      <4> DEFINE q == Point(t.shape, Offset(list, p))
      <4>1. k.reads[p] = <<<<1, q>>>>
        BY <2>3
      <4>2. r = <<1, q>>
        BY <4>1 DEF ToSet
      <4>3. Offset(list, p) \in 0 .. Count(list) - 1
        BY <2>1, <2>3, OffsetInside
      <4>4. q \in Points(t.shape)
        BY <1>1, <3>2, <4>3, PointInside
      <4> QED
        BY <2>3, <4>2, <4>4
    <3> QED
      BY <1>3, <2>3, <3>1, <3>2 DEF BoundsOf
  <2>6. k.dom \in Seq(Nat)
    BY <2>1, <2>3
  <2> QED
    BY <2>2, <2>3, <2>4, <2>5, <2>6 DEF Lowered
<1>9. o.kind # "print" /\ o.type = TensorOf(o.type.elem, o.type.shape)
  BY <1>3
<1> QED
  BY <1>4, <1>5, <1>6, <1>7, <1>8, <1>9 DEF Outcome, o

-----------------------------------------------------------------------------
(* reduce_sum and reduce_max *)

\* A reduction becomes a kernel whose parallel loops are the dimensions of the result.
LEMMA ReductionLowered ==
  ASSUME NEW in, in.shape \in Seq(Nat), NEW axes, NEW type,
         type.shape = [i \in DOMAIN Kept(in.shape, axes) |-> in.shape[Kept(in.shape, axes)[i]]],
         type.shape \in Seq(Nat),
         NEW o, o.args = <<in>>, o.attr = axes, o.type = type, NEW init
  PROVE  Sound(Reduction(o, init), type)
<1> DEFINE shape == in.shape
           ins == <<in>>
           L == Len(shape)
           kept == Kept(shape, axes)
           identity == [d \in DOMAIN shape |-> d]
           maps == <<identity, kept>>
           iters == iter_types(shape, axes)
<1>1. L \in Nat /\ DOMAIN shape = 1 .. L /\ shape \in Seq(Int)
  <2>1. \A d \in 1 .. L : shape[d] \in Int
    OBVIOUS
  <2> QED
    BY <2>1, SeqRange
<1>2. Len(ins) = 1 /\ DOMAIN ins = 1 .. 1 /\ ins[1] = in
  OBVIOUS
<1>3. identity \in Seq(0 .. L) /\ Len(identity) = L /\ DOMAIN identity = 1 .. L /\ \A d \in 1 .. L : identity[d] = d
  <2>1. identity = [d \in 1 .. L |-> d]
    BY <1>1
  <2> HIDE DEF identity, L
  <2> QED
    BY <1>1, <2>1
<1> HIDE DEF identity
<1>4. /\ kept \in Seq(1 .. L)
      /\ \A d \in 1 .. L : (~\E i \in DOMAIN axes : axes[i] = d - 1) => \E k \in 1 .. Len(kept) : kept[k] = d
  <2>1. shape \in Seq(Int)
    BY <1>1
  <2> HIDE DEF shape
  <2>2. Kept(shape, axes) \in Seq(1 .. Len(shape))
    BY <2>1, KeptFacts
  <2>3. Others(Kept(shape, axes), axes, Len(shape))
    BY <2>1, KeptFacts
  <2> QED
    BY <2>2, <2>3 DEF Others
<1> HIDE DEF L
<1> HIDE DEF kept
<1>5. /\ kept \in Seq(0 .. L) /\ DOMAIN kept = 1 .. Len(kept) /\ Len(kept) \in Nat
      /\ \A k \in 1 .. Len(kept) : kept[k] \in 1 .. L
  <2>1. DOMAIN kept = 1 .. Len(kept) /\ Len(kept) \in Nat /\ \A k \in 1 .. Len(kept) : kept[k] \in 1 .. L
    BY <1>4, SeqFacts
  <2>2. \A k \in 1 .. Len(kept) : kept[k] \in 0 .. L
    BY <1>1, <2>1
  <2> QED
    BY <1>4, <2>1, <2>2, SeqRange
<1>6. type.shape = [i \in 1 .. Len(kept) |-> shape[kept[i]]]
  BY <1>5 DEF kept
<1>7. Len(type.shape) = Len(kept) /\ \A i \in 1 .. Len(kept) : type.shape[i] = shape[kept[i]]
  BY <1>5, <1>6
<1>8. maps \in Seq(Seq(0 .. L)) /\ Len(maps) = 1 + 1 /\ maps[1] = identity /\ maps[1 + 1] = kept
  BY <1>3, <1>5
<1> HIDE DEF maps
<1>9. MapShape(ins, type, 1, 1) = shape /\ MapShape(ins, type, 1, 1 + 1) = type.shape
  BY <1>2 DEF MapShape
<1>10. 1 \in 1 .. 1 + 1 /\ \A i \in 1 .. 1 + 1 : i = 1 \/ i = 1 + 1
  OBVIOUS
<1>11. Mapped(ins, type, 1, maps, L)
  <2>1. \A d \in 1 .. L : \E i \in 1 .. 1 + 1 : \E k \in DOMAIN maps[i] : maps[i][k] = d
    <3> SUFFICES ASSUME NEW d \in 1 .. L
                 PROVE  \E i \in 1 .. 1 + 1 : \E k \in DOMAIN maps[i] : maps[i][k] = d
      OBVIOUS
    <3>1. d \in DOMAIN maps[1] /\ maps[1][d] = d
      BY <1>3, <1>8
    <3> QED
      BY <1>10, <3>1
  <2>2. \A i \in 1 .. 1 : ins[i].shape \in Seq(Int)
    BY <1>1, <1>2
  <2>3. type.shape \in Seq(Int)
    <3>1. \A d \in 1 .. Len(type.shape) : type.shape[d] \in Int
      OBVIOUS
    <3> QED
      BY <3>1, SeqRange
  <2> QED
    BY <1>1, <1>2, <1>8, <2>1, <2>2, <2>3 DEF Mapped
<1>12. Fits(ins, type, 1, maps, shape)
  <2>1. ASSUME NEW k \in DOMAIN identity
        PROVE  IF identity[k] = 0 THEN shape[k] >= 1 ELSE shape[k] = shape[identity[k]]
    <3>1. identity[k] = k /\ k # 0
      BY <1>1, <1>3
    <3> QED
      BY <3>1
  <2>2. ASSUME NEW k \in DOMAIN kept
        PROVE  IF kept[k] = 0 THEN type.shape[k] >= 1 ELSE type.shape[k] = shape[kept[k]]
    <3>1. kept[k] # 0
      BY <1>1, <1>5
    <3> QED
      BY <1>5, <1>7, <3>1
  <2>3. Len(identity) = Len(shape)
    BY <1>3 DEF L
  <2> HIDE DEF shape
  <2>4. ASSUME NEW i \in 1 .. 1 + 1
        PROVE  /\ Len(maps[i]) = Len(MapShape(ins, type, 1, i))
               /\ \A k \in DOMAIN maps[i] :
                    IF maps[i][k] = 0 THEN MapShape(ins, type, 1, i)[k] >= 1
                    ELSE MapShape(ins, type, 1, i)[k] = shape[maps[i][k]]
    <3>1. CASE i = 1
      BY <1>8, <1>9, <2>1, <2>3, <3>1
    <3>2. CASE i = 1 + 1
      <4>1. maps[i] = kept /\ MapShape(ins, type, 1, i) = type.shape
        BY <1>8, <1>9, <3>2
      <4> QED
        BY <1>7, <2>2, <4>1, SMTT(30)
    <3> QED
      BY <1>10, <3>1, <3>2
  <2> QED
    BY <2>4 DEF Fits
<1>13. Agree(ins, type, 1, maps, L)
  BY <1>12, GenericMade
<1>14. Written(maps[1 + 1], iters, L)
  <2>1. iters = [d \in 1 .. L |-> IF d - 1 \in ToSet(axes) THEN "reduction" ELSE "parallel"]
    BY <1>1 DEF iter_types
  <2> HIDE DEF iters
  <2>2. ASSUME NEW d \in 1 .. L, iters[d] = "parallel"
        PROVE  \E j \in DOMAIN kept : kept[j] = d
    <3>1. d - 1 \notin ToSet(axes)
      BY <2>1, <2>2
    <3>2. ~\E i \in DOMAIN axes : axes[i] = d - 1
      BY <3>1 DEF ToSet
    <3> QED
      BY <1>4, <1>5, <3>2
  <2> QED
    BY <1>8, <2>1, <2>2 DEF Written
<1>15. Reduction(o, init) = Generic(ins, type, maps, iters, init, o.kind)
  <2>1. o.args[1] = in
    BY <1>2
  <2> QED
    BY <2>1 DEF Reduction, maps, identity, kept
<1> HIDE DEF iters, ins
<1>16. Sound(Generic(ins, type, maps, iters, init, o.kind), type)
  BY <1>11, <1>13, <1>14, GenericGood
<1> QED
  BY <1>15, <1>16

\* A reduction compiles unless an axis is named twice.
LEMMA ReduceOutcome ==
  ASSUME NEW e, Generated(e), e.name \in {"reduce_sum", "reduce_max"}
  PROVE  Outcome(e, Made(e))
<1> DEFINE o == Made(e)
           t == e.args[1].value
           axes == e.args[2].lits
           kept == Kept(t.shape, axes)
           s == [i \in DOMAIN kept |-> t.shape[kept[i]]]
<1>0. e.name \in Listed
  BY DEF Listed
<1>1. /\ TensorAndList(e.args) /\ Tensed(e.args[1]) /\ axes \in Seq(Int) /\ t.shape \in Seq(Nat)
      /\ e.args[1].type.shape = t.shape /\ e.args[1].type.elem = t.elem
  BY <1>0, ListFound DEF Tensed
<1>2. o = Op(e.name, <<t>>, axes, TensorOf(t.elem, s)) /\ reduce_build(t, axes) = TensorOf(t.elem, s)
  BY <1>0, ListMade DEF ListType, reduce_build
<1>21. t.shape \in Seq(Int) /\ \A d \in 1 .. Len(t.shape) : t.shape[d] \in Nat
  <2>1. \A d \in 1 .. Len(t.shape) : t.shape[d] \in Nat
    BY <1>1, SMTT(30)
  <2>2. \A d \in 1 .. Len(t.shape) : t.shape[d] \in Int
    BY <2>1
  <2> QED
    BY <1>1, <2>1, <2>2, SeqRange
<1>22. kept \in Seq(1 .. Len(t.shape))
  BY <1>21, KeptFacts
<1> HIDE DEF kept
<1>23. s \in Seq(Nat)
  <2>1. Len(kept) \in Nat /\ DOMAIN kept = 1 .. Len(kept) /\ \A i \in 1 .. Len(kept) : kept[i] \in 1 .. Len(t.shape)
    BY <1>22
  <2>2. s = [i \in 1 .. Len(kept) |-> t.shape[kept[i]]]
    BY <2>1
  <2>3. \A i \in 1 .. Len(kept) : t.shape[kept[i]] \in Nat
    BY <1>21, <2>1
  <2> QED
    BY <2>1, <2>2, <2>3
<1> HIDE DEF s
<1>3. /\ o.kind = e.name /\ o.args = <<t>> /\ o.attr = axes /\ o.type = TensorOf(t.elem, s)
      /\ o.type.shape = s /\ o.type.elem = t.elem /\ IsTensor(o.type) /\ o.args[1] = t
  BY <1>2 DEF Op, TensorOf, Type, IsTensor
<1>4. Found(e).type = o.type /\ \A i \in DOMAIN axes : axes[i] \in 0 .. Len(t.shape) - 1
  <2>1. Found(e) = reduce_infer(e.args) /\ ~Found(e).reported
    BY ResolveIs DEF Found, Generated
  <2> DEFINE ok == \A i \in DOMAIN axes : axes[i] \in 0 .. Len(t.shape) - 1
  <2>2. output_shape(t.shape, axes) = s
    BY <1>21, OutputIsKept DEF s, kept
  <2>3. Found(e) = Inferred(ok, t.elem, s)
    BY <1>1, <2>1, <2>2 DEF reduce_infer
  <2> HIDE DEF ok
  <2>4. ok /\ Found(e).type = TensorOf(t.elem, s)
    BY <2>1, <2>3 DEF Inferred, Failed, Answer
  <2> QED
    BY <1>3, <2>4 DEF ok
<1> HIDE DEF o
<1>5. ~Undefined(o, e.name, Taken(e))
  <2>1. \A d \in DOMAIN s : s[d] \in Nat
    BY <1>23
  <2> QED
    BY <1>0, <1>3, <2>1, ListUndefined
<1>6. Gap(e) <=> ~IsInjective(axes)
  BY <1>1, GapIs, InjectiveCard
<1>7. Verified(o) <=> IsInjective(axes)
  <2>1. Verified(o) = reduce_verify(t, axes, o.type)
    BY <1>3, VerifiedIs
  <2> QED
    BY <1>2, <1>3, <1>4, <2>1 DEF reduce_verify
<1>8. Lowered(e, o)
  <2>1. \A init : Sound(Reduction(o, init), o.type)
    <3>1. o.type.shape = [i \in DOMAIN Kept(t.shape, axes) |-> t.shape[Kept(t.shape, axes)[i]]]
      BY <1>3 DEF s, kept
    <3> QED
      BY <1>1, <1>3, <1>23, <3>1, ReductionLowered
  <2>2. Sound(Lower(o), o.type)
    BY <1>3, <2>1, LowerIs DEF lowering_reduce_sum, lowering_reduce_max
  <2> QED
    BY <2>2, SoundLowered
<1>9. o.kind # "print" /\ o.type = TensorOf(o.type.elem, o.type.shape)
  BY <1>3
<1> QED
  BY <1>4, <1>5, <1>6, <1>7, <1>8, <1>9 DEF Outcome, o

-----------------------------------------------------------------------------
(* matmul *)

\* The first m elements.
LEMMA PrefixFacts ==
  ASSUME NEW S, NEW x \in Seq(S), NEW m \in 0 .. Len(x)
  PROVE  /\ SubSeq(x, 1, m) \in Seq(S) /\ Len(SubSeq(x, 1, m)) = m
         /\ \A d \in 1 .. m : SubSeq(x, 1, m)[d] = x[d]
  OBVIOUS

\* Parallel loops before a reduction.
LEMMA ParallelThen ==
  ASSUME NEW n \in Nat, NEW iters, iters = Append(Parallel(n), "reduction")
  PROVE  DOMAIN iters = 1 .. n + 1 /\ iters[n + 1] = "reduction"
<1>1. Parallel(n) \in Seq({"parallel", "reduction"}) /\ Len(Parallel(n)) = n
  BY DEF Parallel
<1> QED
  BY <1>1

\* The maps of linalg.matmul, and of linalg.batch_matmul.
PlainMaps == <<<<1, 3>>, <<3, 2>>, <<1, 2>>>>
BatchMaps == <<<<1, 2, 4>>, <<1, 4, 3>>, <<1, 2, 3>>>>

\* Two matrices that fit, and two lists of as many matrices.
PlainFit(l, r, type) ==
  /\ l.shape \in Seq(Nat) /\ r.shape \in Seq(Nat) /\ type.shape \in Seq(Nat)
  /\ Len(l.shape) = 2 /\ Len(r.shape) = 2 /\ Len(type.shape) = 2
  /\ l.shape[2] = r.shape[1] /\ type.shape[1] = l.shape[1] /\ type.shape[2] = r.shape[2]
BatchFit(l, r, type) ==
  /\ l.shape \in Seq(Nat) /\ r.shape \in Seq(Nat) /\ type.shape \in Seq(Nat)
  /\ Len(l.shape) = 3 /\ Len(r.shape) = 3 /\ Len(type.shape) = 3
  /\ l.shape[1] = r.shape[1] /\ l.shape[3] = r.shape[2]
  /\ type.shape[1] = l.shape[1] /\ type.shape[2] = l.shape[2] /\ type.shape[3] = r.shape[3]

\* Operands with no batch dimension, or with more than one.
NotBatched(l, r, type) == Len(l.shape) # 3 /\ l.shape \in Seq(Nat) /\ r.shape \in Seq(Nat) /\ type.shape \in Seq(Nat)

\* A product of matrices becomes a kernel in bounds whose parallel loops write apart.
LEMMA PlainGood ==
  ASSUME NEW l, NEW r, NEW type, PlainFit(l, r, type), NEW ins, ins = <<l, r>>,
         NEW iters, iters = Append(Parallel(2), "reduction"), NEW init, NEW body
  PROVE  Sound(Generic(ins, type, PlainMaps, iters, init, body), type)
<1> DEFINE D == <<l.shape[1], r.shape[2], l.shape[2]>>
           m1 == <<1, 3>>
           m2 == <<3, 2>>
           m3 == <<1, 2>>
           maps == PlainMaps
<1>1. Len(ins) = 2 /\ DOMAIN ins = 1 .. 2 /\ ins[1] = l /\ ins[2] = r
  OBVIOUS
<1>3. /\ DOMAIN m1 = {1, 2} /\ Len(m1) = 2 /\ m1[1] = 1 /\ m1[2] = 3
      /\ DOMAIN m2 = {1, 2} /\ Len(m2) = 2 /\ m2[1] = 3 /\ m2[2] = 2
      /\ DOMAIN m3 = {1, 2} /\ Len(m3) = 2 /\ m3[1] = 1 /\ m3[2] = 2
  OBVIOUS
<1>31. m1 \in Seq(0 .. 3) /\ m2 \in Seq(0 .. 3) /\ m3 \in Seq(0 .. 3)
  OBVIOUS
<1> HIDE DEF m1, m2, m3
<1>2. /\ maps \in Seq(Seq(0 .. 3)) /\ Len(maps) = 2 + 1
      /\ maps[1] = m1 /\ maps[2] = m2 /\ maps[2 + 1] = m3
  <2>1. maps = <<m1, m2, m3>>
    BY DEF PlainMaps, m1, m2, m3
  <2> HIDE DEF maps
  <2> QED
    BY <1>31, <2>1
<1>4. D[1] = l.shape[1] /\ D[2] = r.shape[2] /\ D[3] = l.shape[2]
  OBVIOUS
<1> HIDE DEF D
<1>5. MapShape(ins, type, 2, 1) = l.shape /\ MapShape(ins, type, 2, 2) = r.shape
      /\ MapShape(ins, type, 2, 2 + 1) = type.shape
  BY <1>1 DEF MapShape
<1>6. /\ 1 \in 1 .. 2 + 1 /\ 2 \in 1 .. 2 + 1 /\ 2 + 1 \in 1 .. 2 + 1
      /\ (\A i \in 1 .. 2 + 1 : i = 1 \/ i = 2 \/ i = 2 + 1) /\ \A i \in 1 .. 2 : i = 1 \/ i = 2
  OBVIOUS
<1>61. \A d \in 1 .. 3 : d = 1 \/ d = 2 \/ d = 3
  OBVIOUS
<1> HIDE DEF maps
<1>7. Mapped(ins, type, 2, maps, 3)
  <2>1. \A d \in 1 .. 3 : \E i \in 1 .. 2 + 1 : \E k \in DOMAIN maps[i] : maps[i][k] = d
    <3>1. \A k \in {1, 2} : k \in DOMAIN maps[1] /\ k \in DOMAIN maps[2] /\ k \in DOMAIN maps[2 + 1]
      BY <1>2, <1>3
    <3>2. \E i \in 1 .. 2 + 1 : \E k \in DOMAIN maps[i] : maps[i][k] = 1
      BY <1>2, <1>3, <1>6
    <3>3. \E i \in 1 .. 2 + 1 : \E k \in DOMAIN maps[i] : maps[i][k] = 2
      BY <1>2, <1>3, <1>6
    <3>4. \E i \in 1 .. 2 + 1 : \E k \in DOMAIN maps[i] : maps[i][k] = 3
      BY <1>2, <1>3, <1>6
    <3> QED
      BY <1>61, <3>2, <3>3, <3>4
  <2>2. l.shape \in Seq(Nat) /\ r.shape \in Seq(Nat) /\ type.shape \in Seq(Nat)
    BY DEF PlainFit
  <2>3. \A i \in 1 .. 2 : ins[i].shape \in Seq(Nat)
    BY <1>1, <1>6, <2>2
  <2> QED
    BY <1>1, <1>2, <2>1, <2>2, <2>3 DEF Mapped
<1>8. Fits(ins, type, 2, maps, D)
  <2>1. ASSUME NEW i \in 1 .. 2 + 1
        PROVE  /\ Len(maps[i]) = Len(MapShape(ins, type, 2, i))
               /\ \A k \in DOMAIN maps[i] :
                    IF maps[i][k] = 0 THEN MapShape(ins, type, 2, i)[k] >= 1
                    ELSE MapShape(ins, type, 2, i)[k] = D[maps[i][k]]
    <3>0. \A k \in {1, 2} : k = 1 \/ k = 2
      OBVIOUS
    <3>1. CASE i = 1
      <4>1. maps[i] = m1 /\ MapShape(ins, type, 2, i) = l.shape
        BY <1>2, <1>5, <3>1
      <4>2. l.shape[1] = D[1] /\ l.shape[2] = D[3]
        BY <1>4 DEF PlainFit
      <4>3. Len(l.shape) = Len(m1)
        BY <1>3 DEF PlainFit
      <4>4. ASSUME NEW k \in DOMAIN m1 PROVE m1[k] # 0 /\ l.shape[k] = D[m1[k]]
        BY <1>3, <3>0, <4>2
      <4> QED
        BY <4>1, <4>3, <4>4
    <3>2. CASE i = 2
      <4>1. maps[i] = m2 /\ MapShape(ins, type, 2, i) = r.shape
        BY <1>2, <1>5, <3>2
      <4>2. r.shape[1] = D[3] /\ r.shape[2] = D[2]
        BY <1>4 DEF PlainFit
      <4>3. Len(r.shape) = Len(m2)
        BY <1>3 DEF PlainFit
      <4>4. ASSUME NEW k \in DOMAIN m2 PROVE m2[k] # 0 /\ r.shape[k] = D[m2[k]]
        BY <1>3, <3>0, <4>2
      <4> QED
        BY <4>1, <4>3, <4>4
    <3>3. CASE i = 2 + 1
      <4>1. maps[i] = m3 /\ MapShape(ins, type, 2, i) = type.shape
        BY <1>2, <1>5, <3>3
      <4>2. type.shape[1] = D[1] /\ type.shape[2] = D[2]
        BY <1>4 DEF PlainFit
      <4>3. Len(type.shape) = Len(m3)
        BY <1>3 DEF PlainFit
      <4>4. ASSUME NEW k \in DOMAIN m3 PROVE m3[k] # 0 /\ type.shape[k] = D[m3[k]]
        BY <1>3, <3>0, <4>2
      <4> QED
        BY <4>1, <4>3, <4>4
    <3> QED
      BY <1>6, <3>1, <3>2, <3>3
  <2> QED
    BY <2>1 DEF Fits
<1>9. Agree(ins, type, 2, maps, 3)
  BY <1>8, GenericMade
<1>10. Written(maps[2 + 1], iters, 3)
  <2>1. DOMAIN iters = 1 .. 3 /\ iters[3] = "reduction"
    <3>1. 2 + 1 = 3 /\ 2 \in Nat
      OBVIOUS
    <3> QED
      BY <3>1, ParallelThen
  <2>2. \A d \in 1 .. 3 : d = 3 \/ (d \in DOMAIN m3 /\ m3[d] = d)
    BY <1>3, <1>61
  <2> QED
    BY <1>2, <2>1, <2>2 DEF Written
<1>11. Sound(Generic(ins, type, maps, iters, init, body), type)
  BY <1>7, <1>9, <1>10, GenericGood
<1> QED
  BY <1>11 DEF maps

\* So does a product of lists of matrices.
LEMMA BatchGood ==
  ASSUME NEW l, NEW r, NEW type, BatchFit(l, r, type), NEW ins, ins = <<l, r>>,
         NEW iters, iters = Append(Parallel(3), "reduction"), NEW init, NEW body
  PROVE  Sound(Generic(ins, type, BatchMaps, iters, init, body), type)
<1> DEFINE D == <<l.shape[1], l.shape[2], r.shape[3], l.shape[3]>>
           m1 == <<1, 2, 4>>
           m2 == <<1, 4, 3>>
           m3 == <<1, 2, 3>>
           maps == BatchMaps
<1>1. Len(ins) = 2 /\ DOMAIN ins = 1 .. 2 /\ ins[1] = l /\ ins[2] = r
  OBVIOUS
<1>3. /\ DOMAIN m1 = {1, 2, 3} /\ Len(m1) = 3 /\ m1[1] = 1 /\ m1[2] = 2 /\ m1[3] = 4
      /\ DOMAIN m2 = {1, 2, 3} /\ Len(m2) = 3 /\ m2[1] = 1 /\ m2[2] = 4 /\ m2[3] = 3
      /\ DOMAIN m3 = {1, 2, 3} /\ Len(m3) = 3 /\ m3[1] = 1 /\ m3[2] = 2 /\ m3[3] = 3
  OBVIOUS
<1>31. m1 \in Seq(0 .. 4) /\ m2 \in Seq(0 .. 4) /\ m3 \in Seq(0 .. 4)
  OBVIOUS
<1> HIDE DEF m1, m2, m3
<1>2. /\ maps \in Seq(Seq(0 .. 4)) /\ Len(maps) = 2 + 1
      /\ maps[1] = m1 /\ maps[2] = m2 /\ maps[2 + 1] = m3
  <2>1. maps = <<m1, m2, m3>>
    BY DEF BatchMaps, m1, m2, m3
  <2> HIDE DEF maps
  <2> QED
    BY <1>31, <2>1
<1>4. D[1] = l.shape[1] /\ D[2] = l.shape[2] /\ D[3] = r.shape[3] /\ D[4] = l.shape[3]
  OBVIOUS
<1> HIDE DEF D
<1>5. MapShape(ins, type, 2, 1) = l.shape /\ MapShape(ins, type, 2, 2) = r.shape
      /\ MapShape(ins, type, 2, 2 + 1) = type.shape
  BY <1>1 DEF MapShape
<1>6. /\ 1 \in 1 .. 2 + 1 /\ 2 \in 1 .. 2 + 1 /\ 2 + 1 \in 1 .. 2 + 1
      /\ (\A i \in 1 .. 2 + 1 : i = 1 \/ i = 2 \/ i = 2 + 1) /\ \A i \in 1 .. 2 : i = 1 \/ i = 2
  OBVIOUS
<1>61. \A d \in 1 .. 4 : d = 1 \/ d = 2 \/ d = 3 \/ d = 4
  OBVIOUS
<1> HIDE DEF maps
<1>7. Mapped(ins, type, 2, maps, 4)
  <2>1. \A d \in 1 .. 4 : \E i \in 1 .. 2 + 1 : \E k \in DOMAIN maps[i] : maps[i][k] = d
    <3>1. \A k \in {1, 2, 3} : k \in DOMAIN maps[1] /\ k \in DOMAIN maps[2] /\ k \in DOMAIN maps[2 + 1]
      BY <1>2, <1>3
    <3>2. \E i \in 1 .. 2 + 1 : \E k \in DOMAIN maps[i] : maps[i][k] = 1
      BY <1>2, <1>3, <1>6
    <3>3. \E i \in 1 .. 2 + 1 : \E k \in DOMAIN maps[i] : maps[i][k] = 2
      BY <1>2, <1>3, <1>6
    <3>4. \E i \in 1 .. 2 + 1 : \E k \in DOMAIN maps[i] : maps[i][k] = 3
      BY <1>2, <1>3, <1>6
    <3>5. \E i \in 1 .. 2 + 1 : \E k \in DOMAIN maps[i] : maps[i][k] = 4
      BY <1>2, <1>3, <1>6
    <3> QED
      BY <1>61, <3>2, <3>3, <3>4, <3>5
  <2>2. l.shape \in Seq(Nat) /\ r.shape \in Seq(Nat) /\ type.shape \in Seq(Nat)
    BY DEF BatchFit
  <2>3. \A i \in 1 .. 2 : ins[i].shape \in Seq(Nat)
    BY <1>1, <1>6, <2>2
  <2> QED
    BY <1>1, <1>2, <2>1, <2>2, <2>3 DEF Mapped
<1>8. Fits(ins, type, 2, maps, D)
  <2>1. ASSUME NEW i \in 1 .. 2 + 1
        PROVE  /\ Len(maps[i]) = Len(MapShape(ins, type, 2, i))
               /\ \A k \in DOMAIN maps[i] :
                    IF maps[i][k] = 0 THEN MapShape(ins, type, 2, i)[k] >= 1
                    ELSE MapShape(ins, type, 2, i)[k] = D[maps[i][k]]
    <3>0. \A k \in {1, 2, 3} : k = 1 \/ k = 2 \/ k = 3
      OBVIOUS
    <3>1. CASE i = 1
      <4>1. maps[i] = m1 /\ MapShape(ins, type, 2, i) = l.shape
        BY <1>2, <1>5, <3>1
      <4>2. l.shape[1] = D[1] /\ l.shape[2] = D[2] /\ l.shape[3] = D[4]
        BY <1>4 DEF BatchFit
      <4>3. Len(l.shape) = Len(m1)
        BY <1>3 DEF BatchFit
      <4>4. ASSUME NEW k \in DOMAIN m1 PROVE m1[k] # 0 /\ l.shape[k] = D[m1[k]]
        BY <1>3, <3>0, <4>2
      <4> QED
        BY <4>1, <4>3, <4>4
    <3>2. CASE i = 2
      <4>1. maps[i] = m2 /\ MapShape(ins, type, 2, i) = r.shape
        BY <1>2, <1>5, <3>2
      <4>2. r.shape[1] = D[1] /\ r.shape[2] = D[4] /\ r.shape[3] = D[3]
        BY <1>4 DEF BatchFit
      <4>3. Len(r.shape) = Len(m2)
        BY <1>3 DEF BatchFit
      <4>4. ASSUME NEW k \in DOMAIN m2 PROVE m2[k] # 0 /\ r.shape[k] = D[m2[k]]
        BY <1>3, <3>0, <4>2
      <4> QED
        BY <4>1, <4>3, <4>4
    <3>3. CASE i = 2 + 1
      <4>1. maps[i] = m3 /\ MapShape(ins, type, 2, i) = type.shape
        BY <1>2, <1>5, <3>3
      <4>2. type.shape[1] = D[1] /\ type.shape[2] = D[2] /\ type.shape[3] = D[3]
        BY <1>4 DEF BatchFit
      <4>3. Len(type.shape) = Len(m3)
        BY <1>3 DEF BatchFit
      <4>4. ASSUME NEW k \in DOMAIN m3 PROVE m3[k] # 0 /\ type.shape[k] = D[m3[k]]
        BY <1>3, <3>0, <4>2
      <4> QED
        BY <4>1, <4>3, <4>4
    <3> QED
      BY <1>6, <3>1, <3>2, <3>3
  <2> QED
    BY <2>1 DEF Fits
<1>9. Agree(ins, type, 2, maps, 4)
  BY <1>8, GenericMade
<1>10. Written(maps[2 + 1], iters, 4)
  <2>1. DOMAIN iters = 1 .. 4 /\ iters[4] = "reduction"
    <3>1. 3 + 1 = 4 /\ 3 \in Nat
      OBVIOUS
    <3> QED
      BY <3>1, ParallelThen
  <2>2. \A d \in 1 .. 4 : d = 4 \/ (d \in DOMAIN m3 /\ m3[d] = d)
    BY <1>3, <1>61
  <2> QED
    BY <1>2, <2>1, <2>2 DEF Written
<1>11. Sound(Generic(ins, type, maps, iters, init, body), type)
  BY <1>7, <1>9, <1>10, GenericGood
<1> QED
  BY <1>11 DEF maps

\* With more dimensions there is no kernel.
NoKernel(lowered) == lowered = << >>
\* With more batch dimensions there is no kernel.
LEMMA TooManyBatches ==
  ASSUME NEW l, NEW r, NEW type, NotBatched(l, r, type), NEW ins, ins = <<l, r>>,
         NEW iters, iters = Append(Parallel(3), "reduction"), NEW init, NEW body
  PROVE  NoKernel(Generic(ins, type, BatchMaps, iters, init, body))
<1> DEFINE m1 == <<1, 2, 4>>
           m2 == <<1, 4, 3>>
           m3 == <<1, 2, 3>>
           maps == BatchMaps
<1>1. Len(ins) = 2 /\ DOMAIN ins = 1 .. 2 /\ ins[1] = l /\ ins[2] = r
  OBVIOUS
<1>3. /\ DOMAIN m1 = {1, 2, 3} /\ Len(m1) = 3 /\ m1[1] = 1 /\ m1[2] = 2 /\ m1[3] = 4
      /\ DOMAIN m2 = {1, 2, 3} /\ Len(m2) = 3 /\ m2[1] = 1 /\ m2[2] = 4 /\ m2[3] = 3
      /\ DOMAIN m3 = {1, 2, 3} /\ Len(m3) = 3 /\ m3[1] = 1 /\ m3[2] = 2 /\ m3[3] = 3
  OBVIOUS
<1>31. m1 \in Seq(0 .. 4) /\ m2 \in Seq(0 .. 4) /\ m3 \in Seq(0 .. 4)
  OBVIOUS
<1> HIDE DEF m1, m2, m3
<1>2. /\ maps \in Seq(Seq(0 .. 4)) /\ Len(maps) = 2 + 1
      /\ maps[1] = m1 /\ maps[2] = m2 /\ maps[2 + 1] = m3
  <2>1. maps = <<m1, m2, m3>>
    BY DEF BatchMaps, m1, m2, m3
  <2> HIDE DEF maps
  <2> QED
    BY <1>31, <2>1
<1>5. MapShape(ins, type, 2, 1) = l.shape /\ MapShape(ins, type, 2, 2) = r.shape
      /\ MapShape(ins, type, 2, 2 + 1) = type.shape
  BY <1>1 DEF MapShape
<1>6. /\ 1 \in 1 .. 2 + 1 /\ 2 \in 1 .. 2 + 1 /\ 2 + 1 \in 1 .. 2 + 1
      /\ (\A i \in 1 .. 2 + 1 : i = 1 \/ i = 2 \/ i = 2 + 1) /\ \A i \in 1 .. 2 : i = 1 \/ i = 2
  OBVIOUS
<1>61. \A d \in 1 .. 4 : d = 1 \/ d = 2 \/ d = 3 \/ d = 4
  OBVIOUS
<1> HIDE DEF maps
<1>7. Mapped(ins, type, 2, maps, 4)
  <2>1. \A d \in 1 .. 4 : \E i \in 1 .. 2 + 1 : \E k \in DOMAIN maps[i] : maps[i][k] = d
    <3>1. \A k \in {1, 2, 3} : k \in DOMAIN maps[1] /\ k \in DOMAIN maps[2] /\ k \in DOMAIN maps[2 + 1]
      BY <1>2, <1>3
    <3>2. \E i \in 1 .. 2 + 1 : \E k \in DOMAIN maps[i] : maps[i][k] = 1
      BY <1>2, <1>3, <1>6
    <3>3. \E i \in 1 .. 2 + 1 : \E k \in DOMAIN maps[i] : maps[i][k] = 2
      BY <1>2, <1>3, <1>6
    <3>4. \E i \in 1 .. 2 + 1 : \E k \in DOMAIN maps[i] : maps[i][k] = 3
      BY <1>2, <1>3, <1>6
    <3>5. \E i \in 1 .. 2 + 1 : \E k \in DOMAIN maps[i] : maps[i][k] = 4
      BY <1>2, <1>3, <1>6
    <3> QED
      BY <1>61, <3>2, <3>3, <3>4, <3>5
  <2>2. l.shape \in Seq(Nat) /\ r.shape \in Seq(Nat) /\ type.shape \in Seq(Nat)
    BY DEF NotBatched
  <2>3. \A i \in 1 .. 2 : ins[i].shape \in Seq(Nat)
    BY <1>1, <1>6, <2>2
  <2> QED
    BY <1>1, <1>2, <2>1, <2>2, <2>3 DEF Mapped
<1>8. DOMAIN iters = 1 .. 4
  <2>1. 3 + 1 = 4 /\ 3 \in Nat
    OBVIOUS
  <2> QED
    BY <2>1, ParallelThen
<1>9. ~Agree(ins, type, 2, maps, 4)
  <2>1. Len(maps[1]) # Len(MapShape(ins, type, 2, 1))
    BY <1>2, <1>3, <1>5 DEF NotBatched
  <2> QED
    BY <1>6, <2>1 DEF Agree
<1>10. Generic(ins, type, maps, iters, init, body) = << >>
  BY <1>7, <1>8, <1>9, GenericIs
<1> QED
  BY <1>10 DEF maps, NoKernel

\* A product compiles if it has at most one batch dimension.
LEMMA MatmulOutcome ==
  ASSUME NEW e, Generated(e), e.name = "matmul"
  PROVE  Outcome(e, Made(e))
<1> DEFINE o == Made(e)
           l == e.args[1].value
           r == e.args[2].value
           n == Len(l.shape)
           s == Append(Front(l.shape), r.shape[n])
           ok == /\ n >= 2 /\ Len(r.shape) = n
                 /\ \A i \in 1 .. n - 2 : l.shape[i] = r.shape[i]
                 /\ l.shape[n] = r.shape[n - 1]
           sizes == /\ IsTensor(e.args[1].type) /\ IsTensor(e.args[2].type) /\ Len(e.args) = 2
<1>1. Found(e) = matmul_infer(e.args) /\ ~Found(e).reported
  BY ResolveIs DEF Found, Generated
<1>2. Len(e.args) = 2
  BY <1>1 DEF matmul_infer, Inferred, Failed, Answer
<1>3. /\ e.name # "elements" /\ Tensed(e.args[1]) /\ Tensed(e.args[2]) /\ Taken(e) = e.args
      /\ Values(e)[1] = l /\ Values(e)[2] = r /\ Len(Values(e)) = 2 /\ DOMAIN Values(e) = 1 .. 2
  <2>1. 1 \in 1 .. 2 /\ 2 \in 1 .. 2
    OBVIOUS
  <2> QED
    BY <1>2, <2>1, Arguments0, ValuesAre
<1>4. /\ l.shape \in Seq(Nat) /\ r.shape \in Seq(Nat) /\ n \in Nat
      /\ e.args[1].type.shape = l.shape /\ e.args[2].type.shape = r.shape /\ e.args[1].type.elem = l.elem
      /\ Len(l.shape) = n
  BY <1>3 DEF Tensed
<1>5. ok /\ Found(e).type = TensorOf(l.elem, s)
  <2>1. IsTensor(e.args[1].type) /\ IsTensor(e.args[2].type)
    BY <1>3 DEF Tensed, IsTensor
  <2>2. matmul_infer(e.args) = Inferred(ok, l.elem, s)
    BY <1>2, <1>4, <2>1 DEF matmul_infer
  <2> HIDE DEF ok, s
  <2> QED
    BY <1>1, <2>2 DEF Inferred, Failed, Answer
<1> HIDE DEF n
<1> DEFINE s2 == SubSeq(l.shape, 1, n - 2) \o <<l.shape[n - 1], r.shape[Len(r.shape)]>>
<1>61. /\ DOMAIN l.shape = 1 .. n /\ DOMAIN r.shape = 1 .. n
       /\ \A d \in 1 .. n : l.shape[d] \in Nat /\ r.shape[d] \in Nat
  BY <1>4, <1>5, SeqFacts
<1>6. /\ s2 = s /\ s \in Seq(Nat) /\ Len(s) = n /\ s[n] = r.shape[n]
      /\ \A d \in 1 .. n - 1 : s[d] = l.shape[d]
  <2>0. n \in Nat /\ n >= 2 /\ Len(r.shape) = n /\ n \in 1 .. n /\ n - 1 \in 1 .. n /\ n - 1 \in Nat /\ n - 2 \in Nat
        /\ 1 .. n - 2 \subseteq 1 .. n
    BY <1>4, <1>5
  <2> DEFINE f == Front(l.shape)
             x == SubSeq(l.shape, 1, n - 2)
             y == <<l.shape[n - 1], r.shape[n]>>
  <2>1. f \in Seq(Nat) /\ Len(f) = n - 1 /\ \A d \in 1 .. n - 1 : f[d] = l.shape[d]
    <3>1. f = SubSeq(l.shape, 1, n - 1)
      BY <1>4 DEF Front
    <3>2. n - 1 \in 0 .. Len(l.shape)
      BY <1>4, <2>0
    <3> QED
      BY <1>4, <3>1, <3>2, PrefixFacts, SMTT(30)
  <2>2. x \in Seq(Nat) /\ Len(x) = n - 2 /\ \A d \in 1 .. n - 2 : x[d] = l.shape[d]
    <3>2. n - 2 \in 0 .. Len(l.shape)
      BY <1>4, <2>0
    <3> QED
      BY <1>4, <3>2, PrefixFacts
  <2>3. y \in Seq(Nat) /\ Len(y) = 2 /\ y[1] = l.shape[n - 1] /\ y[2] = r.shape[n]
    BY <1>61, <2>0
  <2>4. r.shape[n] \in Nat
    BY <1>61, <2>0
  <2>7. s2 = x \o y /\ s = Append(f, r.shape[n])
    BY <2>0
  <2> HIDE DEF f, x, y, s, s2
  <2>5. /\ s \in Seq(Nat) /\ Len(s) = n /\ s[n] = r.shape[n]
        /\ \A d \in 1 .. n - 1 : s[d] = l.shape[d]
    BY <2>0, <2>1, <2>4, <2>7
  <2>6. s = x \o y
    <3>1. \A k \in 1 .. Len(x) : s[k] = x[k]
      BY <2>0, <2>2, <2>5
    <3>2. \A k \in 1 .. Len(y) : s[Len(x) + k] = y[k]
      <4>1. n - 2 + 1 = n - 1 /\ n - 2 + 2 = n /\ n - 1 \in 1 .. n - 1
        BY <2>0
      <4>2. \A k \in 1 .. 2 : k = 1 \/ k = 2
        OBVIOUS
      <4> QED
        BY <2>2, <2>3, <2>5, <4>1, <4>2
    <3>3. Len(s) = Len(x) + Len(y)
      BY <2>0, <2>2, <2>3, <2>5
    <3> QED
      BY <2>2, <2>3, <2>5, <3>1, <3>2, <3>3, Concatenation
  <2> QED
    BY <2>5, <2>6, <2>7
<1>7. /\ o.kind = "matmul" /\ o.args = Values(e) /\ o.type = TensorOf(l.elem, s)
      /\ o.type.shape = s /\ o.type.elem = l.elem /\ o.args[1] = l /\ o.args[2] = r
  <2>1. o = Op("matmul", Values(e), << >>, matmul_build(l, r))
    BY <1>3, MadeIs DEF Generates
  <2>2. matmul_build(l, r) = TensorOf(l.elem, s2)
    BY DEF matmul_build, n
  <2>3. matmul_build(l, r) = TensorOf(l.elem, s)
    BY <1>6, <2>2
  <2> HIDE DEF s, s2
  <2> QED
    BY <1>3, <2>1, <2>3 DEF Op, TensorOf, Type
<1> HIDE DEF o, s, s2
<1>8. o.args = <<l, r>>
  <2>1. Values(e) = [i \in 1 .. 2 |-> Values(e)[i]]
    BY <1>3 DEF Values
  <2> QED
    BY <1>3, <1>7, <2>1
<1>9. ~Undefined(o, e.name, Taken(e))
  <2>1. Consumed(e.name, Taken(e)) = << >>
    BY DEF Consumed
  <2> QED
    BY <1>6, <1>7, <2>1, DefinedShape
<1>10. Verified(o)
  <2>1. SubSeq(l.shape, 1, n - 2) = SubSeq(r.shape, 1, n - 2)
    <3>1. n - 2 \in Nat /\ n - 2 <= n /\ Len(r.shape) = n
      BY <1>4, <1>5
    <3>2. \A i \in 1 .. n - 2 : l.shape[i] = r.shape[i]
      BY <1>5
    <3> DEFINE x == SubSeq(l.shape, 1, n - 2)
               y == SubSeq(r.shape, 1, n - 2)
    <3>3. n - 2 \in 0 .. Len(l.shape) /\ n - 2 \in 0 .. Len(r.shape)
      BY <1>4, <3>1
    <3>4. /\ x \in Seq(Nat) /\ Len(x) = n - 2 /\ y \in Seq(Nat) /\ Len(y) = n - 2
          /\ \A d \in 1 .. n - 2 : x[d] = l.shape[d] /\ y[d] = r.shape[d]
      <4>1. l.shape \in Seq(Nat) /\ r.shape \in Seq(Nat)
        BY <1>4
      <4>2. x \in Seq(Nat) /\ Len(x) = n - 2 /\ \A d \in 1 .. n - 2 : x[d] = l.shape[d]
        BY <3>3, <4>1, PrefixFacts
      <4>3. y \in Seq(Nat) /\ Len(y) = n - 2 /\ \A d \in 1 .. n - 2 : y[d] = r.shape[d]
        BY <3>3, <4>1, PrefixFacts
      <4> QED
        BY <4>2, <4>3
    <3> HIDE DEF x, y
    <3>5. x = [d \in 1 .. n - 2 |-> x[d]] /\ y = [d \in 1 .. n - 2 |-> y[d]]
      BY <3>4
    <3>6. x = y
      BY <3>2, <3>4, <3>5
    <3> QED
      BY <3>6 DEF x, y
  <2>2. matmul_verify(l, r)
    BY <1>4, <1>5, <2>1 DEF matmul_verify
  <2> QED
    BY <1>7, <2>2, VerifiedIs
<1>11. Gap(e) <=> n > 3
  BY <1>4, GapIs
<1>12. Lower(o) = Generic(o.args, o.type, IF n = 2 THEN PlainMaps ELSE BatchMaps,
                          Append(Parallel(IF n = 2 THEN 2 ELSE 3), "reduction"), 0, "matmul")
  <2>1. Lower(o) = lowering_matmul(o)
    BY <1>7, LowerIs
  <2>2. Len(o.type.shape) = n
    BY <1>6, <1>7
  <2> QED
    BY <2>1, <2>2 DEF lowering_matmul, PlainMaps, BatchMaps
<1>13. CASE n = 2
  <2>1. s[1] = l.shape[1] /\ s[2] = r.shape[2] /\ l.shape[2] = r.shape[1] /\ Len(s) = 2 /\ Len(r.shape) = 2
    BY <1>5, <1>6, <1>13
  <2>2. Sound(Lower(o), o.type)
    <3>1. PlainFit(l, r, o.type)
      BY <1>4, <1>6, <1>7, <1>13, <2>1 DEF PlainFit
    <3>2. Lower(o) = Generic(o.args, o.type, PlainMaps, Append(Parallel(2), "reduction"), 0, "matmul")
      BY <1>12, <1>13
    <3> QED
      BY <1>8, <3>1, <3>2, PlainGood
  <2> QED
    BY <1>13, <2>2, SoundLowered, <1>5, <1>7, <1>9, <1>10, <1>11 DEF Outcome, o
<1>14. CASE n = 3
  <2>1. /\ s[1] = l.shape[1] /\ s[2] = l.shape[2] /\ s[3] = r.shape[3] /\ l.shape[3] = r.shape[2]
        /\ l.shape[1] = r.shape[1] /\ Len(s) = 3 /\ Len(r.shape) = 3
    BY <1>5, <1>6, <1>14
  <2>2. Sound(Lower(o), o.type)
    <3>1. BatchFit(l, r, o.type)
      BY <1>4, <1>6, <1>7, <1>14, <2>1 DEF BatchFit
    <3>2. Lower(o) = Generic(o.args, o.type, BatchMaps, Append(Parallel(3), "reduction"), 0, "matmul")
      BY <1>12, <1>14
    <3> QED
      BY <1>8, <3>1, <3>2, BatchGood
  <2> QED
    BY <1>14, <2>2, SoundLowered, <1>5, <1>7, <1>9, <1>10, <1>11 DEF Outcome, o
<1>15. CASE n > 3
  <2>1. Lower(o) = << >>
    <3>1. n # 2 /\ Len(l.shape) # 3
      BY <1>4, <1>15
    <3>2. NotBatched(l, r, o.type)
      BY <1>4, <1>6, <1>7, <3>1 DEF NotBatched
    <3>3. Lower(o) = Generic(o.args, o.type, BatchMaps, Append(Parallel(3), "reduction"), 0, "matmul")
      BY <1>12, <3>1
    <3>4. NoKernel(Generic(o.args, o.type, BatchMaps, Append(Parallel(3), "reduction"), 0, "matmul"))
      BY <1>8, <3>2, TooManyBatches
    <3> QED
      BY <3>3, <3>4 DEF NoKernel
  <2> QED
    BY <1>15, <2>1, <1>5, <1>7, <1>9, <1>10, <1>11 DEF Outcome, o
<1> QED
  BY <1>4, <1>5, <1>13, <1>14, <1>15

-----------------------------------------------------------------------------
(* Sequences that are joined and cut. *)

\* The elements from the m-th on.
LEMMA SuffixFacts ==
  ASSUME NEW S, NEW x \in Seq(S), NEW m \in 1 .. Len(x) + 1
  PROVE  /\ SubSeq(x, m, Len(x)) \in Seq(S) /\ Len(SubSeq(x, m, Len(x))) = Len(x) - m + 1
         /\ \A d \in 1 .. Len(x) - m + 1 : SubSeq(x, m, Len(x))[d] = x[m + d - 1]
  OBVIOUS

\* z is x and then y.
Joined(S, x, y, z) ==
  /\ z \in Seq(S) /\ Len(z) = Len(x) + Len(y)
  /\ \A d \in 1 .. Len(x) : z[d] = x[d]
  /\ \A d \in 1 .. Len(y) : z[Len(x) + d] = y[d]
LEMMA ConcatFacts ==
  ASSUME NEW S, NEW x \in Seq(S), NEW y \in Seq(S)
  PROVE  Joined(S, x, y, x \o y)
  BY DEF Joined

\* Equal element by element.
LEMMA SeqEqual ==
  ASSUME NEW S, NEW x \in Seq(S), NEW y \in Seq(S), Len(x) = Len(y), \A i \in 1 .. Len(x) : x[i] = y[i]
  PROVE  x = y
<1>1. x = [i \in 1 .. Len(x) |-> x[i]] /\ y = [i \in 1 .. Len(y) |-> y[i]]
  OBVIOUS
<1> QED
  BY <1>1

-----------------------------------------------------------------------------
(* slice *)

\* Without its first element.
LEMMA HeadRemoved ==
  ASSUME NEW S, NEW x \in Seq(S), x # << >>
  PROVE  RemoveAt(x, 1) = Tail(x) /\ Tail(x) \in Seq(S) /\ Len(Tail(x)) = Len(x) - 1 /\ Len(x) \in Nat \ {0}
         /\ \A i \in 1 .. Len(x) - 1 : Tail(x)[i] = x[i + 1]
<1>1. Tail(x) \in Seq(S) /\ Len(Tail(x)) = Len(x) - 1 /\ Len(x) \in Nat \ {0}
         /\ \A i \in 1 .. Len(x) - 1 : Tail(x)[i] = x[i + 1]
  OBVIOUS
<1> DEFINE a == SubSeq(x, 1, 0)
           b == SubSeq(x, 2, Len(x))
<1>2. a \in Seq(S) /\ Len(a) = 0
  BY PrefixFacts, <1>1
<1>3. b \in Seq(S) /\ Len(b) = Len(x) - 1 /\ \A d \in 1 .. Len(x) - 1 : b[d] = x[d + 1]
  <2>1. 2 \in 1 .. Len(x) + 1 /\ Len(x) - 2 + 1 = Len(x) - 1 /\ \A d \in 1 .. Len(x) - 1 : 2 + d - 1 = d + 1
    BY <1>1
  <2> QED
    BY <2>1, SuffixFacts
<1>4. RemoveAt(x, 1) = a \o b
  BY DEF RemoveAt
<1> HIDE DEF a, b
<1>5. Joined(S, a, b, a \o b)
  BY <1>2, <1>3, ConcatFacts
<1> DEFINE c == a \o b
           t == Tail(x)
<1>6. c \in Seq(S) /\ Len(c) = Len(x) - 1 /\ \A d \in 1 .. Len(x) - 1 : c[d] = b[d]
  BY <1>1, <1>2, <1>3, <1>5 DEF Joined
<1> HIDE DEF c, t
<1>7. c = t
  <2>1. t \in Seq(S) /\ Len(t) = Len(c) /\ \A i \in 1 .. Len(c) : t[i] = c[i]
    BY <1>1, <1>3, <1>6 DEF t
  <2> QED
    BY <1>6, <2>1, SeqEqual
<1> QED
  BY <1>1, <1>4, <1>7 DEF c, t

\* An index compiles; it reads inside of the tensor if it is in its first dimension.
LEMMA SliceOutcome ==
  ASSUME NEW e, Generated(e), e.name = "slice"
  PROVE  Outcome(e, Made(e))
<1> DEFINE o == Made(e)
           t == e.args[1].value
           ind == e.args[2].value
           s == Tail(t.shape)
<1>1. Found(e) = resolve_index_access(e.args[1].type, e.args[2].type) /\ ~Found(e).reported
  BY ResolveIs DEF Found, Generated
<1>2. Len(e.args) = 2
  BY ExprsAssumption DEF Generated
<1>3. /\ e.name # "elements" /\ Tensed(e.args[1]) /\ Tensed(e.args[2]) /\ Taken(e) = e.args
      /\ Values(e)[1] = t /\ Values(e)[2] = ind /\ Len(Values(e)) = 2 /\ DOMAIN Values(e) = 1 .. 2
  <2>1. 1 \in 1 .. 2 /\ 2 \in 1 .. 2
    OBVIOUS
  <2> QED
    BY <1>2, <2>1, Arguments0, ValuesAre
<1>4. /\ t.shape \in Seq(Nat) /\ ind.shape \in Seq(Nat) /\ DOMAIN ind.at = Points(ind.shape)
      /\ e.args[1].type.shape = t.shape /\ e.args[1].type.elem = t.elem
      /\ e.args[2].type = TensorOf(ind.elem, ind.shape)
  BY <1>3 DEF Tensed
<1>5. /\ e.args[2].type \in Ints /\ t.shape # << >> /\ Found(e).type = TensorOf(t.elem, s)
  <2>1. IsTensor(e.args[1].type)
    BY <1>3 DEF Tensed, IsTensor
  <2> DEFINE ok == e.args[2].type \in Ints /\ t.shape # << >>
  <2>2. Found(e) = Inferred(ok, t.elem, s)
    BY <1>1, <1>4, <2>1 DEF resolve_index_access
  <2> HIDE DEF ok, s
  <2>3. ok /\ Found(e).type = TensorOf(t.elem, s)
    BY <1>1, <2>2 DEF Inferred, Failed, Answer
  <2> QED
    BY <2>3 DEF ok
<1>6. ind.shape = << >> /\ IsInteger(ind.elem)
  BY <1>4, <1>5 DEF Ints, Scalar, TensorOf, Type, IsInteger
<1>7. RemoveAt(t.shape, 1) = s /\ s \in Seq(Nat) /\ Len(s) = Len(t.shape) - 1 /\ Len(t.shape) \in Nat \ {0}
      /\ \A i \in 1 .. Len(t.shape) - 1 : s[i] = t.shape[i + 1]
  BY <1>4, <1>5, HeadRemoved
<1>8. slice_build(t, 0) = TensorOf(t.elem, s)
  <2>1. 0 + 1 = 1
    OBVIOUS
  <2> HIDE DEF s
  <2> QED
    BY <1>7, <2>1 DEF slice_build
<1> HIDE DEF s
<1>9. /\ o.kind = "slice" /\ o.args = Values(e) /\ o.attr = <<0>> /\ o.type = TensorOf(t.elem, s)
      /\ o.type.shape = s /\ o.type.elem = t.elem /\ o.args[1] = t /\ o.args[2] = ind
  <2>1. o = Op("slice", Values(e), <<0>>, slice_build(t, 0))
    BY <1>3, MadeIs DEF Generates
  <2> QED
    BY <1>3, <1>8, <2>1 DEF Op, TensorOf, Type
<1> HIDE DEF o
<1>10. ~Undefined(o, e.name, Taken(e))
  <2>1. Consumed(e.name, Taken(e)) = << >>
    BY DEF Consumed
  <2> QED
    BY <1>7, <1>9, <2>1, DefinedShape
<1>11. Verified(o)
  <2>1. o.attr[1] = 0 /\ 0 \in 0 .. Len(t.shape) - 1 /\ 0 + 1 = 1
    BY <1>7, <1>9
  <2>2. slice_verify(t, ind, 0, o.type)
    BY <1>6, <1>7, <1>9, <2>1 DEF slice_verify
  <2> QED
    BY <1>9, <2>1, <2>2, VerifiedIs
<1>12. Lowered(e, o)
  <2> DEFINE points == Points(s)
             at == ind.at[<< >>]
             k == Kernel(s, Parallel(Len(s)), o.args, [p \in points |-> <<<<1, <<at>> \o p>>>>],
                         [p \in points |-> p], o.type, Garbage, "copy")
  <2>2. Lower(o) = <<k>>
    <3>1. Lower(o) = lowering_slice(o)
      BY <1>9, LowerIs
    <3> QED
      BY <1>9, <3>1 DEF lowering_slice, Copy
  <2> HIDE DEF at
  <2>3. k.dom = s /\ k.type = o.type /\ k.ins = o.args /\ k.writes = [p \in points |-> p]
        /\ k.reads = [p \in points |-> <<<<1, <<at>> \o p>>>>]
    BY DEF Kernel
  <2> HIDE DEF k
  <2>4. Disjoint(k)
    BY <2>3 DEF Disjoint
  <2>5. BoundsOf(e, o, <<k>>)
    <3>1. ASSUME NEW p \in Points(k.dom) PROVE k.writes[p] \in Points(k.type.shape)
      BY <1>9, <2>3
    <3>2. ASSUME NEW p \in Points(k.dom), NEW r \in ToSet(k.reads[p]), at \in 0 .. t.shape[1] - 1
          PROVE  r[2] \in Points(k.ins[r[1]].shape)
      <4> DEFINE q == <<at>> \o p
                 n == Len(t.shape)
      <4>1. k.reads[p] = <<<<1, q>>>>
        BY <2>3
      <4>2. r = <<1, q>>
        BY <4>1 DEF ToSet
      <4>3. p \in [1 .. Len(s) -> Nat] /\ \A d \in 1 .. Len(s) : p[d] < s[d]
        BY <1>7, <2>3, NatInt, PointsOf
      <4>9. n \in Nat \ {0} /\ Len(s) = n - 1 /\ \A i \in 1 .. n - 1 : s[i] = t.shape[i + 1]
        BY <1>7
      <4> HIDE DEF n
      <4>4. p \in Seq(Nat) /\ Len(p) = n - 1 /\ <<at>> \in Seq(Nat) /\ Len(<<at>>) = 1 /\ <<at>>[1] = at
        <5>1. t.shape[1] \in Nat
          <6>1. 1 \in 1 .. Len(t.shape)
            BY <1>7
          <6> QED
            BY <1>4, <6>1, SeqFacts
        <5>2. at \in Nat
          BY <3>2, <5>1
        <5>3. n - 1 \in Nat
          BY <4>9
        <5>4. p \in [1 .. n - 1 -> Nat]
          BY <4>3, <4>9
        <5> QED
          BY <5>2, <5>3, <5>4
      <4>5. /\ q \in Seq(Nat) /\ Len(q) = n
            /\ q[1] = at /\ \A d \in 1 .. n - 1 : q[1 + d] = p[d]
        <5> DEFINE x == <<at>>
        <5>1. x \in Seq(Nat) /\ Len(x) = 1 /\ x[1] = at /\ 1 \in 1 .. 1
          BY <4>4
        <5>2. q = x \o p
          OBVIOUS
        <5> HIDE DEF x, q
        <5>3. Joined(Nat, x, p, x \o p)
          BY <4>4, <5>1, ConcatFacts
        <5>4. Len(x) + Len(p) = n
          BY <4>4, <4>9, <5>1
        <5> QED
          BY <4>4, <5>1, <5>2, <5>3, <5>4 DEF Joined
      <4> HIDE DEF q
      <4>6. q \in [1 .. n -> Nat]
        BY <4>5
      <4>7. ASSUME NEW d \in 1 .. n PROVE q[d] < t.shape[d]
        <5>1. CASE d = 1
          BY <3>2, <4>5, <5>1, <1>4, SeqFacts, <4>9 DEF n
        <5>2. CASE d # 1
          <6>1. d - 1 \in 1 .. n - 1 /\ 1 + (d - 1) = d /\ (d - 1) + 1 = d
            BY <4>9, <5>2
          <6>2. q[d] = p[d - 1] /\ s[d - 1] = t.shape[d]
            BY <4>5, <4>9, <6>1
          <6>3. p[d - 1] < s[d - 1]
            BY <4>3, <4>9, <6>1
          <6> QED
            BY <6>2, <6>3
        <5> QED
          BY <5>1, <5>2
      <4>8. q \in Points(t.shape)
        BY <1>4, <4>6, <4>7, NatInt, PointsOf DEF n
      <4> QED
        BY <1>9, <2>3, <4>2, <4>8
    <3>3. e.args[2].value.at[<< >>] = at /\ e.args[1].type.shape[1] = t.shape[1]
      BY <1>4 DEF at
    <3>4. ASSUME NEW p \in Points(k.dom), NEW r \in ToSet(k.reads[p])
          PROVE  \/ r[2] \in Points(k.ins[r[1]].shape)
                 \/ o.kind = "slice" /\ e.args[2].value.at[<< >>] \notin 0 .. e.args[1].type.shape[1] - 1
      BY <1>9, <3>2, <3>3
    <3> QED
      BY <3>1, <3>4 DEF BoundsOf
  <2>6. k.dom \in Seq(Nat)
    BY <1>7, <2>3
  <2> QED
    BY <2>2, <2>3, <2>4, <2>5, <2>6 DEF Lowered
<1>13. ~Gap(e)
  BY GapIs
<1> QED
  BY <1>5, <1>9, <1>10, <1>11, <1>12, <1>13 DEF Outcome, o

-----------------------------------------------------------------------------
(* gather *)

\* The shape of what is gathered.
GatherShape(t, ind, axis) ==
  SubSeq(t, 1, axis) \o ind \o SubSeq(t, axis + 2, Len(t))

\* The dimensions of a gather: those before the axis, those of the indices, those after it.
GatherDims(t, ind, axis, s) ==
  /\ s \in Seq(Nat) /\ Len(s) = Len(t) + Len(ind) - 1
  /\ \A i \in 1 .. axis : s[i] = t[i]
  /\ \A i \in 1 .. Len(ind) : s[axis + i] = ind[i]
  /\ \A i \in axis + 2 .. Len(t) : s[i + Len(ind) - 1] = t[i]

\* The shape that sema and the build method compute is that one.
LEMMA GatherShapeFacts ==
  ASSUME NEW t \in Seq(Nat), NEW ind \in Seq(Nat), NEW axis \in 0 .. Len(t) - 1
  PROVE  GatherDims(t, ind, axis, GatherShape(t, ind, axis))
<1> DEFINE n == Len(t)
           m == Len(ind)
           x == SubSeq(t, 1, axis)
           z == SubSeq(t, axis + 2, n)
           y == x \o ind
           s == y \o z
<1>1. n \in Nat /\ m \in Nat /\ axis \in 0 .. n - 1 /\ axis \in 0 .. n /\ axis + 2 \in 1 .. n + 1
  OBVIOUS
<1>2. x \in Seq(Nat) /\ Len(x) = axis /\ \A i \in 1 .. axis : x[i] = t[i]
  BY <1>1, PrefixFacts
<1>3. /\ z \in Seq(Nat) /\ Len(z) = n - (axis + 2) + 1
      /\ \A d \in 1 .. n - (axis + 2) + 1 : z[d] = t[axis + 2 + d - 1]
  BY <1>1, SuffixFacts
<1> HIDE DEF x, z
<1>4. Joined(Nat, x, ind, y)
  BY <1>2, ConcatFacts
<1>41. y \in Seq(Nat)
  BY <1>4 DEF Joined
<1> HIDE DEF y
<1>5. Joined(Nat, y, z, s)
  BY <1>3, <1>41, ConcatFacts
<1>6. GatherShape(t, ind, axis) = s
  BY DEF GatherShape, s, y, x, z
<1> HIDE DEF s
<1>61. m = Len(ind) /\ n = Len(t)
  OBVIOUS
<1> HIDE DEF n, m
<1>7. Len(y) = axis + m /\ Len(s) = n + m - 1 /\ s \in Seq(Nat) /\ Len(z) = n - axis - 1
  <2>1. Len(y) = axis + m
    BY <1>2, <1>4, <1>61 DEF Joined
  <2>2. Len(s) = Len(y) + Len(z) /\ s \in Seq(Nat)
    BY <1>5 DEF Joined
  <2> QED
    BY <1>1, <1>3, <2>1, <2>2
<1>8. ASSUME NEW i \in 1 .. axis PROVE s[i] = t[i]
  <2>1. i \in 1 .. Len(y) /\ i \in 1 .. Len(x)
    BY <1>1, <1>2, <1>7
  <2>2. s[i] = y[i] /\ y[i] = x[i]
    BY <2>1, <1>4, <1>5 DEF Joined
  <2> QED
    BY <1>2, <2>2
<1>9. ASSUME NEW i \in 1 .. m PROVE s[axis + i] = ind[i]
  <2>1. axis + i \in 1 .. Len(y)
    BY <1>1, <1>7
  <2>2. s[axis + i] = y[axis + i] /\ y[Len(x) + i] = ind[i]
    BY <2>1, <1>4, <1>5, <1>61 DEF Joined
  <2> QED
    BY <1>2, <2>2
<1>10. ASSUME NEW i \in axis + 2 .. n PROVE s[i + m - 1] = t[i]
  <2> DEFINE d == i - axis - 1
  <2>1. d \in 1 .. n - (axis + 2) + 1 /\ Len(y) + d = i + m - 1 /\ axis + 2 + d - 1 = i /\ d \in 1 .. Len(z)
    BY <1>1, <1>7
  <2> HIDE DEF d
  <2>2. s[Len(y) + d] = z[d] /\ z[d] = t[axis + 2 + d - 1]
    BY <2>1, <1>3, <1>5 DEF Joined
  <2> QED
    BY <2>1, <2>2
<1> QED
  BY <1>6, <1>61, <1>7, <1>8, <1>9, <1>10 DEF GatherDims

\* A gather compiles if the indices are a list; it reads inside of the tensor if they all are.
LEMMA GatherOutcome ==
  ASSUME NEW e, Generated(e), e.name = "gather"
  PROVE  Outcome(e, Made(e))
<1> DEFINE o == Made(e)
           t == e.args[1].value
           ind == e.args[2].value
           axis == e.args[3].lits[1]
           n == Len(t.shape)
           m == Len(ind.shape)
           s == GatherShape(t.shape, ind.shape, axis)
<1>1. Found(e) = gather_infer(e.args) /\ ~Found(e).reported
  BY ResolveIs DEF Found, Generated
<1>2. Len(e.args) = 3
  BY <1>1 DEF gather_infer, Inferred, Failed, Answer
<1>3. /\ e.name # "elements" /\ Tensed(e.args[1]) /\ Tensed(e.args[2]) /\ Taken(e) = e.args
      /\ Values(e)[1] = t /\ Values(e)[2] = ind /\ e.args[3].lits \in Seq(Int)
  <2>1. 1 \in 1 .. 3 /\ 2 \in 1 .. 3 /\ 3 \in 1 .. 3
    OBVIOUS
  <2> QED
    BY <1>2, <2>1, Arguments0, ValuesAre
<1>4. /\ t.shape \in Seq(Nat) /\ ind.shape \in Seq(Nat) /\ DOMAIN ind.at = Points(ind.shape)
      /\ e.args[1].type.shape = t.shape /\ e.args[1].type.elem = t.elem
      /\ e.args[2].type.shape = ind.shape /\ e.args[2].type.elem = ind.elem
  BY <1>3 DEF Tensed
<1>5. /\ IsInteger(ind.elem) /\ axis \in 0 .. n - 1 /\ Found(e).type = TensorOf(t.elem, s)
  <2>1. IsTensor(e.args[1].type) /\ IsTensor(e.args[2].type)
    BY <1>3 DEF Tensed, IsTensor
  <2> DEFINE ok == IsInteger(ind.elem) /\ e.args[3].node = "int_literal" /\ axis \in 0 .. n - 1
  <2>2. Found(e) = Inferred(ok, t.elem, s)
    BY <1>1, <1>2, <1>4, <2>1 DEF gather_infer, GatherShape
  <2> HIDE DEF ok, s
  <2>3. ok /\ Found(e).type = TensorOf(t.elem, s)
    BY <1>1, <2>2 DEF Inferred, Failed, Answer
  <2> QED
    BY <2>3 DEF ok
<1>6. gather_build(t, ind, axis) = TensorOf(t.elem, s)
  BY DEF gather_build, GatherShape
<1>7. GatherDims(t.shape, ind.shape, axis, s)
  BY <1>4, <1>5, GatherShapeFacts
<1> HIDE DEF s
<1>8. /\ o.kind = "gather" /\ o.args = <<t, ind>> /\ o.attr = e.args[3].lits /\ o.type = TensorOf(t.elem, s)
      /\ o.type.shape = s /\ o.type.elem = t.elem /\ o.args[1] = t /\ o.args[2] = ind
  <2>1. o = Op("gather", <<t, ind>>, e.args[3].lits, gather_build(t, ind, axis))
    BY <1>3, MadeIs DEF Generates
  <2> QED
    BY <1>6, <2>1 DEF Op, TensorOf, Type
<1>81. o.attr[1] = axis
  BY <1>8
<1> HIDE DEF o
<1>9. s \in Seq(Nat) /\ \A d \in DOMAIN s : ~(s[d] < 0)
  <2>1. s \in Seq(Nat)
    BY <1>7 DEF GatherDims
  <2>2. \A d \in DOMAIN s : s[d] \in Nat
    BY <2>1, SeqFacts
  <2> QED
    BY <2>1, <2>2
<1>10. ~Undefined(o, e.name, Taken(e))
  <2>1. Consumed(e.name, Taken(e)) = <<e.args[3]>>
    BY <1>3 DEF Consumed
  <2>2. ErasedSafely(LiteralOps(e.args[3]))
    BY <1>3, LiteralsErase
  <2>3. DOMAIN <<e.args[3]>> = {1} /\ <<e.args[3]>>[1] = e.args[3]
    OBVIOUS
  <2> QED
    BY <1>8, <1>9, <2>1, <2>2, <2>3 DEF Undefined
<1>11. Verified(o)
  <2>1. gather_verify(t, ind, axis, o.type)
    BY <1>5, <1>7, <1>8 DEF gather_verify, GatherDims
  <2> QED
    BY <1>8, <1>81, <2>1, VerifiedIs
<1>12. Gap(e) <=> m # 1
  BY <1>4, GapIs
<1>13. Lower(o) = lowering_gather(o)
  BY <1>8, LowerIs
<1>14. CASE m # 1
  <2>1. Lower(o) = << >>
    BY <1>8, <1>13, <1>14 DEF lowering_gather
  <2> QED
    BY <1>5, <1>8, <1>10, <1>11, <1>12, <1>14, <2>1 DEF Outcome, o
<1>15. CASE m = 1
  <2> DEFINE points == Points(s)
             reads(p) == <<<<1, [p EXCEPT ![axis + 1] = Element(ind, <<p[axis + 1]>>)]>>,
                           <<2, <<p[axis + 1]>>>>>>
             k == Kernel(s, Parallel(Len(s)), <<t, ind>>, [p \in points |-> reads(p)],
                         [p \in points |-> p], o.type, Garbage, "copy")
  <2>2. Lower(o) = <<k>>
    BY <1>8, <1>81, <1>13, <1>15 DEF lowering_gather, GatherKernel
  <2>3. k.dom = s /\ k.type = o.type /\ k.ins = <<t, ind>> /\ k.writes = [p \in points |-> p]
        /\ k.reads = [p \in points |-> reads(p)]
    BY DEF Kernel
  <2> HIDE DEF k
  <2>4. Disjoint(k)
    BY <2>3 DEF Disjoint
  <2>5. ASSUME NEW p \in Points(k.dom) PROVE k.writes[p] \in Points(k.type.shape)
    BY <1>8, <2>3
  <2>6. ASSUME NEW p \in Points(k.dom), NEW r \in ToSet(k.reads[p])
        PROVE  \/ r[2] \in Points(k.ins[r[1]].shape)
               \/ \E q \in DOMAIN ind.at : ind.at[q] \notin 0 .. t.shape[axis + 1] - 1
    <3> DEFINE j == p[axis + 1]
               v == Element(ind, <<j>>)
               q == [p EXCEPT ![axis + 1] = v]
    <3>1. k.reads[p] = <<<<1, q>>, <<2, <<j>>>>>>
      BY <2>3
    <3>2. r = <<1, q>> \/ r = <<2, <<j>>>>
      <4> DEFINE a == <<1, q>>
                 b == <<2, <<j>>>>
      <4>1. k.reads[p] = <<a, b>>
        BY <3>1
      <4> HIDE DEF a, b
      <4>2. r \in ToSet(<<a, b>>)
        BY <4>1
      <4>3. r = a \/ r = b
        BY <4>2 DEF ToSet
      <4> QED
        BY <4>3 DEF a, b
    <3>3. p \in [1 .. Len(s) -> Nat] /\ \A d \in 1 .. Len(s) : p[d] < s[d]
      BY <1>9, <2>3, NatInt, PointsOf
    <3>31. n \in Nat /\ DOMAIN t.shape = 1 .. n /\ Len(t.shape) = n
      BY <1>4, SeqFacts
    <3> HIDE DEF n
    <3>4. /\ Len(s) = n /\ axis + 1 \in 1 .. n /\ s[axis + 1] = ind.shape[1]
          /\ \A i \in 1 .. axis : s[i] = t.shape[i]
          /\ \A i \in axis + 2 .. n : s[i] = t.shape[i]
      <4>1. m = 1 /\ Len(ind.shape) = 1
        BY <1>15
      <4>2. 1 \in 1 .. 1 /\ n + 1 - 1 = n /\ \A i \in axis + 2 .. n : i + 1 - 1 = i
        BY <3>31, <1>5
      <4>3. axis + 1 \in 1 .. n
        BY <3>31, <1>5
      <4> QED
        BY <1>7, <3>31, <4>1, <4>2, <4>3 DEF GatherDims
    <3>5. j \in Nat /\ j < ind.shape[1]
      BY <3>3, <3>4
    <3>6. <<j>> \in Points(ind.shape)
      <4> DEFINE w == <<j>>
      <4>1. w \in [1 .. 1 -> Nat] /\ w[1] = j
        BY <3>5
      <4> HIDE DEF w
      <4>2. \A d \in 1 .. 1 : d = 1
        OBVIOUS
      <4>3. w \in Points(ind.shape)
        BY <1>4, <1>15, <3>5, <4>1, <4>2, NatInt, PointsOf
      <4> QED
        BY <4>3 DEF w
    <3>7. v = ind.at[<<j>>]
      BY <1>4, <3>6 DEF Element
    <3> HIDE DEF v, j
    <3>8. CASE v \in 0 .. t.shape[axis + 1] - 1
      <4>0. axis + 1 \in 1 .. n /\ t.shape[axis + 1] \in Nat /\ axis \in Nat
        <5>1. \A d \in 1 .. n : t.shape[d] \in Nat
          BY <1>4, <3>31, SeqFacts
        <5>2. axis + 1 \in 1 .. n
          BY <3>4
        <5> QED
          BY <1>5, <5>1, <5>2
      <4>1. q = [d \in 1 .. n |-> IF d = axis + 1 THEN v ELSE p[d]]
        BY <3>3, <3>4
      <4> HIDE DEF q
      <4>2. ASSUME NEW d \in 1 .. n PROVE q[d] \in Nat /\ q[d] < t.shape[d]
        <5>1. CASE d = axis + 1
          BY <3>8, <4>0, <4>1, <5>1
        <5>2. CASE d # axis + 1
          <6>1. d \in 1 .. axis \/ d \in axis + 2 .. n
            BY <5>2, <4>0, <3>31
          <6>2. s[d] = t.shape[d] /\ q[d] = p[d]
            BY <3>4, <4>1, <5>2, <6>1
          <6> QED
            BY <3>3, <3>4, <6>2
        <5> QED
          BY <5>1, <5>2
      <4>3. q \in [1 .. n -> Nat]
        BY <4>1, <4>2
      <4>4. q \in Points(t.shape)
        BY <1>4, <3>31, <4>2, <4>3, NatInt, PointsOf
      <4> QED
        <5>0. k.ins[1] = t /\ k.ins[2] = ind
          BY <2>3
        <5>1. CASE r = <<1, q>>
          <6>1. r[1] = 1 /\ r[2] = q
            BY <5>1
          <6> QED
            BY <4>4, <5>0, <6>1
        <5>2. CASE r = <<2, <<j>>>>
          <6>1. r[1] = 2 /\ r[2] = <<j>>
            BY <5>2
          <6> QED
            BY <3>6, <5>0, <6>1
        <5> QED
          BY <3>2, <5>1, <5>2
    <3>9. CASE v \notin 0 .. t.shape[axis + 1] - 1
      BY <1>4, <3>6, <3>7, <3>9
    <3> QED
      BY <3>8, <3>9
  <2>7. BoundsOf(e, o, <<k>>)
    <3>1. ASSUME NEW p \in Points(k.dom), NEW r \in ToSet(k.reads[p])
          PROVE  \/ r[2] \in Points(k.ins[r[1]].shape)
                 \/ o.kind = "gather" /\ \E q \in DOMAIN e.args[2].value.at :
                      e.args[2].value.at[q] \notin 0 .. e.args[1].type.shape[o.attr[1] + 1] - 1
      BY <1>4, <1>8, <1>81, <2>6
    <3> QED
      BY <2>5, <3>1 DEF BoundsOf
  <2>8. Lowered(e, o)
    <3>1. k.dom \in Seq(Nat)
      BY <1>9, <2>3
    <3> QED
      BY <2>2, <2>3, <2>4, <2>7, <3>1 DEF Lowered
  <2> QED
    BY <1>5, <1>8, <1>10, <1>11, <1>12, <1>15, <2>8 DEF Outcome, o
<1> QED
  BY <1>14, <1>15

-----------------------------------------------------------------------------
(* A stack of tensors of one shape. *)

\* Quotients and remainders of numbers.
LEMMA QuotientNat ==
  ASSUME NEW x \in Nat, NEW y \in Nat, y # 0
  PROVE  x \div y \in Nat /\ x % y \in Nat /\ x % y < y
  OBVIOUS

\* The place of an operand is one of the places.
LEMMA StackPlace ==
  ASSUME NEW target \in Seq(Nat), \A d \in 1 .. Len(target) : target[d] # 0, NEW n \in Nat
  PROVE  StackPosition(target, n) \in Points(target)
<1> DEFINE m == Len(target)
           p == CHOOSE p : p = [d \in DOMAIN target |->
                  IF d = Len(target) THEN n ELSE p[d + 1] \div target[d + 1]]
           q == [d \in DOMAIN target |-> p[d] % target[d]]
<1>1. m \in Nat /\ DOMAIN target = 1 .. m /\ \A d \in 1 .. m : target[d] \in Nat /\ target[d] # 0
  BY SeqFacts
<1>2. StackPosition(target, n) = q
  BY DEF StackPosition
<1> DEFINE Right(f) == f = [d \in DOMAIN target |-> IF d = Len(target) THEN n ELSE f[d + 1] \div target[d + 1]]
<1>3. (\E f : Right(f)) => Right(p)
  OBVIOUS
<1> HIDE DEF p
<1>4. \A f : Right(f) <=> f = [d \in 1 .. m |-> IF d = m THEN n ELSE f[d + 1] \div target[d + 1]]
  BY <1>1
<1> HIDE DEF m, Right
<1>5. \A d \in 1 .. m : p[d] \in Nat
  <2>1. CASE m = 0
    BY <2>1
  <2>2. CASE m # 0
    <3> DEFINE g == [i \in 1 .. m - 1 |-> [x \in Nat |-> x \div target[m - i + 1]]]
    <3>1. \A i \in 1 .. m - 1 : m - i + 1 \in 1 .. m
      BY <1>1
    <3>2. g \in [1 .. m - 1 -> [Nat -> Nat]] /\ m - 1 \in Nat /\ n \in Nat
      <4>1. \A i \in 1 .. m - 1 : \A x \in Nat : x \div target[m - i + 1] \in Nat
        BY <1>1, <3>1, QuotientNat
      <4> QED
        BY <1>1, <2>2, <4>1
    <3>3. \A i \in 1 .. m - 1, x \in Nat : g[i][x] = x \div target[m - i + 1]
      OBVIOUS
    <3> HIDE DEF g
    <3>4. PICK h \in [0 .. m - 1 -> Nat] : Follows(m - 1, n, g, h)
      BY <3>2, Recursion
    <3> DEFINE r == [d \in 1 .. m |-> h[m - d]]
    <3>5. Right(r)
      <4>1. ASSUME NEW d \in 1 .. m PROVE r[d] = IF d = m THEN n ELSE r[d + 1] \div target[d + 1]
        <5>1. CASE d = m
          BY <1>1, <3>4, <5>1 DEF Follows
        <5>2. CASE d # m
          <6>1. m - d \in 1 .. m - 1 /\ m - d - 1 \in 0 .. m - 1 /\ d + 1 \in 1 .. m
                /\ m - (m - d) + 1 = d + 1 /\ m - (d + 1) = m - d - 1
            BY <1>1, <5>2
          <6>2. h[m - d] = g[m - d][h[m - d - 1]] /\ h[m - d - 1] \in Nat
            BY <3>4, <6>1 DEF Follows
          <6>3. h[m - d] = h[m - d - 1] \div target[d + 1]
            BY <3>3, <6>1, <6>2
          <6> QED
            BY <5>2, <6>1, <6>3
        <5> QED
          BY <5>1, <5>2
      <4>2. r = [d \in 1 .. m |-> IF d = m THEN n ELSE r[d + 1] \div target[d + 1]]
        BY <4>1
      <4> HIDE DEF r
      <4> QED
        BY <1>4, <4>2
    <3>6. p = [d \in 1 .. m |-> IF d = m THEN n ELSE p[d + 1] \div target[d + 1]]
      BY <1>3, <1>4, <3>5
    <3> DEFINE b == [i \in 0 .. m - 1 |-> p[m - i]]
    <3>7. b[0] \in Nat
      BY <1>1, <2>2, <3>6
    <3>8. ASSUME NEW i \in 1 .. m - 1, b[i - 1] \in Nat PROVE b[i] \in Nat
      <4>1. m - i \in 1 .. m /\ m - i # m /\ m - i + 1 \in 1 .. m /\ i - 1 \in 0 .. m - 1 /\ m - (i - 1) = m - i + 1
            /\ i \in 0 .. m - 1
        BY <1>1
      <4>2. p[m - i] = p[m - i + 1] \div target[m - i + 1]
        BY <3>6, <4>1
      <4>3. p[m - i + 1] \in Nat
        BY <3>8, <4>1
      <4> QED
        BY <1>1, <4>1, <4>2, <4>3, QuotientNat
    <3>9. \A i \in 0 .. m - 1 : b[i] \in Nat
      <4> HIDE DEF b
      <4> QED
        BY <3>2, <3>7, <3>8, Inductive
    <3> QED
      <4>1. ASSUME NEW d \in 1 .. m PROVE p[d] \in Nat
        <5>1. m - d \in 0 .. m - 1 /\ m - (m - d) = d
          BY <1>1
        <5> QED
          BY <3>9, <5>1
      <4> QED
        BY <4>1
  <2> QED
    BY <2>1, <2>2
<1>6. q = [d \in 1 .. m |-> p[d] % target[d]]
  BY <1>1
<1> HIDE DEF q
<1>7. ASSUME NEW d \in 1 .. m PROVE p[d] % target[d] \in Nat /\ p[d] % target[d] < target[d]
  BY <1>1, <1>5, QuotientNat
<1>8. q \in [1 .. m -> Nat] /\ \A d \in 1 .. m : q[d] < target[d]
  BY <1>6, <1>7
<1> QED
  BY <1>2, <1>8, NatInt, PointsOf DEF m

\* The points of a shape that is put together, and what is left without the first place.
LEMMA JoinedPoint ==
  ASSUME NEW s \in Seq(Nat), NEW t \in Seq(Nat), NEW p \in Points(s), NEW q \in Points(t)
  PROVE  p \o q \in Points(s \o t)
<1>1. Joined(Nat, s, t, s \o t)
  BY ConcatFacts
<1>2. p \in [1 .. Len(s) -> Nat] /\ \A d \in 1 .. Len(s) : p[d] < s[d]
  BY NatInt, PointsOf
<1>3. q \in [1 .. Len(t) -> Nat] /\ \A d \in 1 .. Len(t) : q[d] < t[d]
  BY NatInt, PointsOf
<1>4. Len(s) \in Nat /\ Len(t) \in Nat
  BY SeqFacts
<1>5. p \in Seq(Nat) /\ Len(p) = Len(s) /\ q \in Seq(Nat) /\ Len(q) = Len(t)
  BY <1>2, <1>3, <1>4, FunctionSeq
<1>6. Joined(Nat, p, q, p \o q)
  BY <1>5, ConcatFacts
<1> DEFINE m == Len(s)
           n == Len(t)
           w == p \o q
           v == s \o t
<1> HIDE DEF m, n, w, v
<1>7. /\ v \in Seq(Nat) /\ Len(v) = m + n
      /\ (\A d \in 1 .. m : v[d] = s[d]) /\ \A d \in 1 .. n : v[m + d] = t[d]
  BY <1>1 DEF Joined, v, m, n
<1>8. /\ w \in Seq(Nat) /\ Len(w) = m + n
      /\ (\A d \in 1 .. m : w[d] = p[d]) /\ \A d \in 1 .. n : w[m + d] = q[d]
  BY <1>5, <1>6 DEF Joined, w, m, n
<1>9. m \in Nat /\ n \in Nat /\ (\A d \in 1 .. m : p[d] < s[d]) /\ \A d \in 1 .. n : q[d] < t[d]
  BY <1>2, <1>3, <1>4 DEF m, n
<1>10. ASSUME NEW d \in 1 .. m + n PROVE w[d] < v[d]
  <2>1. CASE d \in 1 .. m
    BY <1>7, <1>8, <1>9, <2>1
  <2>2. CASE d \notin 1 .. m
    <3>1. d - m \in 1 .. n /\ m + (d - m) = d
      BY <1>9, <2>2
    <3>2. w[m + (d - m)] = q[d - m] /\ v[m + (d - m)] = t[d - m]
      BY <1>7, <1>8, <3>1
    <3> QED
      BY <1>9, <3>1, <3>2
  <2> QED
    BY <2>1, <2>2
<1>11. w \in [1 .. m + n -> Nat]
  <2>1. w \in [1 .. Len(w) -> Nat]
    BY <1>8
  <2> QED
    BY <1>8, <2>1
<1> QED
  BY <1>7, <1>10, <1>11, NatInt, PointsOf DEF w, v

\* A point of an inner shape in a list of it.
LEMMA TailPoint ==
  ASSUME NEW n \in Nat, NEW t \in Seq(Nat), NEW p \in Points(<<n>> \o t)
  PROVE  /\ p[1] \in 0 .. n - 1 /\ Tail(p) \in Points(t) /\ Len(Tail(p)) = Len(t)
         /\ \A d \in 1 .. Len(t) : Tail(p)[d] = p[d + 1]
<1> DEFINE m == Len(t)
           v == <<n>> \o t
           x == <<n>>
<1>1. x \in Seq(Nat) /\ Len(x) = 1 /\ x[1] = n /\ m \in Nat
  BY SeqFacts
<1>2. Joined(Nat, x, t, v)
  BY <1>1, ConcatFacts
<1> HIDE DEF x, v, m
<1>3. v \in Seq(Nat) /\ Len(v) = m + 1 /\ v[1] = n /\ \A d \in 1 .. m : v[d + 1] = t[d]
  <2>1. 1 \in 1 .. 1 /\ \A d \in 1 .. m : 1 + d = d + 1
    BY <1>1
  <2>2. 1 + m = m + 1
    BY <1>1
  <2> QED
    BY <1>1, <1>2, <2>1, <2>2 DEF Joined, m
<1>4. p \in [1 .. m + 1 -> Nat] /\ \A d \in 1 .. m + 1 : p[d] < v[d]
  <2>1. p \in Points(v)
    BY DEF v, x
  <2> QED
    BY <1>3, <2>1, NatInt, PointsOf
<1>5. p[1] \in 0 .. n - 1
  <2>1. 1 \in 1 .. m + 1
    BY <1>1
  <2> QED
    BY <1>3, <1>4, <2>1
<1> DEFINE w == Tail(p)
<1>6. p \in Seq(Nat) /\ Len(p) = m + 1 /\ p # << >>
  BY <1>1, <1>4
<1>7. w \in Seq(Nat) /\ Len(w) = m /\ \A d \in 1 .. m : w[d] = p[d + 1]
  <2>1. Len(p) - 1 = m
    BY <1>1, <1>6
  <2>2. w \in Seq(Nat) /\ Len(w) = Len(p) - 1 /\ \A i \in 1 .. Len(p) - 1 : w[i] = p[i + 1]
    BY <1>6, HeadRemoved
  <2> HIDE DEF w
  <2> QED
    BY <2>1, <2>2
<1> HIDE DEF w
<1>8. w \in [1 .. m -> Nat]
  <2>1. w \in [1 .. Len(w) -> Nat]
    BY <1>7
  <2> QED
    BY <1>7, <2>1
<1>9. \A d \in 1 .. m : w[d] < t[d]
  <2>1. \A d \in 1 .. m : d + 1 \in 1 .. m + 1
    BY <1>1
  <2> QED
    BY <1>3, <1>4, <1>7, <2>1
<1>10. w \in Points(t)
  BY <1>8, <1>9, NatInt, PointsOf DEF m
<1> QED
  BY <1>5, <1>7, <1>10 DEF w, m

\* Tensors of one shape, as many as there are places.
LEMMA StackSound ==
  ASSUME NEW o, NEW inner \in Seq(Nat), o.attr \in Seq(Nat), \A d \in 1 .. Len(o.attr) : o.attr[d] # 0,
         Len(o.args) \in Nat \ {0}, \A i \in 1 .. Len(o.args) : o.args[i].shape = inner,
         o.type.shape = o.attr \o inner
  PROVE  Sound(lowering_stack(o), o.type)
<1> DEFINE n == Len(o.args)
           dom == <<n>> \o inner
           points == Points(dom)
           iters == <<"sequential">> \o Parallel(Len(inner))
           k == Kernel(dom, iters, o.args, [p \in points |-> <<<<p[1] + 1, Tail(p)>>>>],
               [p \in points |-> StackPosition(o.attr, p[1]) \o Tail(p)], o.type, Garbage, "copy")
<1>1. n \in Nat /\ 1 \in 1 .. n /\ o.args[1].shape = inner
  BY SeqFacts
<1>2. lowering_stack(o) = <<k>>
  BY <1>1 DEF lowering_stack
<1>3. /\ k.dom = dom /\ k.type = o.type /\ k.ins = o.args /\ k.iters = iters
      /\ k.reads = [p \in points |-> <<<<p[1] + 1, Tail(p)>>>>]
      /\ k.writes = [p \in points |-> StackPosition(o.attr, p[1]) \o Tail(p)]
  BY DEF Kernel
<1> HIDE DEF k, n
<1>4. ASSUME NEW p \in points
      PROVE  /\ p[1] \in 0 .. n - 1 /\ p[1] + 1 \in 1 .. n /\ Tail(p) \in Points(inner)
             /\ StackPosition(o.attr, p[1]) \in Points(o.attr)
             /\ \A d \in 1 .. Len(inner) : Tail(p)[d] = p[d + 1]
  <2>1. /\ p[1] \in 0 .. n - 1 /\ Tail(p) \in Points(inner)
        /\ \A d \in 1 .. Len(inner) : Tail(p)[d] = p[d + 1]
    BY <1>1, TailPoint
  <2>2. p[1] \in Nat /\ p[1] + 1 \in 1 .. n
    BY <1>1, <2>1
  <2> QED
    BY <2>1, <2>2, StackPlace
<1>5. Inside(k)
  <2>1. ASSUME NEW p \in points PROVE k.writes[p] \in Points(o.type.shape)
    BY <1>3, <1>4, JoinedPoint
  <2>2. ASSUME NEW p \in points, NEW r \in ToSet(k.reads[p]) PROVE r[2] \in Points(k.ins[r[1]].shape)
    <3> DEFINE a == <<p[1] + 1, Tail(p)>>
    <3>1. k.reads[p] = <<a>> /\ a[1] = p[1] + 1 /\ a[2] = Tail(p)
      BY <1>3
    <3> HIDE DEF a
    <3>2. r = a
      BY <3>1 DEF ToSet
    <3>3. o.args[p[1] + 1].shape = inner
      BY <1>4 DEF n
    <3> QED
      BY <1>3, <1>4, <3>1, <3>2, <3>3
  <2> HIDE DEF points
  <2> QED
    BY <1>3, <2>1, <2>2 DEF Inside, points
<1>6. Disjoint(k)
  <2> DEFINE m == Len(inner)
             l == Len(o.attr)
  <2>1. m \in Nat /\ l \in Nat
    BY SeqFacts
  <2> HIDE DEF points
  <2>2. DOMAIN dom = 1 .. m + 1 /\ iters[1] = "sequential"
    <3>1. <<n>> \in Seq(Nat) /\ Len(<<n>>) = 1 /\ Len(<<"sequential">>) = 1 /\ <<"sequential">>[1] = "sequential"
          /\ <<"sequential">> \in Seq({"sequential", "parallel"})
      BY <1>1
    <3>2. Joined(Nat, <<n>>, inner, dom)
      BY <3>1, ConcatFacts
    <3>3. dom \in Seq(Nat) /\ Len(dom) = 1 + m
      BY <3>1, <3>2 DEF Joined
    <3>4. Parallel(m) \in Seq({"sequential", "parallel"})
      BY <2>1, FunctionSeq DEF Parallel
    <3>5. Joined({"sequential", "parallel"}, <<"sequential">>, Parallel(m), iters)
      BY <3>1, <3>4, ConcatFacts
    <3>6. iters[1] = "sequential"
      <4>1. 1 \in 1 .. 1
        OBVIOUS
      <4> QED
        BY <3>1, <3>5, <4>1 DEF Joined
    <3> HIDE DEF dom, m, iters
    <3>7. 1 + m = m + 1
      BY <2>1
    <3> QED
      BY <3>3, <3>6, <3>7, SeqFacts
  <2> HIDE DEF dom, iters
  <2> SUFFICES ASSUME NEW p \in points, NEW q \in points, k.writes[p] = k.writes[q],
                      NEW d \in 1 .. m + 1, iters[d] = "parallel"
               PROVE  p[d] = q[d]
    <3>1. k.dom = dom /\ k.iters = iters /\ points = Points(dom)
      BY <1>3 DEF points
    <3> HIDE DEF m
    <3> QED
      BY <2>2, <3>1 DEF Disjoint
  <2>3. d - 1 \in 1 .. m /\ d - 1 + 1 = d
    <3>1. d # 1
      <4> HIDE DEF iters
      <4> QED
        BY <2>2
    <3> HIDE DEF m
    <3> QED
      BY <2>1, <3>1
  <2>4. ASSUME NEW w \in points PROVE k.writes[w][l + (d - 1)] = w[d]
    <3> DEFINE x == StackPosition(o.attr, w[1])
               y == Tail(w)
    <3>1. x \in Points(o.attr) /\ y \in Points(inner) /\ y[d - 1] = w[d - 1 + 1]
      BY <1>4, <2>3
    <3> HIDE DEF x, y
    <3>2. x \in Seq(Nat) /\ Len(x) = l /\ y \in Seq(Nat) /\ Len(y) = m
      <4>1. x \in [1 .. l -> Nat] /\ y \in [1 .. m -> Nat]
        BY <3>1, NatInt, PointsOf
      <4> QED
        BY <2>1, <4>1, FunctionSeq
    <3>3. Joined(Nat, x, y, x \o y)
      BY <3>2, ConcatFacts
    <3>4. (x \o y)[l + (d - 1)] = y[d - 1]
      BY <2>3, <3>2, <3>3 DEF Joined
    <3>5. k.writes[w] = x \o y
      BY <1>3 DEF x, y
    <3> QED
      BY <2>3, <3>1, <3>4, <3>5
  <2> QED
    BY <2>4
<1>7. k.dom \in Seq(Nat)
  <2>1. <<n>> \in Seq(Nat)
    BY <1>1
  <2>2. Joined(Nat, <<n>>, inner, <<n>> \o inner)
    BY <2>1, ConcatFacts
  <2> QED
    BY <1>3, <2>2 DEF Joined
<1> QED
  BY <1>2, <1>3, <1>5, <1>6, <1>7 DEF Sound

-----------------------------------------------------------------------------
(* stack *)

\* A list has as many elements as it is long.
LEMMA ElemsOne ==
  ASSUME NEW n \in Nat, n < Half
  PROVE  Elems(<<n>>) = n
<1> DEFINE s == <<n>>
<1>1. s \in Seq(Int) /\ Len(s) = 1 /\ s[1] = n
  OBVIOUS
<1> HIDE DEF s
<1>2. PICK c \in [0 .. Len(s) -> Int] :
        /\ c[0] = 1 /\ \A d \in 1 .. Len(s) : c[d] = Wrap(c[d - 1] * s[d])
        /\ Elems(s) = c[Len(s)]
  BY <1>1, ElemsEquation
<1>3. c[1] = Wrap(c[1 - 1] * s[1]) /\ 1 - 1 = 0 /\ Elems(s) = c[1]
  BY <1>1, <1>2
<1>4. 1 * n = n /\ -Half <= n
  BY HalfPositive
<1>5. Wrap(n) = n
  BY <1>4, WrapSmall
<1> QED
  BY <1>1, <1>2, <1>3, <1>4, <1>5 DEF s

\* A stack compiles.
LEMMA StackOutcome ==
  ASSUME NEW e, Generated(e), e.name = "stack"
  PROVE  Outcome(e, Made(e))
<1> DEFINE o == Made(e)
           n == Len(e.args)
           t == e.args[1].value
           vals == Values(e)
           s == <<n>> \o t.shape
<1>1. Found(e) = stack_infer(e.args) /\ ~Found(e).reported
  BY ResolveIs DEF Found, Generated
<1>2. /\ n \in Nat /\ n < Half /\ DOMAIN e.args = 1 .. n /\ Taken(e) = e.args
      /\ \A i \in 1 .. n : Tensed(e.args[i])
  BY Arguments0
<1>3. e.args # << >> /\ IsTensor(e.args[1].type) /\ (\A i \in DOMAIN e.args : e.args[i].type = e.args[1].type)
      /\ Found(e).type = TensorOf(e.args[1].type.elem, <<n>> \o e.args[1].type.shape)
  <2> DEFINE first == e.args[1].type
             ok == e.args # << >> /\ IsTensor(first) /\ \A i \in DOMAIN e.args : e.args[i].type = first
  <2>1. Found(e) = Inferred(ok, first.elem, <<n>> \o first.shape)
    BY <1>1 DEF stack_infer
  <2> HIDE DEF ok
  <2>2. ok /\ Found(e).type = TensorOf(first.elem, <<n>> \o first.shape)
    BY <1>1, <2>1 DEF Inferred, Failed, Answer
  <2> QED
    BY <2>2 DEF ok
<1>4. n \in Nat \ {0} /\ 1 \in 1 .. n
  <2>1. e.args \in Seq(ToSet(e.args))
    BY ExprsAssumption DEF Generated, Sequenced
  <2>2. \A S : \A x \in Seq(S) : Len(x) = 0 => x = << >>
    OBVIOUS
  <2>3. n # 0
    BY <1>3, <2>1, <2>2
  <2> HIDE DEF n
  <2> QED
    BY <1>2, <2>3
<1>5. /\ t.shape \in Seq(Nat) /\ e.args[1].type.shape = t.shape /\ e.args[1].type.elem = t.elem
      /\ \A i \in 1 .. n : TypeOf(e.args[i].value) = e.args[1].type /\ e.args[i].value.shape = t.shape
  <2>1. \A i \in 1 .. n : Tensed(e.args[i]) /\ e.args[i].type = e.args[1].type
    BY <1>2, <1>3
  <2> QED
    BY <1>4, <2>1 DEF Tensed, TypeOf
<1>6. DOMAIN vals = 1 .. n /\ Len(vals) = n /\ (\A i \in 1 .. n : vals[i] = e.args[i].value) /\ vals[1] = t
  BY <1>4, ValuesAre
<1> HIDE DEF n, t, vals
<1>7. stack_build(vals, <<n>>) = TensorOf(t.elem, s)
  BY <1>6 DEF stack_build
<1>8. s \in Seq(Nat)
  <2>1. <<n>> \in Seq(Nat)
    BY <1>2
  <2>2. Joined(Nat, <<n>>, t.shape, s)
    BY <1>5, <2>1, ConcatFacts
  <2> QED
    BY <2>2 DEF Joined
<1>9. Found(e).type = TensorOf(t.elem, s)
  BY <1>3, <1>5
<1>10. /\ o.kind = "stack" /\ o.args = vals /\ o.attr = <<n>> /\ o.type = TensorOf(t.elem, s)
       /\ o.type.shape = s /\ o.type.elem = t.elem
  <2>1. o = Op("stack", vals, <<n>>, stack_build(vals, <<n>>))
    BY <1>6, MadeIs DEF Generates, vals
  <2> HIDE DEF s
  <2> QED
    BY <1>7, <2>1 DEF Op, TensorOf, Type
<1> HIDE DEF o
<1>11. ~Undefined(o, e.name, Taken(e))
  <2>1. Consumed(e.name, Taken(e)) = << >>
    BY DEF Consumed
  <2> HIDE DEF s
  <2> QED
    BY <1>8, <1>10, <2>1, DefinedShape
<1>12. Verified(o)
  <2>1. \A i \in DOMAIN vals : TypeOf(vals[i]) = TypeOf(vals[1])
    BY <1>4, <1>5, <1>6
  <2>2. Len(vals) = Elems(<<n>>)
    BY <1>2, <1>6, ElemsOne
  <2>3. o.type.shape = <<n>> \o vals[1].shape
    BY <1>6, <1>10
  <2>4. literal_verify(vals, <<n>>, o.type)
    BY <2>1, <2>2, <2>3 DEF literal_verify
  <2> QED
    BY <1>10, <2>4, VerifiedIs
<1>13. Lowered(e, o)
  <2>1. Lower(o) = lowering_stack(o)
    BY <1>10, LowerIs
  <2> DEFINE a == <<n>>
  <2>2. a \in Seq(Nat) /\ \A d \in 1 .. Len(a) : a[d] # 0
    BY <1>4
  <2>3. o.attr = a
    BY <1>10
  <2>4. o.type.shape = a \o t.shape
    BY <1>10
  <2> HIDE DEF a, s
  <2>5. Len(o.args) \in Nat \ {0} /\ \A i \in 1 .. Len(o.args) : o.args[i].shape = t.shape
    BY <1>4, <1>5, <1>6, <1>10
  <2>6. Sound(lowering_stack(o), o.type)
    BY <1>5, <2>2, <2>3, <2>4, <2>5, StackSound
  <2> QED
    BY <2>1, <2>6, SoundLowered
<1>14. ~Gap(e)
  BY GapIs
<1> HIDE DEF s
<1>15. /\ o.kind # "print" /\ o.type = Found(e).type /\ o.type = TensorOf(o.type.elem, o.type.shape)
  BY <1>9, <1>10
<1> QED
  BY <1>11, <1>12, <1>13, <1>14, <1>15 DEF Outcome, o

-----------------------------------------------------------------------------
(* Literals in literals, level by level. *)

\* What a sequence of sequences has as one, and how long it is.
LEMMA FlattenContent ==
  ASSUME NEW S, NEW s \in Seq(Seq(S))
  PROVE  /\ \A x \in ToSet(FlattenSeq(s)) : \E k \in 1 .. Len(s) : x \in ToSet(s[k])
         /\ \A c \in Nat : (\A k \in 1 .. Len(s) : Len(s[k]) = c) => Len(FlattenSeq(s)) = Len(s) * c
<1> DEFINE F == CHOOSE f : f = [i \in 1 .. Len(s) |-> Flat(s, f, i)]
           Content(n) == \A x \in ToSet(F[n]) : \E k \in 1 .. n : x \in ToSet(s[k])
           Length(n) == \A c \in Nat : (\A k \in 1 .. Len(s) : Len(s[k]) = c) => Len(F[n]) = n * c
           Bad == {n \in 1 .. Len(s) : ~(Content(n) /\ Length(n))}
<1>0. Len(s) \in Nat
  OBVIOUS
<1>1. Flattening(s, F)
  <2>1. F = [i \in 1 .. Len(s) |-> Flat(s, F, i)]
    BY <1>0, FlatExists
  <2> HIDE DEF F
  <2> QED
    BY <2>1 DEF Flattening
<1>2. Len(s) # 0 => FlattenSeq(s) = F[Len(s)]
  BY DEF FlattenSeq, Flat
<1> HIDE DEF F
<1>3. Grows(S, s, F)
  BY <1>1, FlatGrows, Zenon
<1>4. Bad = {}
  <2> SUFFICES ASSUME Bad # {} PROVE FALSE
    OBVIOUS
  <2> HIDE DEF Content, Length
  <2>1. PICK m \in Bad : \A n \in Bad : m <= n
    <3>1. Bad \in SUBSET Nat
      OBVIOUS
    <3> HIDE DEF Bad
    <3> QED
      BY <3>1, Least
  <2>2. m \in 1 .. Len(s) /\ ~(Content(m) /\ Length(m)) /\ s[m] \in Seq(S)
    BY <2>1
  <2>3. CASE m = 1
    <3>1. F[1] = s[1]
      BY <1>0, <1>3, <2>2 DEF Grows
    <3>2. 1 \in 1 .. 1 /\ \A c \in Nat : 1 * c = c
      OBVIOUS
    <3>3. Content(1) /\ Length(1)
      BY <2>2, <2>3, <3>1, <3>2 DEF Content, Length
    <3> QED
      BY <2>2, <2>3, <3>3
  <2>4. CASE m # 1
    <3>1. m - 1 \in 1 .. Len(s) /\ ~(m <= m - 1)
      BY <1>0, <2>2, <2>4
    <3>2. Content(m - 1) /\ Length(m - 1)
      BY <2>1, <3>1
    <3>3. F[m - 1] \in Seq(S) /\ F[m] = F[m - 1] \o s[m]
      BY <1>3, <2>2, <2>4, <3>1 DEF Grows
    <3>4. ToSet(F[m]) = ToSet(F[m - 1]) \cup ToSet(s[m])
      BY <2>2, <3>3, ToSetConcat
    <3>5. m \in 1 .. m /\ \A k \in 1 .. m - 1 : k \in 1 .. m
      BY <1>0, <2>2
    <3>6. Content(m)
      BY <3>2, <3>4, <3>5 DEF Content
    <3>7. Len(F[m]) = Len(F[m - 1]) + Len(s[m])
      BY <2>2, <3>3
    <3>8. Length(m)
      <4> SUFFICES ASSUME NEW c \in Nat, \A k \in 1 .. Len(s) : Len(s[k]) = c
                   PROVE  Len(F[m]) = m * c
        BY DEF Length
      <4>1. Len(F[m - 1]) = (m - 1) * c /\ Len(s[m]) = c
        BY <2>2, <3>2 DEF Length
      <4>2. (m - 1) * c + c = m * c
        BY <1>0, <2>2
      <4> QED
        BY <3>7, <4>1, <4>2
    <3> QED
      BY <2>2, <3>6, <3>8
  <2> QED
    BY <2>3, <2>4
<1> HIDE DEF Content, Length
<1>5. CASE Len(s) = 0
  <2>1. FlattenSeq(s) = << >>
    BY <1>5 DEF FlattenSeq
  <2>2. ToSet(<< >>) = {} /\ Len(<< >>) = 0
    BY DEF ToSet
  <2>3. \A c \in Nat : 0 * c = 0
    OBVIOUS
  <2> QED
    BY <1>5, <2>1, <2>2, <2>3
<1>6. CASE Len(s) # 0
  <2>1. Len(s) \in 1 .. Len(s)
    BY <1>0, <1>6
  <2>2. Content(Len(s)) /\ Length(Len(s))
    BY <1>4, <2>1
  <2> QED
    BY <1>2, <1>6, <2>2 DEF Content, Length
<1> QED
  BY <1>5, <1>6

\* Sequences of one length, one after the other.
LEMMA FlattenLength ==
  ASSUME NEW S, NEW s \in Seq(Seq(S)), NEW c \in Nat, \A k \in 1 .. Len(s) : Len(s[k]) = c
  PROVE  Len(FlattenSeq(s)) = Len(s) * c
  BY FlattenContent

\* What takes the place of each element when one level of literals is opened.
Pieces(items) ==
  [i \in DOMAIN items |-> IF items[i].node = "tensor" THEN items[i].items ELSE <<items[i]>>]

\* next has the elements of the literals among the items, and the other items.
Expands(items, next) ==
  /\ \A y \in ToSet(next) :
       \/ \E x \in ToSet(items) : x.node = "tensor" /\ y \in ToSet(x.items)
       \/ y \in ToSet(items) /\ y.node # "tensor"
  /\ \A x \in ToSet(items) : x.node # "tensor" => x \in ToSet(next)
  /\ \A x \in ToSet(items) : x.node = "tensor" => \A y \in ToSet(x.items) : y \in ToSet(next)
  /\ \A c \in Nat : (\A x \in ToSet(items) : x.node = "tensor" /\ Len(x.items) = c) =>
       Len(next) = Len(items) * c
  /\ (\A x \in ToSet(items) : x.node # "tensor") => Len(next) = Len(items)

\* One level of literals replaced by their elements.
LEMMA UnnestedIs ==
  ASSUME NEW items, items \in Seq(ToSet(items)),
         \A x \in ToSet(items) : x.node = "tensor" => x.items \in Seq(ToSet(x.items))
  PROVE  Expands(items, Unnested(items))
<1> DEFINE p == Pieces(items)
           S == UNION {ToSet(p[i]) : i \in DOMAIN items}
           n == Len(items)
<1>1. n \in Nat /\ DOMAIN items = 1 .. n /\ (\A i \in 1 .. n : items[i] \in ToSet(items))
      /\ \A x \in ToSet(items) : \E i \in 1 .. n : x = items[i]
  <2>1. n \in Nat /\ DOMAIN items = 1 .. n
    BY SeqFacts
  <2> HIDE DEF n
  <2> QED
    BY <2>1 DEF ToSet
<1>2. Unnested(items) = FlattenSeq(p)
  BY DEF Unnested, Pieces
<1>3. ASSUME NEW i \in 1 .. n
      PROVE  p[i] = IF items[i].node = "tensor" THEN items[i].items ELSE <<items[i]>>
  BY <1>1 DEF Pieces
<1>4. \A x : ToSet(<<x>>) = {x} /\ Len(<<x>>) = 1 /\ <<x>> \in Seq({x})
  BY DEF ToSet
<1>5. ASSUME NEW i \in 1 .. n PROVE p[i] \in Seq(S)
  <2>1. p[i] \in Seq(ToSet(p[i]))
    BY <1>1, <1>3, <1>4
  <2>2. ToSet(p[i]) \subseteq S
    BY <1>1
  <2>3. \A j \in 1 .. Len(p[i]) : p[i][j] \in ToSet(p[i])
    BY <2>1, SeqFacts
  <2> HIDE DEF S, p
  <2> QED
    BY <2>1, <2>2, <2>3, SeqRange
<1>6. p \in Seq(Seq(S)) /\ Len(p) = n
  <2>1. p = [i \in 1 .. n |-> p[i]]
    BY <1>1 DEF Pieces
  <2> HIDE DEF p, S, n
  <2>2. p \in [1 .. n -> Seq(S)]
    BY <1>5, <2>1
  <2> QED
    BY <1>1, <2>2, FunctionSeq
<1> HIDE DEF p, S, n
<1>7. ASSUME NEW y \in ToSet(Unnested(items))
      PROVE  \/ \E x \in ToSet(items) : x.node = "tensor" /\ y \in ToSet(x.items)
             \/ y \in ToSet(items) /\ y.node # "tensor"
  <2>1. PICK k \in 1 .. n : y \in ToSet(p[k])
    BY <1>2, <1>6, FlattenContent
  <2>2. items[k] \in ToSet(items)
    BY <1>1
  <2>3. CASE items[k].node = "tensor"
    <3>1. y \in ToSet(items[k].items)
      BY <1>3, <2>1, <2>3
    <3> QED
      BY <2>2, <2>3, <3>1
  <2>4. CASE items[k].node # "tensor"
    <3>1. p[k] = <<items[k]>>
      BY <1>3, <2>4
    <3>2. y = items[k]
      BY <1>4, <2>1, <3>1
    <3> QED
      BY <2>2, <2>4, <3>2
  <2> QED
    BY <2>3, <2>4
<1>8. ASSUME NEW x \in ToSet(items)
      PROVE  /\ x.node # "tensor" => x \in ToSet(Unnested(items))
             /\ x.node = "tensor" => \A y \in ToSet(x.items) : y \in ToSet(Unnested(items))
  <2>1. PICK k \in 1 .. n : x = items[k]
    BY <1>1
  <2>2. \A y \in ToSet(p[k]) : y \in ToSet(FlattenSeq(p))
    BY <1>6, FlattenSeqElements
  <2> QED
    BY <1>2, <1>3, <1>4, <2>1, <2>2
<1>9. ASSUME NEW c \in Nat, \A x \in ToSet(items) : x.node = "tensor" /\ Len(x.items) = c
      PROVE  Len(Unnested(items)) = n * c
  <2>1. ASSUME NEW k \in 1 .. n PROVE Len(p[k]) = c
    <3>1. items[k] \in ToSet(items)
      BY <1>1
    <3>2. items[k].node = "tensor" /\ Len(items[k].items) = c
      BY <1>9, <3>1
    <3>3. p[k] = items[k].items
      BY <1>3, <3>2
    <3> QED
      BY <3>2, <3>3
  <2>2. Len(FlattenSeq(p)) = Len(p) * c
    BY <1>6, <2>1, FlattenLength
  <2> QED
    BY <1>2, <1>6, <2>2
<1>10. ASSUME \A x \in ToSet(items) : x.node # "tensor"
       PROVE  Len(Unnested(items)) = n
  <2>1. \A k \in 1 .. n : Len(p[k]) = 1
    BY <1>1, <1>3, <1>4, <1>10
  <2>2. Len(FlattenSeq(p)) = Len(p) * 1
    <3>1. \A k \in 1 .. Len(p) : Len(p[k]) = 1
      BY <1>6, <2>1
    <3>2. 1 \in Nat
      OBVIOUS
    <3> QED
      BY <1>6, <3>1, <3>2, FlattenLength
  <2>3. n * 1 = n
    BY <1>1
  <2> QED
    BY <1>2, <1>6, <2>2, <2>3
<1> QED
  BY <1>7, <1>8, <1>9, <1>10 DEF n, Expands

-----------------------------------------------------------------------------
(* Levels. *)

\* The n-th level of literals in literals, with the level before it in f.
Level(items, f, n) == IF n = 0 THEN items ELSE Unnested(f[n - 1])
Leveled(items, m, f) == f = [n \in 0 .. m |-> Level(items, f, n)]

\* There are such levels.
LEMMA LevelsExist ==
  ASSUME NEW items, NEW m \in Nat
  PROVE  \E f : Leveled(items, m, f)
<1> DEFINE Missing == {n \in 0 .. m : ~\E f : Leveled(items, n, f)}
<1>1. Missing = {}
  <2> SUFFICES ASSUME Missing # {} PROVE FALSE
    OBVIOUS
  <2>1. Missing \in SUBSET Nat
    OBVIOUS
  <2> HIDE DEF Missing
  <2>2. PICK k \in Missing : \A n \in Missing : k <= n
    BY <2>1, Least
  <2>3. k \in 0 .. m /\ ~\E f : Leveled(items, k, f)
    BY <2>2 DEF Missing
  <2>4. k # 0
    <3> DEFINE f == [n \in 0 .. 0 |-> items]
    <3>1. f = [n \in 0 .. 0 |-> Level(items, f, n)]
      BY DEF Level
    <3> HIDE DEF f
    <3> QED
      BY <2>3, <3>1 DEF Leveled
  <2>5. k - 1 \in 0 .. m /\ ~(k <= k - 1)
    BY <2>3, <2>4
  <2>6. PICK f : Leveled(items, k - 1, f)
    BY <2>2, <2>5 DEF Missing
  <2> DEFINE g == [n \in 0 .. k |-> Level(items, f, n)]
  <2>7. ASSUME NEW n \in 0 .. k - 1 PROVE g[n] = f[n]
    <3> HIDE DEF g
    <3>1. n \in 0 .. k
      BY <2>3
    <3>2. f[n] = Level(items, f, n)
      BY <2>6 DEF Leveled
    <3> QED
      BY <3>1, <3>2 DEF g
  <2>8. ASSUME NEW n \in 0 .. k PROVE Level(items, f, n) = Level(items, g, n)
    <3> HIDE DEF g
    <3>1. n # 0 => n - 1 \in 0 .. k - 1
      BY <2>3
    <3> QED
      BY <2>7, <3>1 DEF Level
  <2>9. g = [n \in 0 .. k |-> Level(items, g, n)]
    BY <2>8
  <2> HIDE DEF g
  <2> QED
    BY <2>3, <2>9 DEF Leveled
<1> QED
  BY <1>1

\* They are what flatten_tensor computes.
LEMMA FlattenLevels ==
  ASSUME NEW items, NEW m \in Nat
  PROVE  \E f : Leveled(items, m, f) /\ flatten_tensor(items, m) = f[m]
<1> DEFINE f == CHOOSE f : f = [n \in 0 .. m |-> IF n = 0 THEN items ELSE Unnested(f[n - 1])]
<1>1. flatten_tensor(items, m) = f[m]
  BY DEF flatten_tensor
<1>2. \A g : Leveled(items, m, g) <=> g = [n \in 0 .. m |-> IF n = 0 THEN items ELSE Unnested(g[n - 1])]
  BY DEF Leveled, Level
<1>3. f = [n \in 0 .. m |-> IF n = 0 THEN items ELSE Unnested(f[n - 1])]
  BY <1>2, LevelsExist
<1> HIDE DEF f
<1> QED
  BY <1>1, <1>2, <1>3

\* A level is the one before it, opened.
LEMMA FlattenIs ==
  ASSUME NEW items
  PROVE  /\ flatten_tensor(items, 0) = items
         /\ \A m \in Nat \ {0} : flatten_tensor(items, m) = Unnested(flatten_tensor(items, m - 1))
<1>1. flatten_tensor(items, 0) = items
  <2>1. PICK f : Leveled(items, 0, f) /\ flatten_tensor(items, 0) = f[0]
    BY FlattenLevels
  <2>2. 0 \in 0 .. 0
    OBVIOUS
  <2>3. f[0] = Level(items, f, 0)
    BY <2>1, <2>2 DEF Leveled
  <2> QED
    BY <2>1, <2>3 DEF Level
<1>2. ASSUME NEW m \in Nat \ {0}
      PROVE  flatten_tensor(items, m) = Unnested(flatten_tensor(items, m - 1))
  <2>0. m - 1 \in Nat /\ m \in Nat
    OBVIOUS
  <2>1. PICK f : Leveled(items, m, f) /\ flatten_tensor(items, m) = f[m]
    BY <2>0, FlattenLevels
  <2>2. PICK g : Leveled(items, m - 1, g) /\ flatten_tensor(items, m - 1) = g[m - 1]
    BY <2>0, FlattenLevels
  <2> DEFINE b == [n \in 0 .. m - 1 |-> f[n] = g[n]]
             T == {TRUE}
  <2>3. /\ \A n \in 0 .. m : f[n] = Level(items, f, n)
        /\ \A n \in 0 .. m - 1 : g[n] = Level(items, g, n)
    BY <2>1, <2>2 DEF Leveled
  <2>4. b[0] \in T
    <3>1. 0 \in 0 .. m /\ 0 \in 0 .. m - 1
      BY <2>0
    <3>2. f[0] = items /\ g[0] = items
      BY <2>3, <3>1 DEF Level
    <3> QED
      BY <3>1, <3>2
  <2>5. ASSUME NEW n \in 1 .. m - 1, b[n - 1] \in T PROVE b[n] \in T
    <3>1. n \in 0 .. m /\ n \in 0 .. m - 1 /\ n - 1 \in 0 .. m - 1 /\ n # 0
      BY <2>0
    <3>2. f[n - 1] = g[n - 1]
      BY <2>5, <3>1
    <3>3. f[n] = g[n]
      BY <2>3, <3>1, <3>2 DEF Level
    <3> QED
      BY <3>1, <3>3
  <2>6. b[m - 1] \in T
    <3>1. m - 1 \in 0 .. m - 1
      BY <2>0
    <3> HIDE DEF b, T
    <3> QED
      BY <2>0, <2>4, <2>5, <3>1, Inductive
  <2>7. f[m - 1] = g[m - 1]
    <3>1. m - 1 \in 0 .. m - 1
      BY <2>0
    <3> QED
      BY <2>6, <3>1
  <2>8. f[m] = Unnested(f[m - 1])
    <3>1. m \in 0 .. m /\ m # 0
      BY <2>0
    <3> QED
      BY <2>3, <3>1 DEF Level
  <2> QED
    BY <2>1, <2>2, <2>7, <2>8
<1> QED
  BY <1>1, <1>2

-----------------------------------------------------------------------------
(* Literals: what sema found at each level. *)

\* A literal, the type of its first element, with its rank, and its levels.
IsNested(e) == Generated(e) /\ e.name = "elements"
Ty(e) == e.args[1].type
Rank(e) == Len(Ty(e).shape)
Lev(e, k) == flatten_tensor(e.args, k)

\* The type of what is in j literals of a literal of type t.
At(t, j) == TensorOf(t.elem, SubSeq(t.shape, j + 1, Len(t.shape)))

\* What sema found.
LEMMA LiteralFound ==
  ASSUME NEW e, IsNested(e)
  PROVE  /\ Len(e.args) \in Nat \ {0} /\ Len(e.args) < Half /\ e.args # << >>
         /\ e.args[1] \in ToSet(e.args) /\ \A x \in ToSet(e.args) : x.type = Ty(e)
         /\ Ty(e).shape \in Seq(Nat) /\ Rank(e) \in Nat /\ Ty(e) # Unknown
         /\ Found(e).type = TensorOf(ElementOf(Ty(e)), <<Len(e.args)>> \o Ty(e).shape)
<1>1. e \in Exprs /\ ~Found(e).reported /\ Found(e) = resolve_tensor(e.args)
  BY ResolveIs DEF IsNested, Generated, Found
<1>2. /\ e.args \in Seq(ToSet(e.args)) /\ Len(e.args) < Half
      /\ \A i \in DOMAIN e.args : e.args[i].type.shape \in Seq(Nat)
  BY <1>1, ExprsAssumption DEF Sequenced
<1> DEFINE first == e.args[1].type
           bad == e.args = << >> \/ \E i \in DOMAIN e.args : e.args[i].type # first
           lost == first = Unknown /\ \E i \in DOMAIN e.args : e.args[i].node = "tensor"
<1>3. Found(e) = IF bad THEN Failed
                 ELSE Answer(TensorOf(ElementOf(first), <<Len(e.args)>> \o first.shape), lost)
  BY <1>1 DEF resolve_tensor
<1>4. /\ ~bad
      /\ Found(e).type = TensorOf(ElementOf(first), <<Len(e.args)>> \o first.shape)
  <2> HIDE DEF bad, lost
  <2>1. ~bad
    BY <1>1, <1>3 DEF Failed, Answer
  <2> DEFINE t == TensorOf(ElementOf(first), <<Len(e.args)>> \o first.shape)
  <2>2. Found(e) = Answer(t, lost)
    BY <1>3, <2>1
  <2> HIDE DEF t, first
  <2>3. Found(e).type = t
    BY <2>2 DEF Answer
  <2> QED
    BY <2>1, <2>3 DEF t
<1>5. Len(e.args) \in Nat \ {0} /\ DOMAIN e.args = 1 .. Len(e.args) /\ 1 \in DOMAIN e.args
  <2>1. \A S : \A x \in Seq(S) : x # << >> => Len(x) \in Nat \ {0} /\ DOMAIN x = 1 .. Len(x) /\ 1 \in DOMAIN x
    OBVIOUS
  <2> QED
    BY <1>2, <1>4, <2>1
<1>6. e.args[1] \in ToSet(e.args) /\ \A x \in ToSet(e.args) : x.type = first
  BY <1>4, <1>5 DEF ToSet
<1>7. first.shape \in Seq(Nat)
  BY <1>2, <1>5
<1>8. Len(first.shape) \in Nat
  BY <1>7, SeqFacts
<1>9. first # Unknown
  <2> SUFFICES ASSUME first = Unknown PROVE FALSE
    OBVIOUS
  <2>1. Ty(e) = Unknown /\ Unknown.shape = << >> /\ Len(<< >>) = 0
    BY DEF Ty, Unknown, Type
  <2>2. Taken(e) = e.args
    BY <2>1, FlattenIs DEF Taken, Operands, Ty, IsNested
  <2> QED
    BY <1>5, <2>2 DEF IsNested, Generated, Valueless
<1> QED
  BY <1>2, <1>4, <1>5, <1>6, <1>7, <1>8, <1>9 DEF Ty, Rank

\* The levels.
LEMMA LevelItems ==
  ASSUME NEW e, IsNested(e), NEW k \in 0 .. Rank(e)
  PROVE  /\ Lev(e, k) \in Seq(ToSet(Lev(e, k))) /\ Len(Lev(e, k)) < Half
         /\ \A x \in ToSet(Lev(e, k)) : IF x.node = "tensor" THEN IsLiteral(x) ELSE IsOperand(x)
<1>1. e \in Exprs /\ e.name = "elements" /\ e.args # << >>
  BY LiteralFound DEF IsNested, Generated
<1>2. k \in 0 .. Len(e.args[1].type.shape)
  BY DEF Rank, Ty
<1> DEFINE level == Lev(e, k)
<1>3. /\ Sequenced(level)
      /\ \A i \in DOMAIN level : IF level[i].node = "tensor" THEN IsLiteral(level[i]) ELSE IsOperand(level[i])
  BY <1>1, <1>2, ExprsAssumption DEF Lev
<1> HIDE DEF level
<1>4. \A x \in ToSet(level) : \E i \in DOMAIN level : x = level[i]
  BY DEF ToSet
<1> QED
  BY <1>3, <1>4 DEF level, Sequenced

\* Each level expands the one before it.
LEMMA LevelStep ==
  ASSUME NEW e, IsNested(e), NEW k \in 1 .. Rank(e)
  PROVE  Expands(Lev(e, k - 1), Lev(e, k))
<1>1. Rank(e) \in Nat
  BY LiteralFound
<1>2. k - 1 \in 0 .. Rank(e) /\ k \in Nat \ {0}
  BY <1>1
<1> DEFINE l == Lev(e, k - 1)
<1>3. Lev(e, k) = Unnested(l)
  BY <1>2, FlattenIs DEF Lev
<1>4. l \in Seq(ToSet(l)) /\ \A x \in ToSet(l) : IF x.node = "tensor" THEN IsLiteral(x) ELSE IsOperand(x)
  BY <1>2, LevelItems
<1> HIDE DEF l
<1>5. \A x \in ToSet(l) : x.node = "tensor" => x.items \in Seq(ToSet(x.items))
  BY <1>4 DEF IsLiteral
<1>6. Expands(l, Unnested(l))
  BY <1>4, <1>5, UnnestedIs
<1> QED
  BY <1>3, <1>6 DEF l

\* The first level is the arguments, the last one the operands.
LEMMA LevelFirst ==
  ASSUME NEW e, IsNested(e)
  PROVE  Lev(e, 0) = e.args /\ Lev(e, Rank(e)) = Taken(e)
  BY FlattenIs DEF Lev, Taken, Operands, Rank, Ty, IsNested

\* What is not a literal stays, and has a value.
LEMMA Persisting ==
  ASSUME NEW e, IsNested(e), NEW k \in 0 .. Rank(e), NEW x \in ToSet(Lev(e, k)), x.node # "tensor"
  PROVE  x \in ToSet(Taken(e)) /\ Tensed(x)
<1>1. Rank(e) \in Nat /\ k \in Nat /\ Rank(e) - k \in Nat /\ Rank(e) - k \in 0 .. Rank(e) - k
      /\ k + (Rank(e) - k) = Rank(e)
  <2>1. Rank(e) \in Nat
    BY LiteralFound
  <2> QED
    BY <2>1
<1> DEFINE b == [n \in 0 .. Rank(e) - k |-> x \in ToSet(Lev(e, k + n))]
           T == {TRUE}
<1>2. b[0] \in T
  <2>1. 0 \in 0 .. Rank(e) - k /\ k + 0 = k
    BY <1>1
  <2> QED
    BY <2>1
<1>3. ASSUME NEW n \in 1 .. Rank(e) - k, b[n - 1] \in T PROVE b[n] \in T
  <2>1. n - 1 \in 0 .. Rank(e) - k /\ n \in 0 .. Rank(e) - k /\ k + n \in 1 .. Rank(e) /\ k + n - 1 = k + (n - 1)
    BY <1>1
  <2>2. x \in ToSet(Lev(e, k + n - 1))
    BY <1>3, <2>1
  <2>3. Expands(Lev(e, k + n - 1), Lev(e, k + n))
    BY <2>1, LevelStep
  <2>4. x \in ToSet(Lev(e, k + n))
    BY <2>2, <2>3 DEF Expands
  <2> QED
    BY <2>1, <2>4
<1>4. b[Rank(e) - k] \in T
  <2> HIDE DEF b, T
  <2> QED
    BY <1>1, <1>2, <1>3, Inductive
<1>5. x \in ToSet(Taken(e))
  BY <1>1, <1>4, LevelFirst
<1>6. IsOperand(x)
  BY LevelItems
<1>7. x.type \notin {Void, Unknown}
  <2>1. PICK i \in DOMAIN Taken(e) : x = Taken(e)[i]
    BY <1>5 DEF ToSet
  <2>2. ~Valueless(Taken(e))
    BY DEF IsNested, Generated
  <2> QED
    BY <2>1, <2>2 DEF Valueless
<1> QED
  BY <1>5, <1>6, <1>7, OperandTensed

\* A literal has a type of its own.
LEMMA LiteralType ==
  ASSUME NEW x, IsLiteral(x), x.type # Unknown
  PROVE  /\ x.type = TensorOf(ElementOf(x.items[1].type), <<Len(x.items)>> \o x.items[1].type.shape)
         /\ (x.items[1].node = "tensor" => x.items[1].type # Unknown)
         /\ Len(x.items) \in Nat \ {0} /\ x.items[1] \in ToSet(x.items)
         /\ (\A y \in ToSet(x.items) : y.type = x.items[1].type) /\ x.items[1].type.shape \in Seq(Nat)
         /\ x.type.con = "tensor" /\ x.type.elem = ElementOf(x.items[1].type)
         /\ x.type.shape = <<Len(x.items)>> \o x.items[1].type.shape
<1> DEFINE first == x.items[1].type
           found == resolve_tensor(x.items)
           bad == x.items = << >> \/ \E i \in DOMAIN x.items : x.items[i].type # first
           t == TensorOf(ElementOf(first), <<Len(x.items)>> \o first.shape)
           lost == first = Unknown /\ \E i \in DOMAIN x.items : x.items[i].node = "tensor"
<1>1. found = IF bad THEN Failed ELSE Answer(t, lost)
  BY DEF resolve_tensor
<1>2. x.type = found.type /\ (found.reported => found.type = Unknown) /\ x.items \in Seq(ToSet(x.items))
      /\ x.items # << >> /\ \A i \in DOMAIN x.items : x.items[i].type.shape \in Seq(Nat)
  BY DEF IsLiteral
<1> HIDE DEF bad, t, found, lost
<1>3. ~bad /\ ~lost /\ x.type = t
  BY <1>1, <1>2 DEF Failed, Answer
<1>4. Len(x.items) \in Nat \ {0} /\ DOMAIN x.items = 1 .. Len(x.items) /\ 1 \in DOMAIN x.items
  <2>1. \A S : \A z \in Seq(S) : z # << >> => Len(z) \in Nat \ {0} /\ DOMAIN z = 1 .. Len(z) /\ 1 \in DOMAIN z
    OBVIOUS
  <2> QED
    BY <1>2, <2>1
<1>5. x.items[1] \in ToSet(x.items) /\ \A y \in ToSet(x.items) : y.type = first
  BY <1>3, <1>4 DEF ToSet, bad
<1>6. first.shape \in Seq(Nat)
  BY <1>2, <1>4
<1> QED
  BY <1>3, <1>4, <1>5, <1>6 DEF t, lost, TensorOf, Type

\* What is in a literal is of its element type.
LEMMA NestedType ==
  ASSUME NEW e, IsNested(e), NEW k \in 0 .. Rank(e), NEW x \in ToSet(Lev(e, k)), x.node = "tensor",
         x.type.con = "tensor", x.type # Unknown
  PROVE  /\ x.type.shape # << >>
         /\ k # Rank(e) => \A y \in ToSet(x.items) : y.type = TensorOf(x.type.elem, Tail(x.type.shape))
         /\ x.type.shape[1] = Len(x.items) /\ Len(x.items) \in Nat \ {0} /\ ToSet(x.items) # {}
<1> DEFINE first == x.items[1].type
           z == <<Len(x.items)>>
<1>1. IsLiteral(x)
  BY LevelItems
<1>2. /\ x.items[1].node = "tensor" => first # Unknown
      /\ Len(x.items) \in Nat \ {0} /\ x.items[1] \in ToSet(x.items)
      /\ (\A y \in ToSet(x.items) : y.type = first) /\ first.shape \in Seq(Nat)
      /\ x.type.elem = ElementOf(first) /\ x.type.shape = z \o first.shape
  BY <1>1, LiteralType
<1>3. z \in Seq(Nat) /\ Len(z) = 1 /\ z[1] = Len(x.items) /\ z # << >>
  BY <1>2
<1> DEFINE s == x.type.shape
<1> HIDE DEF z
<1>4. s # << >> /\ s[1] = Len(x.items) /\ Tail(s) = first.shape
  <2>3. Joined(Nat, z, first.shape, s)
    BY <1>2, <1>3, ConcatFacts
  <2>4. s \in Seq(Nat) /\ Len(s) = 1 + Len(first.shape) /\ \A d \in 1 .. Len(first.shape) : s[1 + d] = first.shape[d]
    BY <1>3, <2>3 DEF Joined
  <2>2. s # << >> /\ s[1] = Len(x.items)
    <3>1. 1 \in 1 .. 1 /\ Len(<< >>) = 0 /\ \A m \in Nat : 1 + m # 0
      OBVIOUS
    <3>2. s[1] = z[1]
      BY <1>3, <2>3, <3>1 DEF Joined
    <3>3. Len(first.shape) \in Nat
      BY <1>2, SeqFacts
    <3> HIDE DEF s
    <3> QED
      BY <1>3, <2>4, <3>1, <3>2, <3>3
  <2> DEFINE t == Tail(s)
  <2>5. t \in Seq(Nat) /\ Len(t) = Len(s) - 1 /\ \A d \in 1 .. Len(s) - 1 : t[d] = s[d + 1]
    BY <2>2, <2>4, HeadRemoved
  <2>6. t = first.shape
    <3> DEFINE f == first.shape
               m == Len(f)
    <3>1. m \in Nat /\ f \in Seq(Nat)
      BY <1>2, SeqFacts
    <3> HIDE DEF f, t, m
    <3>2. Len(s) - 1 = m /\ \A d \in 1 .. m : 1 + d = d + 1
      BY <2>4, <3>1 DEF f, m
    <3>3. Len(t) = m /\ \A d \in 1 .. m : t[d] = f[d]
      BY <2>4, <2>5, <3>2 DEF f, m
    <3>4. t = f
      BY <2>5, <3>1, <3>3, SeqEqual DEF m
    <3> QED
      BY <3>4 DEF f
  <2> QED
    BY <2>2, <2>6
<1>5. ASSUME k # Rank(e) PROVE first = TensorOf(ElementOf(first), first.shape)
  <2> DEFINE y == x.items[1]
  <2>0. k + 1 \in 1 .. Rank(e) /\ k + 1 - 1 = k /\ k + 1 \in 0 .. Rank(e)
    <3>1. Rank(e) \in Nat
      BY LiteralFound
    <3> QED
      BY <1>5, <3>1
  <2>1. y \in ToSet(Lev(e, k + 1))
    <3>1. Expands(Lev(e, k + 1 - 1), Lev(e, k + 1))
      BY <2>0, LevelStep
    <3>2. Expands(Lev(e, k), Lev(e, k + 1))
      BY <2>0, <3>1
    <3> QED
      BY <1>2, <3>2 DEF Expands
  <2>2. CASE y.node = "tensor"
    <3>1. IsLiteral(y)
      BY <2>0, <2>1, <2>2, LevelItems
    <3>2. y.type # Unknown
      BY <1>2, <2>2
    <3> HIDE DEF y
    <3>3. y.type = TensorOf(ElementOf(y.items[1].type), <<Len(y.items)>> \o y.items[1].type.shape)
      BY <3>1, <3>2, LiteralType
    <3>4. y.type = TensorOf(ElementOf(y.type), y.type.shape)
      BY <3>3 DEF TensorOf, Type, ElementOf, IsTensor
    <3> QED
      BY <3>4 DEF y
  <2>3. CASE y.node # "tensor"
    <3>1. Tensed(y)
      BY <2>0, <2>1, <2>3, Persisting
    <3> HIDE DEF y
    <3>2. y.type = TensorOf(ElementOf(y.type), y.type.shape)
      BY <3>1 DEF TensorOf, Type, ElementOf, IsTensor, Tensed
    <3> QED
      BY <3>2 DEF y
  <2> QED
    BY <2>2, <2>3
<1> QED
  BY <1>2, <1>4, <1>5

-----------------------------------------------------------------------------
(* Literals: the type of every element of a level. *)

\* The first element is a tensor or a scalar.
LEMMA FirstTensor ==
  ASSUME NEW e, IsNested(e)
  PROVE  Ty(e) = TensorOf(Ty(e).elem, Ty(e).shape) /\ Ty(e).con = "tensor"
<1> DEFINE x == e.args[1]
<1>1. 0 \in 0 .. Rank(e) /\ x \in ToSet(Lev(e, 0)) /\ x.type = Ty(e) /\ x.type # Unknown
  <2>1. Rank(e) \in Nat
    BY LiteralFound
  <2>2. 0 \in 0 .. Rank(e)
    BY <2>1
  <2> QED
    BY <2>2, LiteralFound, LevelFirst DEF Ty
<1> HIDE DEF x
<1>2. CASE x.node = "tensor"
  <2>1. IsLiteral(x)
    BY <1>1, <1>2, LevelItems
  <2> QED
    BY <1>1, <2>1, LiteralType DEF TensorOf, Type
<1>3. CASE x.node # "tensor"
  <2>1. Tensed(x)
    BY <1>1, <1>3, Persisting
  <2> QED
    BY <1>1, <2>1 DEF Tensed, TensorOf, Type
<1> QED
  BY <1>2, <1>3

\* The shape a at level j of the type t of rank n.
AtIs(t, n, j, a) ==
  /\ a = At(t, j).shape /\ a = SubSeq(t.shape, j + 1, n) /\ a \in Seq(Nat) /\ Len(a) = n - j
  /\ (\A d \in 1 .. n - j : a[d] = t.shape[j + d]) /\ (a # << >> <=> j # n)

\* It is the rest of the shape.
LEMMA AtFacts ==
  ASSUME NEW t, t.shape \in Seq(Nat), NEW n, n = Len(t.shape), NEW j \in 0 .. n
  PROVE  /\ At(t, j).con = "tensor" /\ At(t, j).elem = t.elem /\ At(t, j) # Unknown
         /\ AtIs(t, n, j, At(t, j).shape) /\ n \in Nat
<1>1. n \in Nat
  BY SeqFacts
<1>2. At(t, j).con = "tensor" /\ At(t, j).elem = t.elem /\ At(t, j) # Unknown
      /\ At(t, j).shape = SubSeq(t.shape, j + 1, n)
  BY DEF At, TensorOf, Type, Unknown
<1>3. j + 1 \in 1 .. n + 1 /\ n - (j + 1) + 1 = n - j /\ \A d \in 1 .. n - j : j + 1 + d - 1 = j + d
  BY <1>1
<1> DEFINE s == SubSeq(t.shape, j + 1, n)
<1>4. s \in Seq(Nat) /\ Len(s) = n - j /\ \A d \in 1 .. n - j : s[d] = t.shape[j + d]
  <2> DEFINE l == Len(t.shape)
             k == j + 1
  <2>1. k \in 1 .. l + 1
    BY <1>3
  <2>2. /\ SubSeq(t.shape, k, l) \in Seq(Nat) /\ Len(SubSeq(t.shape, k, l)) = l - k + 1
        /\ \A d \in 1 .. l - k + 1 : SubSeq(t.shape, k, l)[d] = t.shape[k + d - 1]
    BY <2>1, SuffixFacts
  <2>3. s = SubSeq(t.shape, k, l) /\ l - k + 1 = n - j
    BY <1>3
  <2> HIDE DEF l, s
  <2> QED
    BY <1>3, <2>2, <2>3
<1> HIDE DEF s
<1>5. s # << >> <=> j # n
  <2>1. s # << >> <=> Len(s) # 0
    BY <1>4
  <2> QED
    BY <1>1, <1>4, <2>1
<1>6. AtIs(t, n, j, s)
  <2>1. s = At(t, j).shape /\ s = SubSeq(t.shape, j + 1, n)
    BY <1>2 DEF s
  <2> QED
    BY <1>4, <1>5, <2>1 DEF AtIs
<1>7. s = At(t, j).shape
  BY <1>2 DEF s
<1> QED
  BY <1>1, <1>2, <1>6, <1>7

\* At the first level it is the type itself.
LEMMA AtFirst ==
  ASSUME NEW t, t.shape \in Seq(Nat), t = TensorOf(t.elem, t.shape)
  PROVE  At(t, 0) = t
<1>1. SubSeq(t.shape, 0 + 1, Len(t.shape)) = t.shape
  BY DEF At
<1> QED
  BY <1>1 DEF At

\* A level further it lacks one dimension.
LEMMA AtNext ==
  ASSUME NEW t, t.shape \in Seq(Nat), NEW n, n = Len(t.shape), NEW j \in 0 .. n, j # n
  PROVE  TensorOf(t.elem, Tail(At(t, j).shape)) = At(t, j + 1) /\ At(t, j).shape[1] = t.shape[j + 1]
<1> DEFINE a == At(t, j).shape
           b == At(t, j + 1).shape
<1>0. n \in Nat
  BY SeqFacts
<1>1. a \in Seq(Nat) /\ Len(a) = n - j /\ (\A d \in 1 .. n - j : a[d] = t.shape[j + d]) /\ a # << >>
  <2>1. AtIs(t, n, j, a)
    BY AtFacts
  <2> HIDE DEF a
  <2> QED
    BY <2>1 DEF AtIs
<1>2. j + 1 \in 0 .. n /\ n - (j + 1) = n - j - 1
  BY <1>0
<1>3. b \in Seq(Nat) /\ Len(b) = n - j - 1 /\ (\A d \in 1 .. n - j - 1 : b[d] = t.shape[j + 1 + d])
      /\ b = SubSeq(t.shape, j + 1 + 1, n)
  <2>1. AtIs(t, n, j + 1, b)
    BY <1>2, AtFacts
  <2> HIDE DEF b
  <2> QED
    BY <1>2, <2>1 DEF AtIs
<1> HIDE DEF a, b
<1> DEFINE c == Tail(a)
<1>4. c \in Seq(Nat) /\ Len(c) = Len(a) - 1 /\ \A d \in 1 .. Len(a) - 1 : c[d] = a[d + 1]
  BY <1>1, HeadRemoved
<1> HIDE DEF c
<1>5. Len(c) = Len(b) /\ \A d \in 1 .. Len(c) : c[d] = b[d]
  <2>1. Len(a) - 1 = n - j - 1 /\ \A d \in 1 .. n - j - 1 : d + 1 \in 1 .. n - j /\ j + (d + 1) = j + 1 + d
    BY <1>0, <1>1
  <2> QED
    BY <1>1, <1>3, <1>4, <2>1
<1>6. c = b
  BY <1>3, <1>4, <1>5, SeqEqual
<1>7. 1 \in 1 .. n - j
  BY <1>0
<1> QED
  BY <1>1, <1>3, <1>6, <1>7 DEF a, b, c, At

\* The types on a level: that of as many literals around it, or of fewer.
Typed(e, k) ==
  \A x \in ToSet(Lev(e, k)) :
    /\ \E j \in 0 .. k : x.type = At(Ty(e), j)
    /\ x.node = "tensor" => x.type = At(Ty(e), k)

\* A literal at level k that has the type expected there has elements of the type expected a
\* level further.
LEMMA NestedAt ==
  ASSUME NEW e, IsNested(e), NEW k \in 0 .. Rank(e), NEW x \in ToSet(Lev(e, k)), x.node = "tensor",
         x.type = At(Ty(e), k)
  PROVE  /\ k # Rank(e) /\ \A y \in ToSet(x.items) : y.type = At(Ty(e), k + 1)
         /\ Ty(e).shape[k + 1] = Len(x.items) /\ Len(x.items) \in Nat \ {0} /\ ToSet(x.items) # {}
<1> DEFINE t == Ty(e)
           n == Rank(e)
<1>1. t.shape \in Seq(Nat) /\ n = Len(t.shape)
  BY LiteralFound DEF Rank
<1> HIDE DEF t, n
<1>2. x.type.con = "tensor" /\ x.type # Unknown /\ x.type.elem = t.elem
      /\ (x.type.shape # << >> <=> k # n)
  <2>1. At(t, k).con = "tensor" /\ At(t, k) # Unknown /\ At(t, k).elem = t.elem
        /\ AtIs(t, n, k, At(t, k).shape)
    BY <1>1, AtFacts DEF n
  <2> QED
    BY <2>1 DEF AtIs, t
<1>3. /\ x.type.shape # << >>
      /\ k # n => \A y \in ToSet(x.items) : y.type = TensorOf(x.type.elem, Tail(x.type.shape))
      /\ x.type.shape[1] = Len(x.items) /\ Len(x.items) \in Nat \ {0} /\ ToSet(x.items) # {}
  BY <1>2, NestedType DEF n
<1>4. k # n
  BY <1>2, <1>3
<1>5. TensorOf(t.elem, Tail(At(t, k).shape)) = At(t, k + 1) /\ At(t, k).shape[1] = t.shape[k + 1]
  BY <1>1, <1>4, AtNext DEF n
<1> QED
  BY <1>2, <1>3, <1>4, <1>5 DEF t, n

\* So the elements of every level have the expected type or that of an earlier level, where
\* they were tensors.
LEMMA LevelTyped ==
  ASSUME NEW e, IsNested(e)
  PROVE  \A k \in 0 .. Rank(e) : Typed(e, k)
<1> DEFINE n == Rank(e)
           b == [k \in 0 .. n |-> Typed(e, k)]
           T == {TRUE}
<1>1. n \in Nat /\ 0 \in 0 .. n
  <2>1. n \in Nat
    BY LiteralFound
  <2> QED
    BY <2>1
<1>2. b[0] \in T
  <2>1. Ty(e).shape \in Seq(Nat) /\ Ty(e) = TensorOf(Ty(e).elem, Ty(e).shape)
    BY LiteralFound, FirstTensor
  <2>2. At(Ty(e), 0) = Ty(e)
    BY <2>1, AtFirst
  <2>3. \A x \in ToSet(Lev(e, 0)) : x.type = Ty(e)
    BY LiteralFound, LevelFirst
  <2>4. 0 \in 0 .. 0
    OBVIOUS
  <2>5. Typed(e, 0)
    BY <2>2, <2>3, <2>4 DEF Typed
  <2> QED
    BY <1>1, <2>5
<1>3. ASSUME NEW k \in 1 .. n, b[k - 1] \in T PROVE b[k] \in T
  <2>1. k - 1 \in 0 .. n /\ k \in 0 .. n /\ k \in 0 .. k /\ (\A j \in 0 .. k - 1 : j \in 0 .. k) /\ k - 1 + 1 = k
    BY <1>1
  <2>2. Typed(e, k - 1)
    BY <1>3, <2>1
  <2>3. Expands(Lev(e, k - 1), Lev(e, k))
    BY LevelStep
  <2>4. ASSUME NEW y \in ToSet(Lev(e, k))
        PROVE  /\ \E j \in 0 .. k : y.type = At(Ty(e), j)
               /\ y.node = "tensor" => y.type = At(Ty(e), k)
    <3>1. CASE y \in ToSet(Lev(e, k - 1)) /\ y.node # "tensor"
      BY <2>1, <2>2, <3>1 DEF Typed
    <3>2. ASSUME NEW x \in ToSet(Lev(e, k - 1)), x.node = "tensor", y \in ToSet(x.items)
          PROVE  y.type = At(Ty(e), k)
      <4>1. x.type = At(Ty(e), k - 1)
        BY <2>2, <3>2 DEF Typed
      <4>2. \A z \in ToSet(x.items) : z.type = At(Ty(e), k - 1 + 1)
        BY <2>1, <3>2, <4>1, NestedAt
      <4> QED
        BY <2>1, <3>2, <4>2
    <3>3. (\E x \in ToSet(Lev(e, k - 1)) : x.node = "tensor" /\ y \in ToSet(x.items))
            \/ (y \in ToSet(Lev(e, k - 1)) /\ y.node # "tensor")
      BY <2>3 DEF Expands
    <3> QED
      BY <2>1, <3>1, <3>2, <3>3
  <2>5. Typed(e, k)
    BY <2>4 DEF Typed
  <2> QED
    BY <2>1, <2>5
<1>4. \A k \in 0 .. n : b[k] \in T
  <2> HIDE DEF b, T
  <2> QED
    BY <1>1, <1>2, <1>3, Inductive
<1> QED
  BY <1>4

\* A level has an item of what is below each on the level before.
LEMMA Descends ==
  ASSUME NEW e, IsNested(e), NEW m \in 0 .. Rank(e),
         \E x \in ToSet(Lev(e, m)) : \E j \in m .. Rank(e) : x.type = At(Ty(e), j)
  PROVE  \E x \in ToSet(Taken(e)) : \E j \in m .. Rank(e) : x.type = At(Ty(e), j)
<1> DEFINE n == Rank(e)
           Has(k) == \E x \in ToSet(Lev(e, k)) : \E j \in m .. n : x.type = At(Ty(e), j)
           b == [i \in 0 .. n - m |-> Has(m + i)]
           T == {TRUE}
<1>1. n \in Nat /\ n - m \in Nat /\ m + 0 = m /\ m + (n - m) = n /\ 0 \in 0 .. n - m /\ n - m \in 0 .. n - m
  <2>1. n \in Nat
    BY LiteralFound
  <2> QED
    BY <2>1
<1>2. b[0] \in T
  BY <1>1
<1> HIDE DEF Has, n
<1>3. ASSUME NEW i \in 1 .. n - m, b[i - 1] \in T PROVE b[i] \in T
  <2> DEFINE k == m + (i - 1)
  <2>1. k \in 0 .. n /\ k \in m .. n /\ k # n /\ k + 1 = m + i /\ i - 1 \in 0 .. n - m /\ i \in 0 .. n - m
        /\ k + 1 \in 1 .. n /\ k + 1 - 1 = k /\ k + 1 \in m .. n
    BY <1>1
  <2>2. Has(k)
    BY <1>3, <2>1
  <2> HIDE DEF k
  <2>3. PICK x \in ToSet(Lev(e, k)) : \E j \in m .. n : x.type = At(Ty(e), j)
    BY <2>2 DEF Has
  <2>4. Expands(Lev(e, k), Lev(e, k + 1))
    <3>1. Expands(Lev(e, k + 1 - 1), Lev(e, k + 1))
      BY <2>1, LevelStep DEF n
    <3> QED
      BY <2>1, <3>1
  <2>5. CASE x.node # "tensor"
    <3>1. x \in ToSet(Lev(e, k + 1))
      BY <2>4, <2>5 DEF Expands
    <3>2. Has(k + 1)
      BY <2>3, <3>1 DEF Has
    <3> QED
      BY <2>1, <3>2
  <2>6. CASE x.node = "tensor"
    <3>1. x.type = At(Ty(e), k)
      BY <2>1, <2>6, LevelTyped DEF Typed, n
    <3>2. (\A y \in ToSet(x.items) : y.type = At(Ty(e), k + 1)) /\ ToSet(x.items) # {}
      BY <2>1, <2>6, <3>1, NestedAt DEF n
    <3>3. PICK y \in ToSet(x.items) : y.type = At(Ty(e), k + 1)
      BY <3>2
    <3>4. y \in ToSet(Lev(e, k + 1))
      BY <2>4, <2>6 DEF Expands
    <3>5. Has(k + 1)
      BY <2>1, <3>3, <3>4 DEF Has
    <3> QED
      BY <2>1, <3>5
  <2> QED
    BY <2>5, <2>6
<1>4. b[n - m] \in T
  <2> HIDE DEF b, T
  <2> QED
    BY <1>1, <1>2, <1>3, Inductive
<1>5. Has(n)
  BY <1>1, <1>4
<1> QED
  BY <1>5, LevelFirst DEF Has, n

\* After as many levels as the first argument has dimensions no literal is left: to open that
\* many is to open all of them, as codegen::flatten_tensor does.
LEMMA AllOpened ==
  ASSUME NEW e, IsNested(e)
  PROVE  \A x \in ToSet(Taken(e)) : x.node # "tensor"
<1> SUFFICES ASSUME NEW x \in ToSet(Taken(e)), x.node = "tensor" PROVE FALSE
  OBVIOUS
<1>1. Rank(e) \in 0 .. Rank(e)
  <2>1. Rank(e) \in Nat
    BY LiteralFound
  <2> QED
    BY <2>1
<1>2. x \in ToSet(Lev(e, Rank(e)))
  BY LevelFirst
<1>3. x.type = At(Ty(e), Rank(e))
  BY <1>1, <1>2, LevelTyped DEF Typed
<1> QED
  BY <1>1, <1>2, <1>3, NestedAt

\* The operands.
LEMMA TakenTyped ==
  ASSUME NEW e, IsNested(e)
  PROVE  /\ Len(Taken(e)) \in Nat \ {0} /\ Len(Taken(e)) < Half /\ DOMAIN Taken(e) = 1 .. Len(Taken(e))
         /\ \A i \in 1 .. Len(Taken(e)) :
              /\ Tensed(Taken(e)[i]) /\ Taken(e)[i] \in ToSet(Taken(e))
              /\ \E j \in 0 .. Rank(e) : Taken(e)[i].type = At(Ty(e), j)
<1> DEFINE n == Rank(e)
           a == Taken(e)
<1>1. n \in Nat /\ 0 \in 0 .. n /\ n \in 0 .. n
  <2>1. n \in Nat
    BY LiteralFound
  <2> QED
    BY <2>1
<1>2. a \in Seq(ToSet(a)) /\ Len(a) < Half
  BY <1>1, LevelItems, LevelFirst
<1>3. \A x \in ToSet(a) : \E j \in 0 .. n : x.type = At(Ty(e), j)
  BY <1>1, LevelTyped, LevelFirst DEF Typed
<1>4. ASSUME NEW x \in ToSet(a) PROVE Tensed(x)
  <2>1. x \in ToSet(Lev(e, n))
    BY LevelFirst
  <2>2. x.node # "tensor"
    BY AllOpened
  <2> QED
    BY <1>1, <2>1, <2>2, Persisting
<1>5. ToSet(a) # {}
  <2>1. Typed(e, 0) /\ Lev(e, 0) = e.args /\ e.args[1] \in ToSet(e.args)
    BY <1>1, LevelTyped, LevelFirst, LiteralFound
  <2>2. \E j \in 0 .. 0 : e.args[1].type = At(Ty(e), j)
    BY <2>1 DEF Typed
  <2>3. \E x \in ToSet(Lev(e, 0)) : \E j \in 0 .. Rank(e) : x.type = At(Ty(e), j)
    <3>1. \A j \in 0 .. 0 : j \in 0 .. Rank(e)
      BY <1>1
    <3> QED
      BY <2>1, <2>2, <3>1
  <2>4. 0 \in 0 .. Rank(e)
    BY <1>1
  <2>5. \E x \in ToSet(Taken(e)) : \E j \in 0 .. Rank(e) : x.type = At(Ty(e), j)
    BY <2>3, <2>4, Descends
  <2> QED
    BY <2>5
<1> HIDE DEF a
<1>6. Len(a) \in Nat /\ DOMAIN a = 1 .. Len(a) /\ \A i \in 1 .. Len(a) : a[i] \in ToSet(a)
  BY <1>2, SeqFacts
<1>7. Len(a) # 0
  <2>1. PICK x \in ToSet(a) : TRUE
    BY <1>5
  <2>2. \E i \in DOMAIN a : x = a[i]
    BY <2>1 DEF ToSet
  <2> QED
    BY <1>6, <2>2
<1> QED
  BY <1>2, <1>3, <1>4, <1>6, <1>7 DEF a

-----------------------------------------------------------------------------
(* Literals: a level is all literals or all tensors. *)

\* All operands have j literals around them.
Uniform(e, j) == \A x \in ToSet(Taken(e)) : x.type = At(Ty(e), j)

\* The expected types of two levels differ.
LEMMA AtApart ==
  ASSUME NEW e, IsNested(e), NEW i \in 0 .. Rank(e), NEW j \in 0 .. Rank(e), At(Ty(e), i) = At(Ty(e), j)
  PROVE  i = j
<1> DEFINE n == Rank(e)
           t == Ty(e)
           a == At(t, i).shape
           b == At(t, j).shape
<1>1. t.shape \in Seq(Nat) /\ n = Len(t.shape) /\ n \in Nat
  BY LiteralFound DEF Rank
<1> HIDE DEF n, t
<1>2. AtIs(t, n, i, a) /\ AtIs(t, n, j, b)
  BY <1>1, AtFacts DEF n
<1>3. a = b
  BY DEF t
<1> HIDE DEF a, b
<1>4. Len(a) = n - i /\ Len(b) = n - j
  BY <1>2 DEF AtIs
<1>5. i \in Nat /\ j \in Nat /\ n - i = n - j
  BY <1>3, <1>4
<1> QED
  BY <1>1, <1>5

\* Above them there are only literals, of one length.
LEMMA AboveUniform ==
  ASSUME NEW e, IsNested(e), NEW j \in 0 .. Rank(e), Uniform(e, j), NEW k \in 0 .. Rank(e), k < j
  PROVE  Len(Lev(e, k + 1)) = Len(Lev(e, k)) * Ty(e).shape[k + 1]
<1> DEFINE n == Rank(e)
           c == Ty(e).shape[k + 1]
<1>1. n \in Nat /\ k + 1 \in 1 .. n /\ k + 1 - 1 = k /\ k \in Nat /\ \A i \in 0 .. k : i \in 0 .. n /\ i # j
  <2>1. n \in Nat
    BY LiteralFound
  <2> QED
    BY <2>1
<1>2. c \in Nat
  <2>1. Ty(e).shape \in Seq(Nat) /\ n = Len(Ty(e).shape)
    BY LiteralFound DEF Rank
  <2> HIDE DEF n
  <2> QED
    BY <1>1, <2>1, SeqFacts
<1>3. ASSUME NEW x \in ToSet(Lev(e, k)) PROVE x.node = "tensor" /\ Len(x.items) = c
  <2>1. /\ \E i \in 0 .. k : x.type = At(Ty(e), i)
        /\ x.node = "tensor" => x.type = At(Ty(e), k)
    BY LevelTyped DEF Typed
  <2>2. x.node = "tensor"
    <3> SUFFICES ASSUME x.node # "tensor" PROVE FALSE
      OBVIOUS
    <3>1. x \in ToSet(Taken(e))
      BY Persisting
    <3>2. x.type = At(Ty(e), j)
      BY <3>1 DEF Uniform
    <3> QED
      BY <1>1, <2>1, <3>2, AtApart
  <2> QED
    BY <2>1, <2>2, NestedAt
<1>4. Expands(Lev(e, k), Lev(e, k + 1))
  <2>1. Expands(Lev(e, k + 1 - 1), Lev(e, k + 1))
    BY <1>1, LevelStep
  <2> QED
    BY <1>1, <2>1
<1> HIDE DEF c
<1>5. Len(Lev(e, k + 1)) = Len(Lev(e, k)) * c
  BY <1>2, <1>3, <1>4 DEF Expands
<1> QED
  BY <1>5 DEF c

\* From there on there are none.
LEMMA BelowUniform ==
  ASSUME NEW e, IsNested(e), NEW j \in 0 .. Rank(e), Uniform(e, j), NEW k \in j .. Rank(e), k # Rank(e)
  PROVE  Len(Lev(e, k + 1)) = Len(Lev(e, k))
<1> DEFINE n == Rank(e)
<1>1. n \in Nat /\ k + 1 \in 1 .. n /\ k + 1 - 1 = k /\ k \in 0 .. n /\ k + 1 \in 0 .. n /\ k + 1 \in k + 1 .. n
      /\ \A i \in k + 1 .. n : i \in 0 .. n /\ i # j
  <2>1. n \in Nat
    BY LiteralFound
  <2> QED
    BY <2>1
<1>2. Expands(Lev(e, k), Lev(e, k + 1))
  <2>1. Expands(Lev(e, k + 1 - 1), Lev(e, k + 1))
    BY <1>1, LevelStep
  <2> QED
    BY <1>1, <2>1
<1>3. ASSUME NEW x \in ToSet(Lev(e, k)), x.node = "tensor" PROVE FALSE
  <2>1. x.type = At(Ty(e), k)
    BY <1>1, <1>3, LevelTyped DEF Typed
  <2>2. (\A y \in ToSet(x.items) : y.type = At(Ty(e), k + 1)) /\ ToSet(x.items) # {}
    BY <1>1, <1>3, <2>1, NestedAt
  <2>3. PICK y \in ToSet(x.items) : y.type = At(Ty(e), k + 1)
    BY <2>2
  <2>4. y \in ToSet(Lev(e, k + 1))
    BY <1>2, <1>3 DEF Expands
  <2> DEFINE m == k + 1
  <2>5. m \in 0 .. n /\ m \in m .. n
    BY <1>1
  <2>6. \E z \in ToSet(Lev(e, m)) : \E i \in m .. n : z.type = At(Ty(e), i)
    BY <2>3, <2>4, <2>5
  <2> HIDE DEF m
  <2>7. PICK z \in ToSet(Taken(e)) : \E i \in m .. n : z.type = At(Ty(e), i)
    BY <2>5, <2>6, Descends
  <2>8. PICK i \in m .. n : z.type = At(Ty(e), i)
    BY <2>7
  <2>9. z.type = At(Ty(e), j) /\ i \in 0 .. n /\ i # j
    BY <1>1, <2>7, <2>8 DEF Uniform, m
  <2> QED
    BY <2>8, <2>9, AtApart
<1> QED
  BY <1>2, <1>3 DEF Expands

\* If all elements of a level are tensors, they are the operands.
LEMMA TakenLength ==
  ASSUME NEW e, IsNested(e), NEW j \in 0 .. Rank(e), Uniform(e, j)
  PROVE  Len(Taken(e)) = Len(Lev(e, j))
<1> DEFINE n == Rank(e)
           b == [i \in 0 .. n - j |-> Len(Lev(e, j + i))]
           T == {Len(Lev(e, j))}
<1>1. n \in Nat /\ n - j \in Nat /\ j + 0 = j /\ j + (n - j) = n /\ 0 \in 0 .. n - j /\ n - j \in 0 .. n - j
  <2>1. n \in Nat
    BY LiteralFound
  <2> QED
    BY <2>1
<1>2. b[0] \in T
  BY <1>1
<1> HIDE DEF n
<1>3. ASSUME NEW i \in 1 .. n - j, b[i - 1] \in T PROVE b[i] \in T
  <2> DEFINE k == j + (i - 1)
  <2>1. k \in j .. n /\ k # n /\ k + 1 = j + i /\ i - 1 \in 0 .. n - j /\ i \in 0 .. n - j
    BY <1>1
  <2>2. Len(Lev(e, k)) = Len(Lev(e, j))
    BY <1>3, <2>1
  <2> HIDE DEF k
  <2>3. Len(Lev(e, k + 1)) = Len(Lev(e, k))
    BY <2>1, BelowUniform DEF n
  <2>4. b[i] = Len(Lev(e, k + 1))
    BY <2>1
  <2> QED
    BY <2>2, <2>3, <2>4
<1>4. b[n - j] \in T
  <2> HIDE DEF b, T
  <2> QED
    BY <1>1, <1>2, <1>3, Inductive
<1>5. b[n - j] = Len(Lev(e, n))
  BY <1>1
<1> QED
  BY <1>4, <1>5, LevelFirst DEF n

\* The shape of a literal.
Full(e) == <<Len(e.args)>> \o Ty(e).shape

\* The full shape: as many as there are arguments, then the dimensions of the first.
FullIs(e, f, n) ==
  /\ f \in Seq(Nat) /\ Len(f) = n + 1 /\ f[1] = Len(e.args)
  /\ \A d \in 1 .. n : f[d + 1] = Ty(e).shape[d]
LEMMA FullFacts ==
  ASSUME NEW e, IsNested(e)
  PROVE  FullIs(e, Full(e), Rank(e))
<1> DEFINE x == <<Len(e.args)>>
           t == Ty(e).shape
           f == x \o t
           n == Len(t)
<1>1. x \in Seq(Nat) /\ Len(x) = 1 /\ x[1] = Len(e.args) /\ t \in Seq(Nat) /\ n \in Nat
  <2>1. Len(e.args) \in Nat /\ t \in Seq(Nat)
    BY LiteralFound
  <2> QED
    BY <2>1, SeqFacts
<1>2. Joined(Nat, x, t, f)
  BY <1>1, ConcatFacts
<1>3. n = Rank(e) /\ f = Full(e) /\ t = Ty(e).shape
  BY DEF Rank, Full
<1> HIDE DEF x, f, t
<1>4. f \in Seq(Nat) /\ Len(f) = 1 + n /\ (\A d \in 1 .. 1 : f[d] = x[d]) /\ \A d \in 1 .. n : f[1 + d] = t[d]
  BY <1>1, <1>2 DEF Joined
<1> HIDE DEF n
<1>5. 1 + n = n + 1 /\ 1 \in 1 .. 1 /\ \A d \in 1 .. n : 1 + d = d + 1
  BY <1>1
<1>6. FullIs(e, f, n)
  BY <1>1, <1>3, <1>4, <1>5 DEF FullIs
<1> QED
  BY <1>3, <1>6

\* There are as many as there are places.
LEMMA TargetCount ==
  ASSUME NEW e, IsNested(e), NEW j \in 0 .. Rank(e), Uniform(e, j)
  PROVE  Count(SubSeq(Full(e), 1, j + 1)) = Len(Taken(e))
<1> DEFINE n == Rank(e)
           f == Full(e)
<1>1. n \in Nat
  BY LiteralFound
<1>2. FullIs(e, f, n)
  BY FullFacts
<1> HIDE DEF n, f
<1>3. f \in Seq(Nat) /\ Len(f) = n + 1 /\ f[1] = Len(e.args) /\ \A d \in 1 .. n : f[d + 1] = Ty(e).shape[d]
  BY <1>2 DEF FullIs
<1>4. PICK c \in [0 .. Len(f) -> Int] :
        /\ c[0] = 1 /\ \A i \in 1 .. Len(f) : c[i] = c[i - 1] * f[i]
        /\ Count(f) = c[Len(f)]
  BY <1>3, NatInt, CountEquation
<1>5. Count(SubSeq(f, 1, j + 1)) = c[j + 1]
  <2>1. j + 1 \in 0 .. Len(f)
    BY <1>1, <1>3 DEF n
  <2>2. f \in Seq(Int)
    BY <1>3, NatInt
  <2> QED
    BY <1>4, <2>1, <2>2, CountPrefix
<1> DEFINE b == [k \in 0 .. j |-> c[k + 1] = Len(Lev(e, k))]
           T == {TRUE}
<1>6. j \in Nat /\ (\A k \in 0 .. j : k + 1 \in 1 .. Len(f)) /\ 0 \in 0 .. j /\ j \in 0 .. j
      /\ \A k \in 1 .. j : k - 1 \in 0 .. j /\ k - 1 \in 0 .. n /\ k - 1 < j /\ k - 1 + 1 = k /\ k \in 0 .. j
                           /\ k + 1 - 1 = k /\ k \in 1 .. n /\ k \in 0 .. n
  <2>1. j \in 0 .. n
    BY DEF n
  <2> QED
    BY <1>1, <1>3, <2>1
<1>7. b[0] \in T
  <2>1. c[1] = c[0] * f[1]
    <3>1. 0 + 1 \in 1 .. Len(f) /\ 0 + 1 = 1 /\ 1 - 1 = 0
      BY <1>6
    <3> QED
      BY <1>4, <3>1
  <2>2. Len(e.args) \in Nat
    BY LiteralFound
  <2>3. c[1] = Len(e.args)
    BY <1>3, <1>4, <2>1, <2>2
  <2>4. Len(Lev(e, 0)) = Len(e.args)
    BY LevelFirst
  <2>5. 0 + 1 = 1
    OBVIOUS
  <2> QED
    BY <1>6, <2>3, <2>4, <2>5
<1>8. ASSUME NEW k \in 1 .. j, b[k - 1] \in T PROVE b[k] \in T
  <2>1. c[k] = Len(Lev(e, k - 1))
    BY <1>6, <1>8
  <2>2. c[k + 1] = c[k] * f[k + 1] /\ f[k + 1] = Ty(e).shape[k]
    BY <1>3, <1>4, <1>6
  <2>3. Len(Lev(e, k)) = Len(Lev(e, k - 1)) * Ty(e).shape[k]
    <3> DEFINE m == k - 1
    <3>1. m \in 0 .. n /\ m < j /\ m + 1 = k
      BY <1>6
    <3> HIDE DEF m
    <3>2. Len(Lev(e, m + 1)) = Len(Lev(e, m)) * Ty(e).shape[m + 1]
      BY <3>1, AboveUniform DEF n
    <3> QED
      BY <3>1, <3>2 DEF m
  <2>4. c[k + 1] = Len(Lev(e, k))
    BY <2>1, <2>2, <2>3
  <2> QED
    BY <1>6, <2>4
<1>9. b[j] \in T
  <2>1. \A k \in 0 .. j : b[k] \in T
    <3> HIDE DEF b, T
    <3> QED
      BY <1>6, <1>7, <1>8, Inductive
  <2> QED
    BY <1>6, <2>1
<1>10. c[j + 1] = Len(Lev(e, j))
  BY <1>6, <1>9
<1>11. Len(Taken(e)) = Len(Lev(e, j))
  BY TakenLength
<1> QED
  BY <1>5, <1>10, <1>11 DEF f

-----------------------------------------------------------------------------
(* elements *)

\* Scalars in a row, reshaped, make a kernel in bounds.
LEMMA ElementsSound ==
  ASSUME NEW o, o.type.shape \in Seq(Nat), Len(o.args) = Count(o.type.shape), Len(o.args) \in Nat
  PROVE  Sound(lowering_elements(o), o.type)
<1> DEFINE f == o.type.shape
           n == Len(o.args)
           s == <<n>>
           row == Tensor(o.type.elem, <<Len(o.args)>>,
                    [p \in Points(<<Len(o.args)>>) |-> Element(o.args[p[1] + 1], << >>)])
           points == Points(f)
           k == Kernel(f, Parallel(Len(f)), <<row>>,
                       [p \in points |-> <<<<1, Point(s, Offset(f, p))>>>>],
                       [p \in points |-> p], o.type, Garbage, "copy")
<1>1. row.shape = s
  BY DEF Tensor
<1>2. lowering_elements(o) = <<k>>
  <2>1. lowering_elements(o) = <<Reshape(row, o.type)>>
    BY DEF lowering_elements
  <2> HIDE DEF row, s, f
  <2>2. Reshape(row, o.type) = k
    BY <1>1 DEF Reshape, Copy, f
  <2> QED
    BY <2>1, <2>2
<1> HIDE DEF row
<1>3. k.dom = f /\ k.type = o.type /\ k.ins = <<row>> /\ k.writes = [p \in points |-> p]
      /\ k.reads = [p \in points |-> <<<<1, Point(s, Offset(f, p))>>>>]
  BY DEF Kernel
<1> HIDE DEF k
<1>4. s \in Seq(Nat) /\ Count(s) = n
  <2>1. s \in Seq(Nat) /\ s \in Seq(Int) /\ Len(s) = 1 /\ s[1] = n
    OBVIOUS
  <2> HIDE DEF s, n
  <2>2. PICK c \in [0 .. Len(s) -> Int] :
          /\ c[0] = 1 /\ \A d \in 1 .. Len(s) : c[d] = c[d - 1] * s[d]
          /\ Count(s) = c[Len(s)]
    BY <2>1, CountEquation
  <2>3. c[1] = c[1 - 1] * s[1] /\ 1 - 1 = 0 /\ Count(s) = c[1]
    BY <2>1, <2>2
  <2>4. 1 * n = n
    BY DEF n
  <2> QED
    BY <2>1, <2>2, <2>3, <2>4
<1>5. ASSUME NEW p \in Points(k.dom), NEW r \in ToSet(k.reads[p])
      PROVE  r[2] \in Points(k.ins[r[1]].shape)
  <2> DEFINE q == Point(s, Offset(f, p))
  <2>1. k.reads[p] = <<<<1, q>>>> /\ p \in Points(f)
    BY <1>3
  <2>2. r = <<1, q>>
    BY <2>1 DEF ToSet
  <2>3. Offset(f, p) \in 0 .. Count(f) - 1
    BY <2>1, OffsetInside
  <2> HIDE DEF s, n
  <2>4. Offset(f, p) \in 0 .. Count(s) - 1
    BY <1>4, <2>3 DEF n
  <2>5. q \in Points(s)
    BY <1>4, <2>4, PointInside
  <2> QED
    BY <1>1, <1>3, <2>2, <2>5
<1>6. Inside(k) /\ Disjoint(k)
  <2>1. k.dom = k.type.shape /\ \A p \in Points(k.dom) : k.writes[p] = p
    BY <1>3
  <2> QED
    BY <1>5, <2>1, CopyGood
<1> QED
  BY <1>2, <1>3, <1>6 DEF Sound

\* The operation that is made, whether its elements are scalars or tensors.
LEMMA LiteralMade ==
  ASSUME NEW e, IsNested(e), NEW j \in 0 .. Rank(e), Taken(e)[1].type = At(Ty(e), j)
  PROVE  /\ Made(e).kind = (IF j = Rank(e) THEN "elements" ELSE "stack")
         /\ Made(e).args = Values(e) /\ Made(e).attr = SubSeq(Full(e), 1, j + 1)
         /\ Made(e).type = TensorOf(Ty(e).elem, Full(e))
         /\ Full(e) = SubSeq(Full(e), 1, j + 1) \o At(Ty(e), j).shape
<1> DEFINE n == Rank(e)
           t == Ty(e)
           f == Full(e)
           v == Values(e)
           inner == At(t, j).shape
           target == SubSeq(f, 1, j + 1)
<1>0. t.shape \in Seq(Nat) /\ n = Len(t.shape) /\ n \in Nat
  BY LiteralFound DEF Rank
<1>1. Found(e).type.shape = f
  <2>1. Found(e).type = TensorOf(ElementOf(t), f)
    BY LiteralFound DEF Full
  <2> HIDE DEF f
  <2> QED
    BY <2>1 DEF TensorOf, Type
<1>2. v[1].shape = inner /\ v[1].elem = t.elem
  <2>1. 1 \in DOMAIN Taken(e) /\ Tensed(Taken(e)[1])
    <3>1. 1 \in 1 .. Len(Taken(e))
      BY TakenTyped
    <3> QED
      BY <3>1, TakenTyped
  <2>2. v[1] = Taken(e)[1].value
    BY <2>1 DEF Values
  <2>3. At(t, j).elem = t.elem
    BY <1>0, AtFacts
  <2> QED
    BY <2>1, <2>2, <2>3 DEF Tensed
<1>3. FullIs(e, f, n) /\ AtIs(t, n, j, inner)
  <2>1. AtIs(t, n, j, inner)
    BY <1>0, AtFacts
  <2> QED
    BY <2>1, FullFacts
<1>4. Made(e) = generate_tensor(v, f)
  BY <1>1, MadeIs DEF Generates, IsNested
<1>5. t = Ty(e) /\ n = Rank(e) /\ f = Full(e)
  OBVIOUS
<1> HIDE DEF n, t, f, v, inner
<1>6. f \in Seq(Nat) /\ Len(f) = n + 1 /\ \A d \in 1 .. n : f[d + 1] = t.shape[d]
  BY <1>3 DEF FullIs, t
<1>7. inner \in Seq(Nat) /\ Len(inner) = n - j /\ (\A d \in 1 .. n - j : inner[d] = t.shape[j + d])
      /\ (inner # << >> <=> j # n)
  BY <1>3 DEF AtIs
<1>70. j \in 0 .. n /\ j \in Nat /\ n \in Nat /\ j <= n
  <2>1. j \in 0 .. n
    BY DEF n
  <2> QED
    BY <1>0, <2>1
<1>8. target \in Seq(Nat) /\ Len(target) = j + 1 /\ \A d \in 1 .. j + 1 : target[d] = f[d]
  <2>1. j + 1 \in 0 .. Len(f)
    BY <1>0, <1>6, <1>70
  <2> QED
    BY <1>6, <2>1, PrefixFacts
<1> HIDE DEF target
<1>9. f = target \o inner
  <2> DEFINE c == target \o inner
  <2>1. Joined(Nat, target, inner, c)
    BY <1>7, <1>8, ConcatFacts
  <2> HIDE DEF c
  <2>2. c \in Seq(Nat) /\ Len(c) = j + 1 + (n - j) /\ (\A d \in 1 .. j + 1 : c[d] = f[d])
        /\ \A d \in 1 .. n - j : c[j + 1 + d] = inner[d]
    BY <1>7, <1>8, <2>1 DEF Joined
  <2>3. j + 1 + (n - j) = n + 1
    BY <1>70
  <2>4. ASSUME NEW d \in 1 .. n + 1 PROVE f[d] = c[d]
    <3>1. CASE d \in 1 .. j + 1
      BY <2>2, <3>1
    <3>2. CASE d \notin 1 .. j + 1
      <4>1. d - 1 \in 1 .. n /\ d - 1 + 1 = d /\ d - j - 1 \in 1 .. n - j /\ j + 1 + (d - j - 1) = d
            /\ j + (d - j - 1) = d - 1
        BY <1>0, <1>70, <3>2
      <4>2. f[d] = t.shape[d - 1]
        BY <1>6, <4>1
      <4>3. c[d] = inner[d - j - 1] /\ inner[d - j - 1] = t.shape[d - 1]
        BY <1>7, <2>2, <4>1
      <4> QED
        BY <4>2, <4>3
    <3> QED
      BY <3>1, <3>2
  <2>5. f = c
    BY <1>6, <2>2, <2>3, <2>4, SeqEqual
  <2> QED
    BY <2>5 DEF c
<1>10. CASE inner = << >>
  <2>1. j = n
    BY <1>7, <1>10
  <2>2. target = f
    <3>1. Len(target) = Len(f) /\ \A d \in 1 .. Len(target) : target[d] = f[d]
      BY <1>6, <1>8, <2>1
    <3> QED
      BY <1>6, <1>8, <3>1, SeqEqual
  <2>3. Made(e) = Op("elements", v, f, TensorOf(t.elem, f))
    BY <1>2, <1>4, <1>10 DEF generate_tensor, elements_build
  <2> QED
    BY <1>5, <1>9, <2>1, <2>2, <2>3 DEF Op, v, t, f, n, target, inner
<1>11. CASE inner # << >>
  <2>1. j # n
    BY <1>7, <1>11
  <2>2. Len(f) - Len(inner) = j + 1
    <3>1. n + 1 - (n - j) = j + 1
      BY <1>70
    <3> DEFINE x == Len(f)
               y == Len(inner)
    <3>2. x = n + 1 /\ y = n - j
      BY <1>6, <1>7
    <3> HIDE DEF x, y
    <3>3. x - y = j + 1
      BY <1>70, <3>1, <3>2
    <3> QED
      BY <3>3 DEF x, y
  <2>3. SubSeq(f, 1, Len(f) - Len(inner)) = target
    BY <2>2 DEF target
  <2>4. Made(e) = Op("stack", v, target, TensorOf(t.elem, target \o inner))
    BY <1>2, <1>4, <1>11, <2>3 DEF generate_tensor, stack_build
  <2>5. Made(e) = Op("stack", v, target, TensorOf(t.elem, f))
    BY <1>9, <2>4
  <2>6. /\ Made(e).kind = "stack" /\ Made(e).args = v /\ Made(e).attr = target
        /\ Made(e).type = TensorOf(t.elem, f)
    BY <2>5 DEF Op
  <2> QED
    BY <1>5, <1>9, <2>1, <2>6 DEF v, t, f, n, target, inner
<1> QED
  BY <1>10, <1>11

\* A literal compiles unless it has both literals and other tensors for elements.
LEMMA ElementsOutcome ==
  ASSUME NEW e, Generated(e), e.name = "elements"
  PROVE  Outcome(e, Made(e))
<1> DEFINE n == Rank(e)
           t == Ty(e)
           f == Full(e)
           v == Values(e)
           a == Taken(e)
           N == Len(a)
           o == Made(e)
<1>1. IsNested(e)
  BY DEF IsNested
<1>2. /\ N \in Nat \ {0} /\ N < Half /\ DOMAIN a = 1 .. N /\ 1 \in 1 .. N
      /\ \A i \in 1 .. N : /\ Tensed(a[i]) /\ a[i] \in ToSet(a)
                           /\ \E j \in 0 .. n : a[i].type = At(t, j)
  BY <1>1, TakenTyped
<1>3. PICK j \in 0 .. n : a[1].type = At(t, j)
  BY <1>2
<1> DEFINE target == SubSeq(f, 1, j + 1)
           inner == At(t, j).shape
<1>4. /\ o.kind = (IF j = n THEN "elements" ELSE "stack") /\ o.args = v /\ o.attr = target
      /\ o.type = TensorOf(t.elem, f) /\ f = target \o inner
  BY <1>1, <1>3, LiteralMade
<1>5. Found(e).type = TensorOf(t.elem, f)
  <2>1. t.con = "tensor"
    BY <1>1, FirstTensor
  <2>2. Found(e).type = TensorOf(ElementOf(t), f)
    BY <1>1, LiteralFound DEF Full
  <2> QED
    BY <2>1, <2>2 DEF ElementOf, IsTensor
<1>6. /\ Len(v) = N /\ DOMAIN v = 1 .. N
      /\ \A i \in 1 .. N : TypeOf(v[i]) = a[i].type /\ v[i].shape = a[i].type.shape
  <2>1. v = [i \in 1 .. N |-> a[i].value]
    BY <1>2 DEF Values
  <2> HIDE DEF v, N, a
  <2>2. Len(v) = N /\ DOMAIN v = 1 .. N /\ \A i \in 1 .. N : v[i] = a[i].value
    BY <1>2, <2>1
  <2> QED
    BY <1>2, <2>2 DEF Tensed, TypeOf
<1>7. /\ t.shape \in Seq(Nat) /\ n = Len(t.shape) /\ n \in Nat /\ FullIs(e, f, n) /\ AtIs(t, n, j, inner)
  <2>1. t.shape \in Seq(Nat) /\ n = Len(t.shape) /\ n \in Nat
    BY <1>1, LiteralFound DEF Rank
  <2>2. AtIs(t, n, j, inner)
    BY <2>1, AtFacts
  <2> QED
    BY <1>1, <2>1, <2>2, FullFacts
<1>8. Gap(e) <=> \E i, k \in 1 .. N : Len(a[i].type.shape) # Len(a[k].type.shape)
  BY <1>2, GapIs
<1>9. t = Ty(e) /\ n = Rank(e) /\ f = Full(e) /\ a = Taken(e) /\ N = Len(Taken(e))
  OBVIOUS
<1> HIDE DEF n, t, f, v, a, N, o, target, inner
<1>10. f \in Seq(Nat) /\ Len(f) = n + 1 /\ inner \in Seq(Nat)
  BY <1>7 DEF FullIs, AtIs
<1>11. j \in 0 .. n /\ j + 1 \in 0 .. n + 1 /\ v[1].shape = inner
  <2>1. v[1].shape = a[1].type.shape
    BY <1>2, <1>6
  <2> QED
    BY <1>3, <1>7, <2>1 DEF inner
<1>12. o.type.shape = f /\ o.type.elem = t.elem /\ o.type = TensorOf(o.type.elem, o.type.shape)
       /\ o.kind # "print" /\ o.kind \in {"elements", "stack"}
  BY <1>4 DEF TensorOf, Type
<1>13. ~Undefined(o, e.name, Taken(e))
  <2>1. Consumed(e.name, Taken(e)) = << >>
    BY DEF Consumed
  <2> QED
    BY <1>10, <1>12, <2>1, DefinedShape
<1>14. Verified(o) <=> literal_verify(v, target, o.type)
  BY <1>4, <1>12, VerifiedIs
<1>15. CASE Gap(e)
  <2>1. PICK i \in 1 .. N, k \in 1 .. N : Len(a[i].type.shape) # Len(a[k].type.shape)
    BY <1>8, <1>15
  <2>2. TypeOf(v[i]) # TypeOf(v[k])
    BY <1>6, <2>1
  <2>3. ~Verified(o)
    BY <1>6, <1>14, <2>2 DEF literal_verify
  <2> QED
    BY <1>4, <1>5, <1>12, <1>13, <1>15, <2>3 DEF Outcome, o
<1>16. CASE ~Gap(e)
  <2>1. ASSUME NEW i \in 1 .. N PROVE a[i].type = At(t, j) /\ TypeOf(v[i]) = At(t, j) /\ v[i].shape = inner
    <3>1. PICK k \in 0 .. n : a[i].type = At(t, k)
      BY <1>2
    <3> DEFINE w == At(t, k).shape
    <3>2. AtIs(t, n, k, w)
      BY <1>7, AtFacts
    <3>3. Len(w) = Len(inner)
      BY <1>2, <1>3, <1>8, <1>16, <3>1 DEF inner
    <3> HIDE DEF w
    <3>4. n - k = n - j
      BY <1>7, <3>2, <3>3 DEF AtIs
    <3>5. k = j
      BY <1>7, <1>11, <3>4
    <3> QED
      BY <1>6, <3>1, <3>5 DEF inner
  <2>2. Uniform(e, j)
    <3>1. \A x \in ToSet(a) : \E i \in 1 .. N : x = a[i]
      BY <1>2 DEF ToSet
    <3> QED
      BY <1>9, <2>1, <3>1 DEF Uniform
  <2>3. Count(target) = N
    BY <1>1, <1>9, <1>11, <2>2, TargetCount DEF target
  <2>4. target \in Seq(Nat) /\ \A d \in 1 .. Len(target) : target[d] # 0
    <3>1. target \in Seq(Nat)
      BY <1>10, <1>11, PrefixFacts DEF target
    <3> QED
      BY <1>2, <2>3, <3>1, CountPositive
  <2>5. Elems(target) = N
    <3>1. target \in Seq(Nat \ {0})
      <4>1. \A d \in 1 .. Len(target) : target[d] \in Nat \ {0}
        BY <2>4, SeqFacts
      <4> QED
        BY <2>4, <4>1, SeqRange
    <3> QED
      BY <1>2, <2>3, <3>1, ElemsSame
  <2>6. Verified(o)
    <3>1. \A i \in DOMAIN v : TypeOf(v[i]) = TypeOf(v[1])
      BY <1>2, <1>6, <2>1
    <3>2. o.type.shape = target \o v[1].shape
      BY <1>4, <1>11, <1>12
    <3>3. Len(v) = Elems(target)
      BY <1>6, <2>5
    <3>4. literal_verify(v, target, o.type)
      BY <3>1, <3>2, <3>3 DEF literal_verify
    <3> QED
      BY <1>14, <3>4
  <2>7. Sound(Lower(o), o.type)
    <3>1. CASE j = n
      <4>1. Lower(o) = lowering_elements(o)
        BY <1>4, <3>1, LowerIs
      <4>2. target = f
        <5>1. inner = << >>
          BY <1>7, <3>1 DEF AtIs
        <5>2. target \o << >> = target
          BY <2>4
        <5> QED
          BY <1>4, <5>1, <5>2
      <4>3. Len(o.args) = Count(o.type.shape) /\ Len(o.args) \in Nat
        BY <1>2, <1>4, <1>6, <1>12, <2>3, <4>2
      <4>4. Sound(lowering_elements(o), o.type)
        BY <1>10, <1>12, <4>3, ElementsSound
      <4> QED
        BY <4>1, <4>4
    <3>2. CASE j # n
      <4>1. Lower(o) = lowering_stack(o)
        BY <1>4, <3>2, LowerIs
      <4>2. Len(o.args) \in Nat \ {0} /\ \A i \in 1 .. Len(o.args) : o.args[i].shape = inner
        BY <1>2, <1>4, <1>6, <2>1
      <4>3. o.type.shape = o.attr \o inner
        BY <1>4, <1>12
      <4>4. o.attr \in Seq(Nat) /\ \A d \in 1 .. Len(o.attr) : o.attr[d] # 0
        BY <1>4, <2>4
      <4>5. Sound(lowering_stack(o), o.type)
        BY <1>10, <4>2, <4>3, <4>4, StackSound
      <4> QED
        BY <4>1, <4>5
    <3> QED
      BY <3>1, <3>2
  <2>8. Lowered(e, o)
    BY <2>7, SoundLowered
  <2> QED
    BY <1>4, <1>5, <1>12, <1>13, <1>16, <2>6, <2>8 DEF Outcome, o
<1> QED
  BY <1>15, <1>16

-----------------------------------------------------------------------------
(* Execution. *)

\* The element at every position after n points of kernel k, with those of the
\* point before in f.
Advanced(k, f, n) ==
  IF n = 0 THEN [p \in Points(k.type.shape) |-> k.init]
  ELSE LET p == Point(k.dom, n - 1)
           read == [i \in DOMAIN k.reads[p] |-> Element(k.ins[k.reads[p][i][1]], k.reads[p][i][2])]
       IN  [f[n - 1] EXCEPT ![k.writes[p]] = Combine(k.body, k.type.elem, read, @)]
Ran(k, m, f) == f = [n \in 0 .. m |-> Advanced(k, f, n)]

\* A kernel can be run for any number of points.
LEMMA RunsExist ==
  ASSUME NEW k, NEW m \in Nat
  PROVE  \E f : Ran(k, m, f)
<1> DEFINE Missing == {n \in 0 .. m : ~\E f : Ran(k, n, f)}
<1>1. Missing = {}
  <2> SUFFICES ASSUME Missing # {} PROVE FALSE
    OBVIOUS
  <2>1. Missing \in SUBSET Nat
    OBVIOUS
  <2> HIDE DEF Missing
  <2>2. PICK j \in Missing : \A n \in Missing : j <= n
    BY <2>1, Least
  <2>3. j \in 0 .. m /\ ~\E f : Ran(k, j, f)
    BY <2>2 DEF Missing
  <2>4. j # 0
    <3> DEFINE f == [n \in 0 .. 0 |-> [p \in Points(k.type.shape) |-> k.init]]
    <3>1. f = [n \in 0 .. 0 |-> Advanced(k, f, n)]
      BY DEF Advanced
    <3> HIDE DEF f
    <3> QED
      BY <2>3, <3>1 DEF Ran
  <2>5. j - 1 \in 0 .. m /\ ~(j <= j - 1)
    BY <2>3, <2>4
  <2>6. PICK f : Ran(k, j - 1, f)
    BY <2>2, <2>5 DEF Missing
  <2> DEFINE g == [n \in 0 .. j |-> Advanced(k, f, n)]
  <2>7. ASSUME NEW n \in 0 .. j - 1 PROVE g[n] = f[n]
    <3> HIDE DEF g
    <3>1. n \in 0 .. j
      BY <2>3
    <3>2. f[n] = Advanced(k, f, n)
      BY <2>6 DEF Ran
    <3> QED
      BY <3>1, <3>2 DEF g
  <2>8. ASSUME NEW n \in 0 .. j PROVE Advanced(k, f, n) = Advanced(k, g, n)
    <3> HIDE DEF g
    <3>1. n # 0 => n - 1 \in 0 .. j - 1
      BY <2>3
    <3>2. CASE n = 0
      BY <3>2 DEF Advanced
    <3>3. CASE n # 0
      <4>1. f[n - 1] = g[n - 1]
        BY <2>7, <3>1, <3>3
      <4> QED
        BY <3>3, <4>1 DEF Advanced
    <3> QED
      BY <3>2, <3>3
  <2>9. g = [n \in 0 .. j |-> Advanced(k, g, n)]
    BY <2>8
  <2> HIDE DEF g
  <2> QED
    BY <2>3, <2>9 DEF Ran
<1> QED
  BY <1>1

\* Running writes elements, and never adds a position.
LEMMA RunKeeps ==
  ASSUME NEW k, NEW m \in Nat, NEW f, Ran(k, m, f)
  PROVE  DOMAIN f[m] = Points(k.type.shape)
<1> DEFINE Bad == {n \in 0 .. m : DOMAIN f[n] # Points(k.type.shape)}
<1>1. Bad = {}
  <2> SUFFICES ASSUME Bad # {} PROVE FALSE
    OBVIOUS
  <2>1. Bad \in SUBSET Nat
    OBVIOUS
  <2> HIDE DEF Bad
  <2>2. PICK j \in Bad : \A n \in Bad : j <= n
    BY <2>1, Least
  <2>3. j \in 0 .. m /\ DOMAIN f[j] # Points(k.type.shape)
    BY <2>2 DEF Bad
  <2>4. f[j] = Advanced(k, f, j)
    BY <2>3 DEF Ran
  <2>5. j # 0
    BY <2>3, <2>4 DEF Advanced
  <2>6. j - 1 \in 0 .. m /\ ~(j <= j - 1)
    BY <2>3, <2>5
  <2>7. DOMAIN f[j - 1] = Points(k.type.shape)
    BY <2>2, <2>6 DEF Bad
  <2>8. DOMAIN f[j] = DOMAIN f[j - 1]
    BY <2>4, <2>5 DEF Advanced
  <2> QED
    BY <2>3, <2>7, <2>8
<1> QED
  BY <1>1

\* What is computed is a tensor of the type of the kernel.
LEMMA ComputedIs ==
  ASSUME NEW k, k.dom \in Seq(Nat), k.type = TensorOf(k.type.elem, k.type.shape)
  PROVE  TypeOf(Computed(k)) = k.type /\ DOMAIN Computed(k).at = Points(k.type.shape)
<1> DEFINE m == Count(k.dom)
           f == CHOOSE f : f = [n \in 0 .. m |-> Advanced(k, f, n)]
<1>1. m \in Nat
  BY CountPositive
<1>2. Computed(k) = Tensor(k.type.elem, k.type.shape, f[m])
  BY DEF Computed, Execute, Advanced
<1> HIDE DEF m
<1>3. Ran(k, m, f)
  <2>1. \A g : Ran(k, m, g) <=> g = [n \in 0 .. m |-> Advanced(k, g, n)]
    BY DEF Ran
  <2>2. f = [n \in 0 .. m |-> Advanced(k, f, n)]
    BY <1>1, <2>1, RunsExist
  <2> HIDE DEF f
  <2> QED
    BY <2>2 DEF Ran
<1> HIDE DEF f
<1>4. DOMAIN f[m] = Points(k.type.shape)
  BY <1>1, <1>3, RunKeeps
<1> QED
  BY <1>2, <1>4 DEF Tensor, TypeOf

-----------------------------------------------------------------------------
(* The outcome of every expression, and the four properties. *)

\* What becomes of every operation but print.
LEMMA OutcomeOf ==
  ASSUME NEW e, Generated(e), e.name # "print"
  PROVE  Outcome(e, Made(e))
<1>1. e.name \in Names
  BY ExprsAssumption DEF Generated
<1>2. \/ e.name \in Simple
      \/ e.name \in Listed
      \/ e.name \in {"matmul", "gather", "stack", "elements", "slice"}
  BY <1>1 DEF Names, Registered, Simple, Listed
<1>3. CASE e.name \in Simple
  BY <1>3, SimpleOutcome
<1>4. CASE e.name \in Listed
  BY <1>4, BroadcastOutcome, ReduceOutcome, ReshapeOutcome, TransposeOutcome DEF Listed
<1>5. CASE e.name \in {"matmul", "gather", "stack", "elements", "slice"}
  BY <1>5, MatmulOutcome, GatherOutcome, StackOutcome, ElementsOutcome, SliceOutcome
<1> QED
  BY <1>2, <1>3, <1>4, <1>5

\* Neither is a tensor.
LEMMA VoidFacts == ~IsTensor(Void) /\ ~IsTensor(Unknown)
<1>1. Void.con = "void" /\ Unknown.con = "unknown"
  BY DEF Void, Unknown, Type
<1> QED
  BY <1>1 DEF IsTensor

\* print is made, verified and executed whatever its operands.
LEMMA PrintOutcome ==
  ASSUME NEW e, Generated(e), e.name = "print"
  PROVE  /\ Made(e).kind = "print" /\ Made(e).type = Void
         /\ Verified(Made(e)) /\ ~Undefined(Made(e), e.name, Taken(e)) /\ ~Gap(e)
         /\ ~IsTensor(Found(e).type)
<1>1. Made(e) = Op("print", Values(e), << >>, Void)
  BY MadeIs DEF Generates
<1>2. Made(e).kind = "print" /\ Made(e).type = Void
  BY <1>1 DEF Op
<1>3. Verified(Made(e))
  BY <1>2, VerifiedIs
<1>4. ~Undefined(Made(e), e.name, Taken(e))
  <2>1. ~IsTensor(Made(e).type)
    BY <1>2, VoidFacts
  <2>2. Consumed(e.name, Taken(e)) = << >>
    BY DEF Consumed
  <2> QED
    BY <2>1, <2>2 DEF Undefined
<1>5. ~Gap(e)
  BY DEF Gap, Generated
<1>6. Found(e).type \in {Unknown, Void}
  <2>1. Found(e) = print_infer(e.args)
    BY ResolveIs DEF Found
  <2> QED
    BY <2>1 DEF print_infer, Answer
<1>7. ~IsTensor(Found(e).type)
  BY <1>6, VoidFacts
<1> QED
  BY <1>2, <1>3, <1>4, <1>5, <1>7

-----------------------------------------------------------------------------
(* The stages. *)

\* What each stage has made of the expression, and what it has asked of it.
Built == Generated(expr) /\ op = Made(expr) /\ inferred = Found(expr).type
Defined == Built /\ ~Undefined(op, expr.name, Taken(expr))
CallInv ==
  /\ expr \in Exprs
  /\ \/ stage \in {"infer", "reported"} /\ op = None /\ kernel = << >>
     \/ /\ stage = "generate" /\ op = None /\ kernel = << >>
        /\ ~Found(expr).reported /\ inferred = Found(expr).type
     \/ stage = "undefined" /\ Valueless(Taken(expr)) /\ op = None /\ kernel = << >>
     \/ stage = "undefined" /\ Built /\ Undefined(op, expr.name, Taken(expr)) /\ kernel = << >>
     \/ stage = "verify" /\ Defined /\ kernel = << >>
     \/ stage = "invalid" /\ Defined /\ ~Verified(op) /\ kernel = << >>
     \/ stage = "lower" /\ Defined /\ Verified(op) /\ kernel = << >>
     \/ /\ stage = "unlowered" /\ Defined /\ Verified(op) /\ kernel = << >>
        /\ op.kind # "print" /\ Lower(op) = << >>
     \/ /\ stage \in {"execute", "done"} /\ Defined /\ Verified(op)
        /\ op.kind = "print" => kernel = << >>
        /\ op.kind # "print" => kernel = Lower(op) /\ kernel # << >>
        /\ stage = "done" /\ op.kind # "print" => answer = <<Computed(kernel[1])>>

\* The invariant holds at first.
LEMMA CallInvInit == CallInit => CallInv
BY DEF CallInit, CallInv

\* Every stage keeps it: what a stage leaves behind is what the next one takes.
LEMMA CallInvNext == CallInv /\ [CallNext]_callVars => CallInv'
<1> SUFFICES ASSUME CallInv, [CallNext]_callVars PROVE CallInv'
  OBVIOUS
<1>1. CASE InferType
  BY <1>1 DEF InferType, CallInv, Found
<1>2. CASE GenerateOp
  <2>1. ~Found(expr).reported /\ inferred = Found(expr).type /\ op = None /\ kernel = << >> /\ expr \in Exprs
    BY <1>2 DEF GenerateOp, CallInv, Built, Defined
  <2>2. expr' = expr /\ inferred' = inferred /\ kernel' = kernel
    BY <1>2 DEF GenerateOp
  <2>3. CASE Valueless(Taken(expr))
    <3>1. op' = None /\ stage' = "undefined"
      BY <1>2, <2>3 DEF GenerateOp
    <3> QED
      BY <2>1, <2>2, <2>3, <3>1 DEF CallInv
  <2>4. CASE ~Valueless(Taken(expr))
    <3>1. op' = Made(expr) /\ stage' = IF Undefined(op', expr.name, Taken(expr)) THEN "undefined" ELSE "verify"
      BY <1>2, <2>1, <2>4 DEF GenerateOp, Made
    <3>2. Built'
      BY <2>1, <2>2, <2>4, <3>1 DEF Built, Generated
    <3> QED
      BY <2>1, <2>2, <3>1, <3>2 DEF CallInv, Defined
  <2> QED
    BY <2>3, <2>4
<1>3. CASE VerifyOp
  <2>1. stage = "verify" /\ Defined /\ kernel = << >> /\ expr \in Exprs
    BY <1>3 DEF VerifyOp, CallInv
  <2>2. /\ expr' = expr /\ inferred' = inferred /\ op' = op /\ kernel' = kernel
        /\ stage' = IF Verified(op) THEN "lower" ELSE "invalid"
    BY <1>3 DEF VerifyOp
  <2>3. Defined'
    BY <2>1, <2>2 DEF Defined, Built
  <2> QED
    BY <2>1, <2>2, <2>3 DEF CallInv
<1>4. CASE LowerOp
  <2>1. stage = "lower" /\ Defined /\ Verified(op) /\ kernel = << >> /\ expr \in Exprs
    BY <1>4 DEF LowerOp, CallInv
  <2>2. /\ expr' = expr /\ inferred' = inferred /\ op' = op
        /\ kernel' = IF op.kind = "print" THEN << >> ELSE Lower(op)
        /\ stage' = IF op.kind # "print" /\ kernel' = << >> THEN "unlowered" ELSE "execute"
    BY <1>4 DEF LowerOp
  <2>3. Defined'
    BY <2>1, <2>2 DEF Defined, Built
  <2> QED
    BY <2>1, <2>2, <2>3 DEF CallInv
<1>5. CASE ExecuteKernel
  <2>1. /\ stage = "execute" /\ Defined /\ Verified(op) /\ expr \in Exprs
        /\ op.kind = "print" => kernel = << >>
        /\ op.kind # "print" => kernel = Lower(op) /\ kernel # << >>
    BY <1>5 DEF ExecuteKernel, CallInv
  <2>2. /\ expr' = expr /\ inferred' = inferred /\ op' = op /\ kernel' = kernel /\ stage' = "done"
        /\ op.kind # "print" => answer' = <<Computed(kernel[1])>>
    BY <1>5 DEF ExecuteKernel
  <2>3. Defined'
    BY <2>1, <2>2 DEF Defined, Built
  <2> QED
    BY <2>1, <2>2, <2>3 DEF CallInv
<1>6. CASE UNCHANGED callVars
  BY <1>6 DEF CallInv, Defined, Built, callVars
<1> QED
  BY <1>1, <1>2, <1>3, <1>4, <1>5, <1>6 DEF CallNext

\* The kernel of an expression that has one.
LEMMA KernelIs ==
  ASSUME CallInv
  PROVE  \/ kernel = << >>
         \/ Built /\ op.kind # "print" /\ Lower(op) = kernel /\ Lowered(expr, op)
<1> SUFFICES ASSUME kernel # << >>
             PROVE  Built /\ op.kind # "print" /\ Lower(op) = kernel /\ Lowered(expr, op)
  OBVIOUS
<1>1. Built /\ op.kind # "print" /\ kernel = Lower(op)
  BY DEF CallInv, Defined
<1>2. ~Undefined(op, expr.name, Taken(expr)) /\ Verified(op)
  BY DEF CallInv, Defined
<1>3. expr.name # "print"
  BY <1>1, PrintOutcome DEF Built
<1>4. Outcome(expr, op)
  BY <1>1, <1>3, OutcomeOf DEF Built
<1> QED
  BY <1>1, <1>2, <1>4 DEF Outcome

\* What each stage has made of the expression.
THEOREM CallsKeepInvariant == CallSpec => []CallInv
BY CallInvInit, CallInvNext, PTL DEF CallSpec

\* The kernels that are made of an expression stay inside of their operands and of their
\* result, but for indices that the program computes and for products that wrap (lowering.cpp).
THEOREM CallsStayInBounds == CallSpec => []InBounds
<1>1. CallInv => InBounds
  <2> SUFFICES ASSUME CallInv PROVE InBounds
    OBVIOUS
  <2>1. CASE kernel = << >>
    BY <2>1 DEF InBounds
  <2>2. CASE kernel # << >>
    <3>1. PICK k : kernel = <<k>> /\ BoundsOf(expr, op, <<k>>)
      BY <2>2, KernelIs DEF Lowered
    <3>2. BoundsOf(expr, op, kernel)
      BY <3>1
    <3> QED
      BY <3>2 DEF BoundsOf, InBounds
  <2> QED
    BY <2>1, <2>2
<1> QED
  BY <1>1, CallsKeepInvariant, PTL

\* Iterations that may run in parallel write different elements (lowering.cpp).
THEOREM CallsRunApart == CallSpec => []ParallelDisjoint
<1>1. CallInv => ParallelDisjoint
  <2> SUFFICES ASSUME CallInv, NEW i \in DOMAIN kernel PROVE Disjoint(kernel[i])
    BY DEF ParallelDisjoint, Disjoint
  <2>1. kernel # << >>
    OBVIOUS
  <2>2. PICK k : kernel = <<k>> /\ Disjoint(k)
    BY <2>1, KernelIs DEF Lowered
  <2> QED
    BY <2>2
<1> QED
  BY <1>1, CallsKeepInvariant, PTL

\* What sema accepts compiles, but for the gaps (sema/intrinsic.cpp against dialect/colgm and
\* lowering.cpp).
THEOREM CallsCompile == CallSpec => []AcceptedCompile
<1>1. CallInv => AcceptedCompile
  <2> SUFFICES ASSUME CallInv PROVE AcceptedCompile
    OBVIOUS
  <2>2. stage \in {"undefined", "invalid", "unlowered"} => Gap(expr)
    <3>1. CASE Valueless(Taken(expr))
      BY <3>1 DEF Gap
    <3>2. CASE ~Valueless(Taken(expr))
      <4> SUFFICES ASSUME stage \in {"undefined", "invalid", "unlowered"} PROVE Gap(expr)
        OBVIOUS
      <4>1. /\ Built
            /\ \/ Undefined(op, expr.name, Taken(expr))
               \/ ~Undefined(op, expr.name, Taken(expr)) /\ ~Verified(op)
               \/ /\ ~Undefined(op, expr.name, Taken(expr)) /\ Verified(op)
                  /\ op.kind # "print" /\ Lower(op) = << >>
        BY <3>2 DEF CallInv, Defined
      <4>2. expr.name # "print"
        BY <4>1, PrintOutcome DEF Built
      <4>3. Outcome(expr, op)
        BY <4>1, <4>2, OutcomeOf DEF Built
      <4>4. \A k : << >> # <<k>>
        OBVIOUS
      <4> QED
        BY <4>1, <4>3, <4>4 DEF Outcome, Lowered
    <3> QED
      BY <3>1, <3>2
  <2>3. stage \in {"execute", "done"} => ~Gap(expr)
    <3> SUFFICES ASSUME stage \in {"execute", "done"} PROVE ~Gap(expr)
      OBVIOUS
    <3>1. /\ Built /\ Verified(op) /\ ~Undefined(op, expr.name, Taken(expr))
          /\ op.kind # "print" => Lower(op) # << >>
      BY DEF CallInv, Defined
    <3>2. CASE expr.name = "print"
      BY <3>1, <3>2, PrintOutcome DEF Built
    <3>3. CASE expr.name # "print"
      <4>1. Outcome(expr, op)
        BY <3>1, <3>3, OutcomeOf DEF Built
      <4> QED
        BY <3>1, <4>1 DEF Outcome
    <3> QED
      BY <3>2, <3>3
  <2> QED
    BY <2>2, <2>3 DEF AcceptedCompile
<1> QED
  BY <1>1, CallsKeepInvariant, PTL

\* The three shapes that are computed for an expression agree (sema/intrinsic.cpp,
\* dialect/colgm, lowering.cpp).
THEOREM CallsAgree == CallSpec => []TypesAgree
<1>1. CallInv => TypesAgree
  <2> SUFFICES ASSUME CallInv PROVE TypesAgree
    OBVIOUS
  <2>1. ASSUME IsTensor(inferred), op # None PROVE op.type = inferred
    <3>1. Built
      BY <2>1 DEF CallInv, Defined
    <3>2. expr.name # "print"
      BY <2>1, <3>1, PrintOutcome DEF Built
    <3>3. Outcome(expr, op)
      BY <3>1, <3>2, OutcomeOf DEF Built
    <3> QED
      BY <3>1, <3>3 DEF Outcome, Built
  <2>2. ASSUME stage = "done", op.kind # "print"
        PROVE  TypeOf(answer[1]) = op.type /\ DOMAIN answer[1].at = Points(op.type.shape)
    <3>1. kernel # << >> /\ answer = <<Computed(kernel[1])>>
      BY <2>2 DEF CallInv
    <3>2. Built /\ Lowered(expr, op) /\ Lower(op) = kernel
      BY <3>1, KernelIs
    <3>3. PICK k : kernel = <<k>> /\ k.type = op.type /\ k.dom \in Seq(Nat)
      BY <3>2 DEF Lowered
    <3>4. op.type = TensorOf(op.type.elem, op.type.shape)
      <4>1. expr.name # "print"
        BY <2>2, <3>2, PrintOutcome DEF Built
      <4>2. Outcome(expr, op)
        BY <3>2, <4>1, OutcomeOf DEF Built
      <4> QED
        BY <4>2 DEF Outcome
    <3>5. answer[1] = Computed(k)
      BY <3>1, <3>3
    <3>6. k.type = TensorOf(k.type.elem, k.type.shape)
      BY <3>3, <3>4
    <3>7. TypeOf(Computed(k)) = k.type /\ DOMAIN Computed(k).at = Points(k.type.shape)
      BY <3>3, <3>6, ComputedIs
    <3> QED
      BY <3>3, <3>5, <3>7
  <2> QED
    BY <2>1, <2>2 DEF TypesAgree
<1> QED
  BY <1>1, CallsKeepInvariant, PTL
=============================================================================
