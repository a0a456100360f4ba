------------------------------ MODULE FlexCodec ------------------------------
(***************************************************************************)
(* What is in a message: FlexBuffer values, the tensors among them, and    *)
(* the codecs that write and read them - xtensor and Eigen in C++,         *)
(* dynoflex and flextensors in Python - and copy_flex, which copies any    *)
(* value from one message to another.                                      *)
(*                                                                         *)
(* A value is [type, of].  Numbers and strings are themselves; the bytes   *)
(* of a tensor are the sequence of its elements.                           *)
(***************************************************************************)
EXTENDS Integers, SequencesExt

Flex(type, of) == [type |-> type, of |-> of]

\* what a function returns that throws, and what nullptr or None is
Thrown == [thrown |-> TRUE]
Nothing == [nothing |-> TRUE]

Scalars == {"BOOL", "INT", "UINT", "FLOAT", "STRING", "KEY",
            "INDIRECT_INT", "INDIRECT_UINT", "INDIRECT_FLOAT"}
TypedVectors == {"VECTOR_INT", "VECTOR_UINT", "VECTOR_FLOAT", "VECTOR_BOOL"}
FixedVectors == {"VECTOR_INT2", "VECTOR_UINT2", "VECTOR_FLOAT2", "VECTOR_INT3",
                 "VECTOR_UINT3", "VECTOR_FLOAT3", "VECTOR_INT4", "VECTOR_UINT4",
                 "VECTOR_FLOAT4"}

Mapped(Op(_), f) == [k \in DOMAIN f |-> Op(f[k])]

-----------------------------------------------------------------------------
(* copy_flex.                                                              *)

\* the type that Add gives a scalar
AddedAs(type) ==
  CASE type = "KEY" -> "STRING"
    [] type = "INDIRECT_INT" -> "INT"
    [] type = "INDIRECT_UINT" -> "UINT"
    [] type = "INDIRECT_FLOAT" -> "FLOAT"
    [] OTHER -> type

\* Faulty Typed: the vector is copied as an untyped one.
Untyped(type, elements) == Flex("VECTOR", elements)

\* Faulty Typed: the loop over the elements ends before the last one.
ShortByOne(type, elements) ==
  Flex(type, SubSeq(elements, 1, Len(elements) - 1))

\* a typed vector; one without elements has the type of a vector of keys
Typed(type, elements) == Flex(IF elements = <<>> THEN "VECTOR_KEY" ELSE type, elements)

\* A vector of keys is read as an untyped vector, and so without its elements.
RECURSIVE Copied(_)
Copied(v) ==
  CASE v.type \in Scalars -> Flex(AddedAs(v.type), v.of)
    [] v.type \in {"MAP", "VECTOR"} -> Flex(v.type, Mapped(Copied, v.of))
    [] v.type \in TypedVectors -> Typed(v.type, v.of)
    [] v.type = "VECTOR_KEY" -> Flex("VECTOR", <<>>)
    [] v.type \in FixedVectors \cup {"NULL", "BLOB"} -> v

\* What a reader makes of a value: As... of any type of vector, number or string.
RECURSIVE Meaning(_)
Meaning(v) ==
  IF v.type \in {"MAP", "VECTOR"} THEN Mapped(Meaning, v.of) ELSE v.of

-----------------------------------------------------------------------------
(* Tensors.  An element's place is its row and its column, from 0; a       *)
(* tensor of rank 1 is one column.                                         *)

\* supported_numpy_types, and the C++ types that have one of their indexes
DTypes == {"int8_t", "int16_t", "int32_t", "int64_t", "uint8_t", "uint16_t", "uint32_t",
           "uint64_t", "float", "double", "float16"}
NumpyTypes ==
  <<"int8_t", "int16_t", "int32_t", "int64_t", "uint8_t", "uint16_t", "uint32_t", "uint64_t",
    "intp", "uintp", "float", "double", "complex64", "complex128", "float16">>

\* tensor_dtype_indexer, -1 for other types
IndexOf(dtype) ==
  IF dtype \in DTypes THEN SelectInSeq(NumpyTypes, LAMBDA t : t = dtype) - 1 ELSE -1

\* _encode_dtype; on this platform intp is int64 and uintp is uint64
NumpyIndexOf(dtype) ==
  LET same == CASE dtype = "intp" -> "int64_t" [] dtype = "uintp" -> "uint64_t"
                [] OTHER -> dtype
  IN  SelectInSeq(NumpyTypes, LAMBDA t : t = same) - 1

SizeOf(shape) == FoldLeft(LAMBDA n, d : n * d, 1, shape)
Rows(shape) == IF shape = <<>> THEN 1 ELSE shape[1]
Columns(shape) == IF Len(shape) = 2 THEN shape[2] ELSE 1
Places(shape) == (0..(Rows(shape) - 1)) \X (0..(Columns(shape) - 1))

\* Where the element of row i and column j is, from 1.
Offset(order, shape, i, j) ==
  IF order = "row major" THEN i * Columns(shape) + j + 1 ELSE j * Rows(shape) + i + 1

Tensor(dtype, shape, at) == [dtype |-> dtype, shape |-> shape, at |-> at]

Laid(order, t) ==
  [o \in 1..SizeOf(t.shape) |->
     t.at[CHOOSE p \in Places(t.shape) : Offset(order, t.shape, p[1], p[2]) = o]]

TensorMap(shape, data, index) ==
  Flex("MAP", [shape |-> shape, data |-> Flex("BLOB", data), dtype |-> Flex("INT", index)])

\* serialize_flex_tensor, serialize_flex_array: rows first
XtensorMap(t) ==
  TensorMap(Flex("VECTOR_UINT", t.shape), Laid("row major", t), IndexOf(t.dtype))

\* serialize_eigen_matrix: in the order of the matrix
EigenMap(t, order) ==
  TensorMap(Flex("VECTOR_UINT", t.shape), Laid(order, t), IndexOf(t.dtype))

\* build_tensor: rows first, whatever the strides of the array
NumpyMap(t) ==
  TensorMap(Typed("VECTOR_INT", t.shape), Laid("row major", t), NumpyIndexOf(t.dtype))

\* is_tensor
IsTensor(v) ==
  /\ v.type = "MAP"
  /\ {"shape", "data", "dtype"} \subseteq DOMAIN v.of
  /\ v.of.data.type = "BLOB"
  /\ v.of.dtype.type \in {"INT", "INDIRECT_INT"}
  /\ v.of.shape.type \in {"VECTOR", "VECTOR_KEY"} \cup TypedVectors

\* tensor_shape: an untyped vector is read as a typed one, and so as empty.
ShapeOf(v) == IF v.of.shape.type = "VECTOR" THEN <<>> ELSE v.of.shape.of

Viewed(v, dtype, order) ==
  LET shape == ShapeOf(v)
  IN  Tensor(dtype, shape,
             [p \in Places(shape) |-> v.of.data.of[Offset(order, shape, p[1], p[2])]])

\* deserialize_flex_array: no check of the rank
XarrayOf(v, dtype) ==
  IF IsTensor(v) /\ v.of.dtype.of = IndexOf(dtype) THEN Viewed(v, dtype, "row major")
                                                   ELSE Thrown

\* deserialize_flex_tensor
XtensorOf(v, dtype, rank) ==
  IF IsTensor(v) /\ Len(ShapeOf(v)) = rank THEN XarrayOf(v, dtype) ELSE Thrown

\* deserialize_eigen_matrix for a matrix of rows and columns, -1 is Dynamic
EigenOf(v, dtype, rows, columns, order) ==
  IF /\ IsTensor(v)
     /\ Len(ShapeOf(v)) = 2
     /\ rows \in {-1, ShapeOf(v)[1]} /\ columns \in {-1, ShapeOf(v)[2]}
     /\ v.of.dtype.of = IndexOf(dtype)
  THEN Viewed(v, dtype, order) ELSE Thrown

-----------------------------------------------------------------------------
(* Python.  A Python value is [type, of] too.                              *)

\* _serialize: a bool is an int, and what it does not know is left out.
RECURSIVE Serialized(_)
Serialized(x) ==
  CASE x.type = "float" -> Flex("FLOAT", x.of)
    [] x.type \in {"int", "bool"} -> Flex("INT", x.of)
    [] x.type = "str" -> Flex("STRING", x.of)
    [] x.type = "dict" ->
         Flex("MAP", Mapped(Serialized, Restrict(x.of, {k \in DOMAIN x.of : x.of[k].type # "None"})))
    [] x.type \in {"bytes", "bytearray"} -> Flex("BLOB", x.of)
    [] x.type \in {"list", "tuple"} ->
         Flex("VECTOR", Mapped(Serialized, SelectSeq(x.of, LAMBDA y : y.type # "None")))
    [] x.type = "ndarray" -> NumpyMap(x.of)

\* Loads
RECURSIVE Loaded(_)
Loaded(v) ==
  CASE v.type = "MAP" -> Flex("dict", Mapped(Loaded, v.of))
    [] v.type \in {"VECTOR", "VECTOR_KEY"} \cup TypedVectors \cup FixedVectors ->
         Flex("list", IF v.type = "VECTOR" THEN Mapped(Loaded, v.of) ELSE v.of)
    [] v.type \in {"INT", "UINT", "INDIRECT_INT", "INDIRECT_UINT"} -> Flex("int", v.of)
    [] v.type \in {"FLOAT", "INDIRECT_FLOAT"} -> Flex("float", v.of)
    [] v.type \in {"STRING", "KEY"} -> Flex("str", v.of)
    [] v.type = "BLOB" -> Flex("bytes", v.of)
    [] v.type = "BOOL" -> Flex("bool", v.of)
    [] v.type = "NULL" -> Flex("None", v.of)

IsA(x, k, type) == k \in DOMAIN x.of /\ x.of[k].type = type

\* A dict that _dicthaskeys takes for a tensor map: it has no other keys.
OnlyTensorKeys(x) == x.type = "dict" /\ DOMAIN x.of \subseteq {"shape", "data", "dtype"}

\* _istensormap
IsTensorDict(x) ==
  OnlyTensorKeys(x) /\ IsA(x, "shape", "list") /\ IsA(x, "data", "bytes") /\ IsA(x, "dtype", "int")

\* Faulty Raises: all three keys are asked for first.
RaisesIfIncomplete(x) == OnlyTensorKeys(x) /\ DOMAIN x.of # {"shape", "data", "dtype"}

\* It asks for the keys one after the other: KeyError for the first one missing.
Raises(x) ==
  /\ OnlyTensorKeys(x)
  /\ \/ "shape" \notin DOMAIN x.of
     \/ IsA(x, "shape", "list") /\ "data" \notin DOMAIN x.of
     \/ IsA(x, "shape", "list") /\ IsA(x, "data", "bytes") /\ "dtype" \notin DOMAIN x.of

\* _numpy_tensor_from_tensor_map: None for rank 0
NumpyOf(x) ==
  LET shape == x.of.shape.of
      places == Places(shape)
      data == x.of.data.of
  IN  IF shape = <<>> THEN Flex("None", Nothing)
      ELSE Flex("ndarray", Tensor(NumpyTypes[x.of.dtype.of + 1], shape,
                 [p \in places |-> data[Offset("row major", shape, p[1], p[2])]]))

\* flex_decode
RECURSIVE Decoded(_)
Decoded(x) ==
  CASE Raises(x) -> Thrown
    [] IsTensorDict(x) -> NumpyOf(x)
    [] x.type \in {"dict", "list"} /\ ~Raises(x) /\ ~IsTensorDict(x) ->
         IF \E k \in DOMAIN x.of : Decoded(x.of[k]) = Thrown
         THEN Thrown ELSE Flex(x.type, Mapped(Decoded, x.of))
    [] OTHER -> x

=============================================================================
