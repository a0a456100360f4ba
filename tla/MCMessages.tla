----------------------------- MODULE MCMessages -----------------------------
(* Payloads of every codec: the types of FlexBuffers, ranks 0 to 2, arrays   *)
(* whose type has no counterpart in C++, and nested Python data, also such   *)
(* as does not come back: None, a bool, arrays of rank 0, partial dicts.     *)
EXTENDS Messages
CONSTANTS short, long

Places2x3 == Places(<<2, 3>>)
Matrix(f(_)) == Tensor("float", <<2, 3>>, [p \in Places2x3 |-> f(p)])
Column(dtype) == Tensor(dtype, <<2>>, [p \in Places(<<2>>) |-> 7 + p[1]])
Scalar(dtype) == Tensor(dtype, <<>>, [p \in Places(<<>>) |-> 5])

Payload(codec, of) == [codec |-> codec, of |-> of]

Tree ==
  Flex("MAP",
    [a |-> Flex("VECTOR", <<Flex("KEY", "k"), Flex("INDIRECT_INT", 4), Flex("BOOL", 1),
                            Flex("NULL", 0), Flex("VECTOR_KEY", <<>>)>>),
     b |-> Flex("VECTOR_UINT", <<1, 2>>), c |-> Flex("VECTOR_FLOAT3", <<1, 2, 3>>),
     d |-> Flex("VECTOR_INT", <<>>), e |-> Flex("BLOB", <<1, 2>>)])

Dict ==
  Flex("dict",
    [i |-> Flex("int", 1),
     l |-> Flex("tuple", <<Flex("float", 1), Flex("str", "s"),
                           Flex("dict", [data |-> Flex("bytearray", <<1>>),
                                         shape |-> Flex("int", 2)])>>),
     t |-> Flex("dict", [shape |-> Flex("list", <<Flex("int", 1)>>), data |-> Flex("bytes", <<3>>),
                         dtype |-> Flex("int", 0), more |-> Flex("ndarray", Column("intp"))])])

Lossy == Flex("dict", [b |-> Flex("bool", 1), n |-> Flex("None", 0),
                       l |-> Flex("list", <<Flex("None", 0), Flex("int", 2)>>),
                       s |-> Flex("ndarray", Scalar("float"))])

Partial == Flex("list", <<Flex("dict", [i |-> Flex("int", 1), e |-> Flex("dict", <<>>)]),
                          Flex("dict", [shape |-> Flex("list", <<Flex("int", 2)>>)])>>)

AllPayloads ==
  <<Payload("value", Tree),
    Payload("python", Dict),
    Payload("xtensor", Matrix(LAMBDA p : 10 * p[1] + p[2])),
    Payload("xtensor", Matrix(LAMBDA p : 100 + p[2] - p[1])),
    Payload("xtensor", Scalar("int8_t")),
    Payload("row major", Matrix(LAMBDA p : 50 + 3 * p[2] + p[1])),
    Payload("column major", Matrix(LAMBDA p : 20 + p[1])),
    Payload("python", Flex("ndarray", Matrix(LAMBDA p : 30 - p[2]))),
    Payload("python", Flex("ndarray", Column("intp"))),
    Payload("python", Flex("ndarray", Column("complex64"))),
    Payload("python", Flex("ndarray", Scalar("uint8_t"))),
    Payload("python", Lossy), Payload("python", Partial)>>
=============================================================================
