------------------------------ MODULE Messages ------------------------------
(***************************************************************************)
(* Message: the header in _meta and the data beside it, in a backing store *)
(* that several Message objects may share.  Messages are made in C++ and   *)
(* in Python, seen as messages of other classes, copied with and without   *)
(* their headers, sent as bytes, signed by the nodes that signal them, and *)
(* read in both languages.                                                 *)
(*                                                                         *)
(* A payload is [codec, of]: a value that C++ code writes, a tensor that   *)
(* xtensor or Eigen writes, or a Python value.                             *)
(***************************************************************************)
EXTENDS FlexCodec

CONSTANTS
  Nodes,           \* the nodes that signal
  LongNamed,       \* those whose names have more than 32 characters
  NoNode,          \* the all-zero guid, and no name
  Unset,           \* the message counter UINT64_MAX
  Payloads,        \* a sequence of payloads
  Extras,          \* bound: those of them that are written into a copy
  MaxMessages,     \* bound: Message objects
  MaxStores        \* bound: backing stores

ASSUME MessagesAssumption ==
  /\ LongNamed \subseteq Nodes
  /\ {NoNode, Unset} \cap Nodes = {}
  /\ Extras \subseteq DOMAIN Payloads

VARIABLES
  messages,        \* the store of each Message object
  stores,          \* what is in each backing store
  meant,           \* history: the payload that was put under each key
  copied,          \* history: the stores whose counter was copied without the source
  signer           \* history: the node that signed each store first, or what it is a copy
                   \* of together with its header

vars == <<messages, stores, meant, copied, signer>>

\* The value written for a payload.
Written(p) ==
  CASE p.codec = "value" -> p.of
    [] p.codec = "xtensor" -> XtensorMap(p.of)
    [] p.codec \in {"row major", "column major"} -> EigenMap(p.of, p.codec)
    [] p.codec = "python" -> Serialized(p.of)

\* WriteMapRoot; dynoflex writes the same header with a name of 32 spaces.
NewStore(user) == [counter |-> Unset, guid |-> NoNode, source |-> NoNode, user |-> user]

Init ==
  /\ messages = <<>>
  /\ stores = <<>>
  /\ meant = <<>>
  /\ copied = {}
  /\ signer = <<>>

\* A new store with a Message object of its own; who signed it: first.
Add(store, what, first) ==
  /\ Len(stores) < MaxStores /\ Len(messages) < MaxMessages
  /\ stores' = Append(stores, store)
  /\ messages' = Append(messages, Len(stores'))
  /\ meant' = Append(meant, what)
  /\ signer' = Append(signer, first)

Make(p) ==
  /\ Add(NewStore([x |-> Written(p)]), [x |-> p], NoNode)
  /\ UNCHANGED copied

\* The bytes arrive in another place: copy_from, or a player.
Send(m) ==
  LET s == messages[m] IN
  /\ Add(stores[s], meant[s], signer[s])
  /\ copied' = IF s \in copied THEN copied \cup {Len(stores')} ELSE copied

\* Message(other, child_message_name): the same bytes.  If the names differ
\* nothing is constructed; the empty name is the name of any message.
View(m) ==
  /\ Len(messages) < MaxMessages
  /\ messages' = Append(messages, messages[m])
  /\ UNCHANGED <<stores, meant, copied, signer>>

\* the keys of the original that a copy keeps
Kept(s, omit) == DOMAIN stores[s].user \ omit

\* what a copy holds beside its header, with a payload function that writes p
CopiedData(s, omit, p) ==
  [k \in Kept(s, omit) \cup {"y"} |->
     IF k = "y" THEN Written(p) ELSE Copied(stores[s].user[k])]

\* Faulty CopiedStore: the whole header is kept.
WithHeader(s, omit, p) == [stores[s] EXCEPT !.user = CopiedData(s, omit, p)]

\* The copy keeps the timestamp and the counter.
CopiedStore(s, omit, p) ==
  [NewStore(CopiedData(s, omit, p)) EXCEPT !.counter = stores[s].counter]

\* The copy_from constructor, with a payload function that writes a key "y".
Copy(m, omit, p) ==
  LET s == messages[m] IN
  /\ "y" \notin Kept(s, omit)
  /\ Add(CopiedStore(s, omit, p),
         [k \in Kept(s, omit) \cup {"y"} |-> IF k = "y" THEN p ELSE meant[s][k]],
         NoNode)
  /\ copied' = IF stores[s].counter = Unset THEN copied ELSE copied \cup {Len(stores')}

\* The take_header_from constructor: other data, the same header.
TakeHeader(m, p) ==
  LET s == messages[m] IN
  /\ Add([stores[s] EXCEPT !.user = [x |-> Written(p)]], [x |-> p], signer[s])
  /\ copied' = IF s \in copied THEN copied \cup {Len(stores')} ELSE copied

\* set_sender_info: a counter that is not set, and a guid that is not set and
\* the name with it.  A name that is too long throws after that.
Signed(store, n) ==
  [store EXCEPT !.counter = IF @ = Unset THEN n ELSE @,
                !.guid = IF @ = NoNode THEN n ELSE @,
                !.source = IF store.guid # NoNode \/ n \in LongNamed THEN @ ELSE n]

\* The counter of node n is n.
Sign(m, n) ==
  /\ stores' = [stores EXCEPT ![messages[m]] = Signed(@, n)]
  /\ signer' = [signer EXCEPT ![messages[m]] = IF @ = NoNode THEN n ELSE @]
  /\ UNCHANGED <<messages, meant, copied>>

\* TensorMessage::set_value: the bytes are overwritten where they are.
SetValue(m, k, t) ==
  LET s == messages[m] IN
  /\ k \in DOMAIN meant[s] /\ meant[s][k].codec = "xtensor"
  /\ t.dtype = meant[s][k].of.dtype /\ t.shape = meant[s][k].of.shape
  /\ stores' = [stores EXCEPT ![s].user[k].of.data.of = Laid("row major", t)]
  /\ meant' = [meant EXCEPT ![s][k].of = t]
  /\ UNCHANGED <<messages, copied, signer>>

Next ==
  \/ \E i \in DOMAIN Payloads : Make(Payloads[i])
  \/ \E m \in DOMAIN messages :
       \/ Send(m)
       \/ View(m)
       \/ \E omit \in SUBSET {"x", "y"}, i \in Extras : Copy(m, omit, Payloads[i])
       \/ \E i \in Extras : TakeHeader(m, Payloads[i])
       \/ \E n \in Nodes : Sign(m, n)
       \/ \E k \in {"x", "y"}, i \in DOMAIN Payloads :
            Payloads[i].codec = "xtensor" /\ SetValue(m, k, Payloads[i].of)

Spec == Init /\ [][Next]_vars

-----------------------------------------------------------------------------
(* Properties.                                                             *)

\* P(what was put there, what is there) for every key of every message
ForEach(P(_, _)) ==
  \A s \in DOMAIN stores : \A k \in DOMAIN meant[s] : P(meant[s][k], stores[s].user[k])

\* Copies of copies mean what the original value meant (copy_flex).
ValuesIntact ==
  ForEach(LAMBDA p, v : p.codec = "value" => Meaning(v) = Meaning(p.of))

\* numpy's name for the type of t
NumpyTyped(t) == [t EXCEPT !.dtype = NumpyTypes[NumpyIndexOf(@) + 1]]

\* A Python value as Python code sees it again: a tuple is a list, a bytearray is
\* bytes, and intp is the name of another type.  Nothing is lost.
RECURSIVE AsRead(_)
AsRead(x) ==
  CASE x.type = "bytearray" -> Flex("bytes", x.of)
    [] x.type \in {"list", "tuple"} -> Flex("list", Mapped(AsRead, x.of))
    [] x.type = "dict" -> Flex("dict", Mapped(AsRead, x.of))
    [] x.type = "ndarray" -> Flex("ndarray", NumpyTyped(x.of))
    [] OTHER -> x

\* What a value is for the exceptions to be made below.
KindOf(x) ==
  CASE OnlyTensorKeys(x) /\ DOMAIN x.of = {"shape", "data", "dtype"} -> "tensor dict"
    [] OnlyTensorKeys(x) /\ DOMAIN x.of # {"shape", "data", "dtype"} ->
         IF "shape" \in DOMAIN x.of /\ x.of.shape.type \notin {"list", "tuple"}
         THEN "dict" ELSE "partial tensor dict"
    [] x.type = "ndarray" /\ x.of.shape = <<>> -> "scalar array"
    [] OTHER -> x.type

RECURSIVE Holds(_, _)
Holds(x, kinds) ==
  \/ KindOf(x) \in kinds
  \/ x.type \in {"dict", "list", "tuple"} /\ \E k \in DOMAIN x.of : Holds(x.of[k], kinds)

\* Python code reads what other Python code wrote, if that contains none of kinds.
ComesBackWithout(kinds) ==
  ForEach(LAMBDA p, v :
    p.codec = "python" /\ ~Holds(p.of, kinds) => Decoded(Loaded(v)) = AsRead(p.of))

\* what a writer drops or cannot say apart
Dropped == {"None", "bool", "tensor dict"}

\* Python code finds in a message what other Python code put into it, also when
\* C++ nodes have copied it: all but what is dropped, arrays of rank 0 and dicts
\* with a part of the keys of a tensor, the empty dict among them (_serialize,
\* copy_flex, flex_decode).
PythonReads == ComesBackWithout(Dropped \cup {"scalar array", "partial tensor dict"})

\* "Does the dict have all those keys?": a dict that has only a part of the keys of a
\* tensor is a dict.  The code breaks it: _dicthaskeys asks whether all keys of the
\* dict are among those, and _istensormap raises KeyError for the first one missing.
PartialDictsRead == ComesBackWithout(Dropped \cup {"scalar array"})

\* v is what numpy reads as t
IsNumpy(v, t) == Decoded(Loaded(v)) = Flex("ndarray", NumpyTyped(t))

\* Whoever reads v as a tensor gets t, unless he asks for another type or rank:
\* xtensor, Eigen in row-major order, and numpy if there is a shape.
ReadAs(v, t) ==
  /\ \A dtype \in DTypes : XarrayOf(v, dtype) = IF dtype = t.dtype THEN t ELSE Thrown
  /\ \A rank \in 0..3 : XtensorOf(v, t.dtype, rank) =
       IF t.dtype \in DTypes /\ rank = Len(t.shape) THEN t ELSE Thrown
  /\ \A rows, columns \in {-1, 2, 3} : EigenOf(v, t.dtype, rows, columns, "row major") =
       IF /\ t.dtype \in DTypes /\ Len(t.shape) = 2
          /\ rows \in {-1, Rows(t.shape)} /\ columns \in {-1, Columns(t.shape)}
       THEN t ELSE Thrown
  /\ t.shape # <<>> => IsNumpy(v, t)

\* the tensor that xtensor, Eigen or numpy wrote
IsTensorPayload(p) ==
  p.codec \in {"xtensor", "row major", "column major"} \/ (p.codec = "python" /\ p.of.type = "ndarray")
TensorOf(p) == IF p.codec = "python" THEN NumpyTyped(p.of.of) ELSE p.of

\* xtensor, Eigen in row-major order and numpy agree on every tensor that one of them
\* wrote, whoever overwrote and copied it, but for numpy on rank 0; and Eigen in its
\* default order reads what it wrote in it.  See NumpyReadsAll and EigenReads for
\* the rest (serialize_flex_tensor, serialize_eigen_matrix, build_tensor).
TensorsAgree ==
  ForEach(LAMBDA p, v : IsTensorPayload(p) =>
    IF p.codec = "column major" THEN EigenOf(v, p.of.dtype, -1, -1, "column major") = p.of
                                ELSE ReadAs(v, TensorOf(p)))

\* "where we encounter a tensormap we instantiate a numpy tensor instead", whatever
\* its rank.  The code breaks it: a tensor without a shape is None
\* (_numpy_tensor_from_tensor_map).
NumpyReadsAll ==
  ForEach(LAMBDA p, v :
    IsTensorPayload(p) /\ p.codec # "column major" => IsNumpy(v, TensorOf(p)))

\* "numpy tensors (that can be interpreted at the c++-level as xtensor or eigen
\* objects)": a numpy matrix is that matrix for Eigen with its default options.  The
\* code breaks it: Eigen takes the bytes, which are rows, for columns
\* (deserialize_eigen_matrix).
EigenReads ==
  ForEach(LAMBDA p, v :
    p.codec = "python" /\ p.of.type = "ndarray" /\ Len(p.of.of.shape) = 2 =>
      EigenOf(v, p.of.of.dtype, -1, -1, "column major") = p.of.of)

\* A message has the guid of the node that signalled it first, and a copy without the
\* header that of the first to signal the copy.  It has the name of the node whose
\* guid it has, or no name if that is too long, and it has that node's counter,
\* unless it is a copy and then has the counter of the original (set_sender_info,
\* and the two constructors).
HeaderIsOfSource ==
  \A s \in DOMAIN stores :
    LET c == stores[s] IN
      /\ c.guid = signer[s]
      /\ c.source = IF c.guid \in LongNamed THEN NoNode ELSE c.guid
      /\ c.guid # NoNode /\ s \notin copied => c.counter = c.guid

=============================================================================
