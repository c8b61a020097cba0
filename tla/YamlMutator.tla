---------------------------- MODULE YamlMutator ----------------------------
(***************************************************************************)
(* The mutator of YAML nodes (yaml_mutator.cpp and its headers).  Numbers  *)
(* and truth values are turned into bytes, mutated by a Mutator and turned *)
(* back; sequences lose, repeat and exchange items; the keys of maps and   *)
(* strings stay.  A number comes back as any number of its C++ type, for   *)
(* Mutator may flip any bit; what matters is how it is written into the    *)
(* node and read from there at the next mutation.                          *)
(*                                                                         *)
(* A behaviour is that of a Mutator alone, whose caller may change all its *)
(* settings, or that of a YamlMutator, which sets the weights of its own   *)
(* Mutator and gives it the bytes of scalars.                              *)
(***************************************************************************)
EXTENDS Mutator, Sequences

CONSTANTS
    Corpora,        \* the nodes to mutate: maps or sequences
    Keys,           \* the keys that maps may have
    Levels,         \* bound: how deep nodes are nested
    MaxDepth        \* bound: how many mutations one node undergoes

VARIABLES
    seed,       \* the node that mutate() is given
    corpus_,    \* the node as it is now
    mutate_depth

vars == <<mutatorVars, seed, corpus_, mutate_depth>>

Scalar(text) == [text |-> text]
List(items) == [items |-> items]
Map(fields) == [fields |-> fields]

Absent == [absent |-> TRUE]     \* where a map has no such key
NoCorpus == [none |-> TRUE]     \* before mutate(), and of a Mutator alone
Broken == [broken |-> TRUE]     \* keys_[index] of a map without keys

IsScalar(node) == DOMAIN node = {"text"}
IsSequence(node) == DOMAIN node = {"items"}
IsMap(node) == DOMAIN node = {"fields"}

\* keys_ of getRandomKey_YamlNode()
KeysOf(fields) == {key \in Keys : fields[key] # Absent}

\* How a scalar may be written; "large" is a whole number beyond int.
Texts == {"word", "whole", "decimal", "large", "nan", "bool", "null"}

\* getValueType(): the first of int, double and bool that reads all of it.
ValueType(text) ==
    CASE text = "whole" -> "Integer"
      [] text \in {"decimal", "large", "nan"} -> "Double"
      [] text = "bool" -> "Bool"
      [] text = "null" -> "Empty"
      [] text = "word" -> "String"

\* How many bytes IntToUint8(), DoubleToUint8() and BoolToUint8() make.
SizesOf(text) ==
    CASE ValueType(text) = "Integer" -> {4}
      [] ValueType(text) = "Double" -> {8}
      [] ValueType(text) = "Bool" -> {1}
      [] OTHER -> {}

ScalarSizes == {1, 4, 8}

\* Nodes: scalars, sequences of nodes, and maps from keys to nodes; NodesOver
\* adds a level to the nodes that it is given.
NodesOver(parts) ==
    [text : Texts] \cup [items : Seq(parts)]
      \cup [fields : [Keys -> parts \cup {Absent}]]

Nodes[levels \in Nat] ==
    IF levels = 0 THEN {} ELSE NodesOver(Nodes[levels - 1])

ASSUME YamlAssumption ==
    /\ Levels \in Nat \ {0}
    /\ MaxDepth \in Nat
    /\ Corpora \subseteq {node \in Nodes[Levels] : ~IsScalar(node)}

\* What the bytes may be read as after any mutation; missing ones are zero.
Uint8ToInt == {"whole"}
Uint8ToDouble == {"whole", "decimal", "large", "nan"}
Uint8ToBool == {"bool"}

\* std::to_string() of a double, and the way YAML writes one.
to_string(number) == "decimal"
Written(number) == number

\* Fault: every double is written as YAML writes it.
PlainText(number) == Written(number)

\* A double that has become an integer is not written as one.
DoubleText(number) ==
    IF number = "whole" THEN to_string(number) ELSE Written(number)

\* The cases of mutate_item() for scalars.
MutateScalar(text) ==
    CASE ValueType(text) = "Integer" -> Uint8ToInt
      [] ValueType(text) = "Double" ->
           {DoubleText(number) : number \in Uint8ToDouble}
      [] ValueType(text) = "Bool" -> Uint8ToBool
      [] OTHER -> {}

-----------------------------------------------------------------------------

list_erase_item(items) ==
    {List(SubSeq(items, 1, i - 1) \o SubSeq(items, i + 1, Len(items))) :
       i \in DOMAIN items}

list_insert_item(items) == {List(Append(items, items[i])) : i \in DOMAIN items}

list_swap_item(items) ==
    {List([items EXCEPT ![i] = items[j], ![j] = items[i]]) :
       i, j \in DOMAIN items}

\* An item is replaced, unless its mutation breaks the program.  What may come
\* of each item is in mutants.
list_value_mutate(items, mutants) ==
    UNION {{IF m = Broken THEN Broken ELSE List([items EXCEPT ![i] = m]) :
              m \in mutants[items[i]]} : i \in DOMAIN items}

mutate_list(items, mutants) ==
    list_value_mutate(items, mutants) \cup list_swap_item(items)
      \cup list_insert_item(items) \cup list_erase_item(items)

\* What one successful mutation may make of a sequence or a map.
mutate_yaml(node, mutants) ==
    IF IsSequence(node) THEN mutate_list(node.items, mutants)
    ELSE IF KeysOf(node.fields) = {} THEN {Broken}
    ELSE UNION {{IF m = Broken THEN Broken
                 ELSE Map([node.fields EXCEPT ![key] = m]) :
                   m \in mutants[node.fields[key]]} : key \in KeysOf(node.fields)}

\* And of any node; nothing happens to strings and empty values.
mutate_item(node, mutants) ==
    IF IsScalar(node) THEN {Scalar(t) : t \in MutateScalar(node.text)}
    ELSE mutate_yaml(node, mutants)

Mutants[levels \in Nat] ==
    [node \in Nodes[levels] |-> mutate_item(node, Mutants[levels - 1])]

\* The sizes of the arrays that mutate_item() makes of the scalars of a node.
ByteSizes[levels \in Nat] ==
    [node \in Nodes[levels] |->
       IF IsScalar(node) THEN SizesOf(node.text)
       ELSE LET parts == IF IsSequence(node)
                         THEN {node.items[i] : i \in DOMAIN node.items}
                         ELSE {node.fields[key] : key \in KeysOf(node.fields)}
            IN  UNION {ByteSizes[levels - 1][part] : part \in parts}]

\* Up to 15 attempts; all may fail, or end with what there was.  The last that
\* came to a scalar had mutator_ change its bytes; which scalar it was is not
\* recorded.
mutate_once ==
    /\ corpus_ \notin {NoCorpus, Broken}
    /\ mutate_depth > 0
    /\ mutate_depth' = mutate_depth - 1
    /\ corpus_' \in mutate_yaml(corpus_, Mutants[Levels - 1]) \cup {corpus_}
    /\ \/ \E bytes \in ScalarSizes :
            bytes \in ByteSizes[Levels][corpus_] /\ Mutate(bytes)
       \/ UNCHANGED mutatorVars
    /\ UNCHANGED seed

\* The weights are set, and set_corpus() takes a map or a sequence.
API_mutate ==
    /\ corpus_ = NoCorpus /\ seed # NoCorpus
    /\ SetKnobs
    /\ corpus_' = seed
    /\ mutate_depth' = MaxDepth
    /\ UNCHANGED <<seed, did>>

Init ==
    /\ MutatorInit
    /\ seed \in Corpora \cup {NoCorpus}
    /\ corpus_ = NoCorpus
    /\ mutate_depth = 0
    /\ seed # NoCorpus => size = 0

Next ==
    \/ /\ seed = NoCorpus
       /\ Mutate(size) \/ Configure
       /\ UNCHANGED <<seed, corpus_, mutate_depth>>
    \/ API_mutate
    \/ mutate_once

Spec == Init /\ [][Next]_vars

-----------------------------------------------------------------------------

\* One node may come from the other by mutations: the same keys, under each a
\* node that may come from what was there; items that may come from some item;
\* and scalars of the same type.  alike has what may come from each part.
KeepsShape(new, old, alike) ==
    /\ DOMAIN new = DOMAIN old
    /\ IsScalar(new) => ValueType(new.text) = ValueType(old.text)
    /\ IsSequence(new) =>
         \A i \in DOMAIN new.items : \E j \in DOMAIN old.items :
           new.items[i] \in alike[old.items[j]]
    /\ IsMap(new) =>
         /\ KeysOf(new.fields) = KeysOf(old.fields)
         /\ \A key \in KeysOf(new.fields) :
              new.fields[key] \in alike[old.fields[key]]

Alike[levels \in Nat] ==
    [old \in Nodes[levels] |->
       {new \in Nodes[levels] : KeepsShape(new, old, Alike[levels - 1])}]

\* A map without keys, or one among its parts; empty are the parts with one.
HasEmptyMap(node, empty) ==
    \/ /\ IsMap(node)
       /\ \/ KeysOf(node.fields) = {}
          \/ \E key \in KeysOf(node.fields) : node.fields[key] \in empty
    \/ IsSequence(node) /\ \E i \in DOMAIN node.items : node.items[i] \in empty

WithEmptyMap[levels \in Nat] ==
    {node \in Nodes[levels] : HasEmptyMap(node, WithEmptyMap[levels - 1])}

\* However often a node is mutated, its keys and the type of each value, as
\* getValueType() reads it, are those of the node that was given, even of a
\* double that became a whole number (yaml_mutator.hpp:75-82); sequences may
\* get longer or shorter.  And mutate() survives unless some map of the node
\* is empty (yaml_mutator.cpp:22).
ShapeKept ==
    corpus_ # NoCorpus =>
      IF corpus_ = Broken THEN seed \in WithEmptyMap[Levels]
      ELSE corpus_ \in Alike[Levels][seed]

\* InsertBytes() stays inside its buffer as InsertFits says; and in the
\* hands of a YamlMutator, which sets no limit and no alignment, a Mutator
\* neither writes behind it nor divides by zero, and leaves no scalar without
\* bytes, however the weights are set (yaml_mutator.hpp:69-88).
BytesFit ==
    /\ InsertFits
    /\ seed # NoCorpus => fault = "none"
    /\ seed # NoCorpus /\ did # "none" => size > 0

\* Every call of Mutate() leaves a size as MutantSizeIsRight says, of the data
\* of any caller and of the bytes of scalars (mutator.h:143-145, 226-248).
MutantSizes ==
    [][\A data \in {size} \cup ScalarSizes :
         Mutate(data) => MutantSizeIsRight(data)]_mutatorVars

\* "Max length of a generated mutant in bytes" (mutator.h:258): no call of
\* Mutate() makes data that are within it longer than max_len_.
LimitKept == [][Mutate(size) /\ size <= max_len_ => size' <= max_len_]_mutatorVars

=============================================================================
