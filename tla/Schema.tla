---------------------------------- MODULE Schema ----------------------------------
(***************************************************************************)
(* The schema subset of nimna/execution/tool_registry.py                   *)
(* (validate_schema_definition, validate_instance).                        *)
(*                                                                         *)
(* A JSON value is a function from the paths of its nodes to the nodes, a  *)
(* path being the keys that lead to it; a schema is one too, whose paths   *)
(* also go through "items" (of arrays) and "others" (additional            *)
(* properties).  Texts and sizes of descriptors are abstracted.            *)
(***************************************************************************)
EXTENDS Integers, SequencesExt

CONSTANTS
  Values,    \* the arguments and results of an instance, by name
  Schemas    \* its schemas, by name

Types == {"object", "array", "string", "integer", "number", "boolean", "null"}

(* A node of a value; size is its length, or its number of elements. *)
Node(type, text, size) == [type |-> type, text |-> text, size |-> size]

Unlimited == 1000   \* more than any size of an instance

(* A node of a schema: "any" and {} when nothing is asked for.  closed:    *)
(* additionalProperties is false; declares: it has properties, if only {}. *)
Asks == [type |-> "any", enum |-> {}, empty |-> FALSE, declares |-> FALSE, required |-> {},
         closed |-> FALSE, items |-> <<0, Unlimited>>, length |-> <<0, Unlimited>>]

(* validate_schema_definition(), as register() and replace() ask. *)
WellDefined(schema) ==
  \A p \in DOMAIN schema :
    LET node == schema[p] IN
    /\ node.type \in Types \cup {"any"}
    /\ node.declares => \A key \in node.required : Append(p, key) \in DOMAIN schema
    /\ ~node.empty                   \* an enum without a value
    /\ \A bound \in Range(node.items) \cup Range(node.length) : bound >= 0

(* Where the schema says what is asked of a node of the value. *)
Governing(schema, value, path) ==
  LET at[i \in 0 .. Len(path)] ==
        IF i = 0 THEN <<>>
        ELSE IF value[SubSeq(path, 1, i - 1)].type = "array" THEN Append(at[i - 1], "items")
        ELSE IF Append(at[i - 1], path[i]) \in DOMAIN schema THEN Append(at[i - 1], path[i])
        ELSE Append(at[i - 1], "others")
  IN at[Len(path)]

HasType(node, type) ==
  node.type = type \/ type = "any" \/ (type = "number" /\ node.type = "integer")

Keys(value, path) ==
  {Last(q) : q \in {p \in DOMAIN value : Len(p) = Len(path) + 1 /\ Front(p) = path}}

Between(size, bounds) == size >= bounds[1] /\ size <= bounds[2]

Fits(schema, value, path, at) ==
  LET node == value[path]
      asks == schema[at] IN
  /\ HasType(node, asks.type)
  /\ asks.enum # {} => node.text \in asks.enum
  /\ node.type = "object" =>
       /\ asks.required \subseteq Keys(value, path)
       /\ asks.closed => \A key \in Keys(value, path) : Append(at, key) \in DOMAIN schema
  /\ node.type = "array" => Between(node.size, asks.items)
  /\ node.type = "string" => Between(node.size, asks.length)

(* validate_instance() finds no problem. *)
NoProblem(value, schema) ==
  \A path \in DOMAIN value :
    LET at == Governing(schema, value, path)
    IN at \in DOMAIN schema => Fits(schema, value, path, at)

(* The names of values and schemas of which that is true. *)
Conforming ==
  UNION {{<<v, s>> : v \in {u \in DOMAIN Values : NoProblem(Values[u], Schemas[s])}} :
           s \in DOMAIN Schemas}

Conforms(v, s) == <<v, s>> \in Conforming

===================================================================================
