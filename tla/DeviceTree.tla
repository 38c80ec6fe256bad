----------------------------- MODULE DeviceTree -----------------------------
(***************************************************************************)
(* device_tree_parse_blob of device_tree/blob.c: a loop over the tokens of *)
(* the blob builds nodes and properties, and a second pass over the tree   *)
(* interprets the properties.  The blob is read lazily: every token is     *)
(* chosen when the parser reads it, and tokens, the history of the choice, *)
(* is what the result is compared with.  Nodes and properties are numbered *)
(* in the order of their allocation; a pointer is a number, NULL is 0.     *)
(*                                                                         *)
(* Memory suffices here (Pmm, Slab and Bump are about its end).  A blob    *)
(* with a memory reservation exhausts it all the same: the loop over the   *)
(* reservations allocates and never advances.                              *)
(***************************************************************************)
EXTENDS Errors, SequencesExt

CONSTANTS
  NodeNames,       \* names of nodes other than the root, whose name is empty
  Properties,      \* the properties of the blob, [name, value]
  MaxNodes, MaxProps,    \* bounds on the blob
  Blobs            \* blobs beyond these bounds, as sequences of tokens

ASSUME DeviceTreeAssumption ==
  /\ "" \notin NodeNames
  /\ WordBits >= 8                                     \* an error code fits a word
  /\ MaxNodes \in Nat /\ MaxProps \in Nat
  /\ \A p \in Properties \union UNION {ToSet(b) : b \in Blobs} :
       /\ p.name \in {"#address-cells", "#size-cells", "phandle"} => p.value \in Nat
       /\ p.name = "reg" => p.value \in Nat \ {0}      \* its length, in cells
       /\ p.name = "compatible" => p.value \in Seq(STRING)

VARIABLES
  state,           \* "reset", "structs", "second", "returned", "halted" or "fault"
  tokens,          \* history: the NODE_START, NODE_END and PROPERTY tokens read
  current, depth,  \* the node being parsed, and how deep it is
  root_node,
  nodes, props,    \* what slab_allocate returned from the two arenas, in order
  phandle_map,     \* newest first
  todo,            \* nodes the second pass has yet to visit, with their cells
  visit,           \* the call in progress of the second pass
  err              \* what device_tree_parse_blob returned

vars == <<state, tokens, current, depth, root_node, nodes, props, phandle_map,
          todo, visit, err>>

NULL == 0

DEFAULT_ADDRESS_CELLS == 2
DEFAULT_SIZE_CELLS == 1

NoVisit == [node |-> NULL, prop |-> NULL,
            next_address_cells |-> 0, next_size_cells |-> 0]

\* The lists through sibling and next_prop, from a node or a property on.
SiblingsFrom[n \in 0..Len(nodes)] ==
  IF n = NULL THEN << >> ELSE <<n>> \o SiblingsFrom[nodes[n].sibling]

PropertiesFrom[k \in 0..Len(props)] ==
  IF k = NULL THEN << >> ELSE <<k>> \o PropertiesFrom[props[k].next_prop]

Init ==
  /\ state = "reset" /\ tokens = << >>
  /\ current = NULL /\ depth = 0 /\ root_node = NULL
  /\ nodes = << >> /\ props = << >> /\ phandle_map = << >>
  /\ todo = << >> /\ visit = NoVisit
  /\ err = EC_SUCCESS

Return(e) ==
  /\ state' = "returned"
  /\ err' = e
  /\ UNCHANGED <<current, depth, root_node, nodes, props, phandle_map, todo, visit>>

\* PANIC and ASSERT end in a loop; a NULL pointer is followed in a fault.
Stop(how) ==
  /\ state' = how
  /\ UNCHANGED <<current, depth, root_node, nodes, props, phandle_map, todo, visit, err>>

\* The header: the magic number, and whether the blob reserves memory.
parse_header(magic, reserves) ==
  /\ state = "reset"
  /\ \/ ~magic /\ Return(EC_DT_BLOB_INVALID_MAGIC)
     \/ magic /\ reserves /\ Stop("halted")
     \/ /\ magic /\ ~reserves
        /\ state' = "structs"
        /\ UNCHANGED <<current, depth, root_node, nodes, props, phandle_map, todo, visit, err>>
  /\ UNCHANGED tokens

-----------------------------------------------------------------------------
(***************************************************************************)
(* The loop over the tokens.                                               *)
(***************************************************************************)
Read(token) ==
  /\ state = "structs"
  /\ tokens' = Append(tokens, token)

NewNode(name) ==
  [name |-> name, parent |-> current,
   sibling |-> IF current = NULL THEN NULL ELSE nodes[current].children,
   children |-> NULL, properties |-> NULL, compatible |-> << >>,
   address_cells |-> 0, size_cells |-> 0]

\* Mutant of device_tree_parse_node: the new node forgets its siblings.
parse_node_alone(name) ==
  LET new  == Len(nodes) + 1
      old  == IF current = NULL THEN nodes ELSE [nodes EXCEPT ![current].children = new]
      root == depth = 0 /\ name = ""
  IN  /\ nodes' = Append(old, [NewNode(IF root THEN "/" ELSE name) EXCEPT !.sibling = NULL])
      /\ current' = new
      /\ depth' = depth + 1
      /\ root_node' = IF root THEN new ELSE root_node
      /\ UNCHANGED <<state, props, phandle_map, todo, visit, err>>

\* The new node becomes the first child of current, and current; the first
\* node is the root if it has no name.
device_tree_parse_node(name) ==
  LET new  == Len(nodes) + 1
      old  == IF current = NULL THEN nodes ELSE [nodes EXCEPT ![current].children = new]
      root == depth = 0 /\ name = ""
  IN  /\ nodes' = Append(old, NewNode(IF root THEN "/" ELSE name))
      /\ current' = new
      /\ depth' = depth + 1
      /\ root_node' = IF root THEN new ELSE root_node
      /\ UNCHANGED <<state, props, phandle_map, todo, visit, err>>

\* Mutant of node_end: the depth is reduced twice.
node_end_twice ==
  /\ current # NULL
  /\ current' = nodes[current].parent
  /\ depth' = depth - 2
  /\ UNCHANGED <<state, root_node, nodes, props, phandle_map, todo, visit, err>>

node_end ==
  \/ current = NULL /\ Stop("fault")
  \/ /\ current # NULL
     /\ current' = nodes[current].parent
     /\ depth' = depth - 1
     /\ UNCHANGED <<state, root_node, nodes, props, phandle_map, todo, visit, err>>

device_tree_first_pass_property(p) ==
  \/ current = NULL /\ Stop("fault")
  \/ /\ current # NULL
     /\ props' = Append(props, [name |-> p.name, type |-> "RAW", value |-> p.value,
                                next_prop |-> nodes[current].properties])
     /\ nodes' = [nodes EXCEPT ![current].properties = Len(props) + 1]
     /\ UNCHANGED <<state, current, depth, root_node, phandle_map, todo, visit, err>>

\* A call of device_tree_second_pass_properties, the cells its caller has set.
Call(n, address_cells, size_cells) ==
  [node |-> n, address_cells |-> address_cells, size_cells |-> size_cells]

\* The end of the blob: the second pass begins at the root.
structs_end ==
  \/ current # NULL /\ Stop("halted")
  \/ current = NULL /\ root_node = NULL /\ Return(EC_DT_BLOB_EMPTY_TREE)
  \/ /\ current = NULL /\ root_node # NULL
     /\ state' = "second"
     /\ todo' = <<Call(root_node, DEFAULT_ADDRESS_CELLS, DEFAULT_SIZE_CELLS)>>
     /\ UNCHANGED <<current, depth, root_node, nodes, props, phandle_map, visit, err>>

Start(name)  == [kind |-> "NODE_START", name |-> name, value |-> 0]
NodeEnd      == [kind |-> "NODE_END", name |-> "", value |-> 0]
Property(p)  == [kind |-> "PROPERTY", name |-> p.name, value |-> p.value]

\* What a blob may hold: exactly the nodes at the top are nameless, and a node
\* has one property of a name.
NameAllowed(name) == name = "" <=> current = NULL

NewName(name) ==
  current # NULL =>
    \A k \in ToSet(PropertiesFrom[nodes[current].properties]) : props[k].name # name

\* A token is read within the bounds, or as the next one of a blob of Blobs.
BlobPrefixes == UNION {{SubSeq(b, 1, n) : n \in 1..Len(b)} : b \in Blobs}

BlobProperties ==
  Properties \union
  {[name |-> t.name, value |-> t.value] :
     t \in {u \in UNION {ToSet(b) : b \in Blobs} : u.kind = "PROPERTY"}}

Within(bound, token) == ~bound => Append(tokens, token) \in BlobPrefixes

Token ==
  \/ \E name \in NodeNames \union {""} :
       /\ Within(Len(nodes) < MaxNodes, Start(name)) /\ NameAllowed(name)
       /\ Read(Start(name)) /\ device_tree_parse_node(name)
  \/ Read(NodeEnd) /\ node_end
  \/ \E p \in BlobProperties :
       /\ Within(p \in Properties /\ Len(props) < MaxProps, Property(p)) /\ NewName(p.name)
       /\ Read(Property(p)) /\ device_tree_first_pass_property(p)
  \/ state = "structs" /\ UNCHANGED vars                              \* NOP
  \/ state = "structs" /\ structs_end /\ UNCHANGED tokens             \* END
  \/ state = "structs" /\ Stop("halted") /\ UNCHANGED tokens          \* unknown

-----------------------------------------------------------------------------
(***************************************************************************)
(* The second pass.  A call of device_tree_second_pass_properties goes     *)
(* over the properties of its node, rewrites reg, then goes over the       *)
(* children, each with its own subtree: the calls still to make are the    *)
(* stack todo.                                                             *)
(***************************************************************************)
EnterNode ==
  /\ state = "second" /\ visit = NoVisit /\ todo # << >>
  /\ LET call == Head(todo)
     IN  /\ nodes' = [nodes EXCEPT ![call.node].address_cells = call.address_cells,
                                   ![call.node].size_cells = call.size_cells]
         /\ visit' = [node |-> call.node, prop |-> nodes[call.node].properties,
                      next_address_cells |-> call.address_cells,
                      next_size_cells |-> call.size_cells]
         /\ todo' = Tail(todo)
  /\ UNCHANGED <<state, tokens, current, depth, root_node, props, phandle_map, err>>

\* The property p of the visit has been read as type; the visit goes on as v.
Interpret(type, v) ==
  /\ props' = [props EXCEPT ![visit.prop].type = type]
  /\ visit' = [v EXCEPT !.prop = props[visit.prop].next_prop]
  /\ UNCHANGED <<state, current, depth, root_node, todo, err>>

compatible_property(p) ==
  /\ p.name = "compatible"
  /\ \/ p.value = << >> /\ Stop("halted")     \* no room is asked for, none is given
     \/ /\ p.value # << >>
        /\ Interpret("COMPATIBLE", visit)
        /\ nodes' = [nodes EXCEPT ![visit.node].compatible = p.value]
        /\ UNCHANGED phandle_map

address_cells_property(p) ==
  /\ p.name = "#address-cells"
  /\ \/ /\ p.value > 3
        /\ Return(error_push(EC_DT_ADDRESS_CELLS_TOO_LARGE, EC_DT_BLOB_REWRITE_FAILED))
     \/ /\ p.value <= 3
        /\ Interpret("ADDRESS_CELLS", [visit EXCEPT !.next_address_cells = p.value])
        /\ UNCHANGED <<nodes, phandle_map>>

size_cells_property(p) ==
  /\ p.name = "#size-cells"
  /\ \/ /\ p.value > 2
        /\ Return(error_push(EC_DT_SIZE_CELLS_TOO_LARGE, EC_DT_BLOB_REWRITE_FAILED))
     \/ /\ p.value <= 2
        /\ Interpret("SIZE_CELLS", [visit EXCEPT !.next_size_cells = p.value])
        /\ UNCHANGED <<nodes, phandle_map>>

phandle_property(p) ==
  /\ p.name = "phandle"
  /\ Interpret("PHANDLE", visit)
  /\ phandle_map' = <<[phandle |-> p.value, node |-> visit.node]>> \o phandle_map
  /\ UNCHANGED nodes

\* "reg" has to wait for the cells, and other names are printed.
other_property(p) ==
  /\ p.name \notin {"compatible", "#address-cells", "#size-cells", "phandle"}
  /\ Interpret(p.type, visit)
  /\ UNCHANGED <<nodes, phandle_map>>

ReadProperty ==
  /\ state = "second" /\ visit.prop # NULL
  /\ LET p == props[visit.prop]
     IN  \/ compatible_property(p) \/ address_cells_property(p) \/ size_cells_property(p)
         \/ phandle_property(p) \/ other_property(p)
  /\ UNCHANGED tokens

\* The first property of that name on the node's list, NULL if there is none.
device_tree_get_property(n, name) ==
  LET list  == PropertiesFrom[nodes[n].properties]
      first == SelectInSeq(list, LAMBDA k : props[k].name = name)
  IN  IF first = 0 THEN NULL ELSE list[first]

\* The cells of an address and a size in the reg of the node visited.
NodeCells == nodes[visit.node].address_cells + nodes[visit.node].size_cells

\* reg is cut into pairs.  Without any cells the hart's division by zero leaves
\* the whole length as remainder, which fails an ASSERT as any other remainder
\* does.
Whole(k) ==
  IF NodeCells = 0 THEN FALSE ELSE props[k].value % NodeCells = 0

\* Numbers of one and two cells are read as such; one of three is read as four
\* cells, the one behind it included, and stored over what follows its place.
Width(cells) == IF cells = 3 THEN 4 ELSE cells

\* The cells of a property from its j-th on, by their places in it.
CellsFrom(j, cells) == [d \in 1..Width(cells) |-> j + d]

RegValue(length) ==
  LET node == nodes[visit.node]
      n    == length \div NodeCells
  IN  [n_pairs   |-> n,
       addresses |-> [i \in 1..n |-> CellsFrom((i - 1) * NodeCells, node.address_cells)],
       sizes     |-> [i \in 1..n |-> CellsFrom((i - 1) * NodeCells + node.address_cells,
                                                node.size_cells)]]

rewrite_reg_property(k) ==
  props' = [props EXCEPT ![k].type = "REG", ![k].value = RegValue(@)]

\* Mutant of ChildCall: children get the cells of the node itself.
OwnCells(n) == Call(n, nodes[visit.node].address_cells, nodes[visit.node].size_cells)

\* The call for the child n of the node visited.
ChildCall(n) == Call(n, visit.next_address_cells, visit.next_size_cells)

\* The properties are read: reg, which a node has at most once, is rewritten,
\* and the children come next, before what waits already.
FinishNode ==
  /\ state = "second" /\ visit # NoVisit /\ visit.prop = NULL
  /\ LET reg      == device_tree_get_property(visit.node, "reg")
         children == SiblingsFrom[nodes[visit.node].children]
     IN  \/ reg # NULL /\ ~Whole(reg) /\ Stop("halted")
         \/ /\ \/ reg = NULL /\ UNCHANGED props
               \/ reg # NULL /\ Whole(reg) /\ rewrite_reg_property(reg)
            /\ todo' = [i \in 1..Len(children) |-> ChildCall(children[i])] \o todo
            /\ visit' = NoVisit
            /\ UNCHANGED <<state, current, depth, root_node, nodes, phandle_map, err>>
  /\ UNCHANGED tokens

SecondPassDone ==
  /\ state = "second" /\ visit = NoVisit /\ todo = << >>
  /\ Return(EC_SUCCESS)
  /\ UNCHANGED tokens

Next ==
  \/ \E magic, reserves \in BOOLEAN : parse_header(magic, reserves)
  \/ Token
  \/ EnterNode \/ ReadProperty \/ FinishNode \/ SecondPassDone

Spec == Init /\ [][Next]_vars

-----------------------------------------------------------------------------
(***************************************************************************)
(* Queries on a tree.                                                      *)
(***************************************************************************)
\* Mutant of from_compatible_recursive: the siblings are not searched.
from_compatible_down(n, compatible) ==
  LET find[m \in 0..Len(nodes)] ==
        CASE m = NULL -> NULL
          [] m # NULL /\ compatible \in ToSet(nodes[m].compatible) -> m
          [] OTHER -> find[nodes[m].children]
  IN  find[n]

from_compatible_recursive(n, compatible) ==
  LET find[m \in 0..Len(nodes)] ==
        CASE m = NULL -> NULL
          [] m # NULL /\ compatible \in ToSet(nodes[m].compatible) -> m
          [] OTHER -> IF find[nodes[m].children] # NULL THEN find[nodes[m].children]
                                                        ELSE find[nodes[m].sibling]
  IN  find[n]

dt_node_from_compatible(compatible) == from_compatible_recursive(root_node, compatible)

-----------------------------------------------------------------------------
(***************************************************************************)
(* Every variable has its type; depth, a size_t, does not pass below zero. *)
(***************************************************************************)
TypeOK ==
  /\ state \in {"reset", "structs", "second", "returned", "halted", "fault"}
  /\ current \in 0..Len(nodes) /\ root_node \in 0..Len(nodes) /\ depth \in Nat
  /\ \A n \in 1..Len(nodes) :
       /\ {nodes[n].parent, nodes[n].sibling} \subseteq 0..(n - 1)
       /\ nodes[n].children \in {NULL} \union (n + 1)..Len(nodes)
       /\ nodes[n].properties \in 0..Len(props)
       /\ nodes[n].address_cells \in 0..3 /\ nodes[n].size_cells \in 0..2
  /\ \A k \in 1..Len(props) : props[k].next_prop \in 0..(k - 1)
  /\ \A i \in 1..Len(todo) : todo[i].node \in 1..Len(nodes)
  /\ visit.node \in 0..Len(nodes) /\ visit.prop \in 0..Len(props)
  /\ err \in Nat

(***************************************************************************)
(* What the blob says, read off its tokens: how deep the parser is behind  *)
(* the k-th token, and which node (the j-th of those begun is number j)    *)
(* is the last one begun at a depth.                                       *)
(***************************************************************************)
Starts(k) == {j \in 1..k : tokens[j].kind = "NODE_START"}
Ends(k)   == {j \in 1..k : tokens[j].kind = "NODE_END"}
Depth(k)  == Cardinality(Starts(k)) - Cardinality(Ends(k))

OpenAt(k, d) ==
  IF d <= 0 THEN NULL
  ELSE Cardinality(Starts(Max({j \in Starts(k) : Depth(j) = d})))

StartOf(n)   == CHOOSE k \in Starts(Len(tokens)) : Cardinality(Starts(k)) = n
ParentIn(n)  == OpenAt(StartOf(n) - 1, Depth(StartOf(n)) - 1)
Declared(n)  == {k \in 1..Len(tokens) : tokens[k].kind = "PROPERTY" /\ OpenAt(k, Depth(k)) = n}
Value(n, name) == {tokens[k].value : k \in {j \in Declared(n) : tokens[j].name = name}}

Nodes == 1..Len(nodes)

(***************************************************************************)
(* The pointers mirror the nesting of the blob at every token: each node   *)
(* hangs below the node that encloses it, each list of children holds      *)
(* exactly the nodes enclosed and each list of properties exactly those    *)
(* between the node's tokens; current is the innermost open node, and the  *)
(* root the last nameless node at the top.  (device_tree_parse_node pushes *)
(* in front of two lists while NODE_END climbs the tree.)                  *)
(***************************************************************************)
TreeMirrorsBlob ==
  /\ \A n \in Nodes :
       /\ nodes[n].parent = ParentIn(n)
       /\ LET listed == SiblingsFrom[nodes[n].children]
          IN  /\ \A i \in DOMAIN listed : ParentIn(listed[i]) = n
              /\ Len(listed) = Cardinality({m \in Nodes : nodes[m].parent = n})
       /\ LET listed   == PropertiesFrom[nodes[n].properties]
              declared == Declared(n)
          IN  /\ Len(listed) = Cardinality(declared)
              /\ {props[listed[i]].name : i \in DOMAIN listed} = {tokens[k].name : k \in declared}
  /\ state = "structs" => current = OpenAt(Len(tokens), Depth(Len(tokens)))
  /\ LET tops == {n \in Nodes : ParentIn(n) = NULL /\ tokens[StartOf(n)].name = ""}
     IN  root_node = IF tops = {} THEN NULL ELSE Max(tops)

\* The nodes of the tree of the root.
Tree ==
  LET top[n \in Nodes] == IF ParentIn(n) = NULL THEN n ELSE top[ParentIn(n)]
  IN  {n \in Nodes : top[n] = root_node}

\* The value of the nearest proper ancestor that declares the name.
Inherited(name, default) ==
  LET cells[n \in Nodes] ==
        LET p == ParentIn(n)
        IN  CASE p = NULL -> default
              [] p # NULL /\ Value(p, name) # {} -> CHOOSE v \in Value(p, name) : TRUE
              [] OTHER -> cells[p]
  IN  cells

Succeeded == state = "returned" /\ err = EC_SUCCESS

(***************************************************************************)
(* When parsing succeeds, every node of the tree has the cells its nearest *)
(* declaring ancestor sets (2 and 1 if none does), never its own, and its  *)
(* reg has been cut into pairs by exactly these: put side by side again,   *)
(* the addresses and sizes are the cells of the property, each once and in *)
(* order.  blob.h promises "the number of <u32> cells used to encode the   *)
(* address field in this node's reg property".  Addresses of three cells   *)
(* are left out here: the code reads four.                                 *)
(***************************************************************************)
CellsInherited ==
  Succeeded =>
    LET ac == Inherited("#address-cells", DEFAULT_ADDRESS_CELLS)
        sc == Inherited("#size-cells", DEFAULT_SIZE_CELLS)
    IN  \A n \in Tree :
          /\ nodes[n].address_cells = ac[n] /\ nodes[n].size_cells = sc[n]
          /\ \A length \in Value(n, "reg") :
               LET reg == props[device_tree_get_property(n, "reg")]
                   pairs == [i \in 1..reg.value.n_pairs |->
                               reg.value.addresses[i] \o reg.value.sizes[i]]
               IN  /\ reg.type = "REG"
                   /\ \A i \in DOMAIN pairs : ac[n] # 3 => Len(reg.value.addresses[i]) = ac[n]
                   /\ ac[n] # 3 => FlattenSeq(pairs) = [c \in 1..length |-> c]

(***************************************************************************)
(* When parsing succeeds, dt_node_from_compatible finds a node exactly     *)
(* when some node of the tree lists the string, at any depth and behind    *)
(* any sibling, and what it finds lists it; device_tree_get_property finds *)
(* exactly the properties the blob has there; and the phandle map holds    *)
(* exactly the declared phandles.                                          *)
(***************************************************************************)
LookupFinds ==
  Succeeded =>
    LET listing(c) == {n \in Tree : \E v \in Value(n, "compatible") : c \in ToSet(v)}
    IN  /\ \A c \in UNION {ToSet(p.value) : p \in {q \in BlobProperties : q.name = "compatible"}} :
             IF listing(c) = {} THEN dt_node_from_compatible(c) = NULL
                                ELSE dt_node_from_compatible(c) \in listing(c)
        /\ \A n \in Tree, p \in BlobProperties :
             LET k == device_tree_get_property(n, p.name)
             IN  IF Value(n, p.name) = {} THEN k = NULL ELSE k # NULL /\ props[k].name = p.name
        /\ ToSet(phandle_map) = UNION {{[phandle |-> v, node |-> n] : v \in Value(n, "phandle")} : n \in Tree}
=============================================================================
