------------------------------ MODULE HashTable ------------------------------
(***************************************************************************)
(* The hash table of src/hash_table.c: an array of lists of nodes.  The    *)
(* table owns its nodes, the copies of the keys and the values; it frees   *)
(* keys and values through the deallocators it was given.  fh_table copies *)
(* keys only and takes the caller's value over, file_table copies both.    *)
(*                                                                         *)
(* "mem" is the memory: a function from the blocks that are allocated to   *)
(* their contents.  A step is one access of the code to a node.  One       *)
(* thread is in the table at a time; OpenFiles shows what two do.          *)
(***************************************************************************)
EXTENDS Naturals, FiniteSetsExt

CONSTANTS
    Keys, Values,
    NoValue,        \* a NULL value, and no key
    Size,           \* lists in the table
    Hash,           \* the hash function
    ValueCloners,   \* does the table copy values? Both answers, or one of them
    AllocFaults     \* what may fail to be allocated

ASSUME HashTableAssumption ==
    /\ NoValue \notin Keys \cup Values
    /\ Size \in Nat \ {0}
    /\ Hash \in [Keys -> Nat]
    /\ ValueCloners \subseteq BOOLEAN
    /\ AllocFaults \subseteq {"table", "node", "key", "value"}

VARIABLES
    mem,            \* the blocks allocated, and what is in them
    value_cloner,   \* does the table copy values?
    table,          \* the caller's pointer to the table
    call,           \* the call under way and its locals
    before,         \* the mapping when the call was made; nothing reads it
    result          \* what the last call returned

vars == <<mem, value_cloner, table, call, before, result>>

NULL == <<"null", 0>>
Table == <<"table", 1>>
Array == <<"array", 1>>

Block(kind) == {b \in DOMAIN mem : b[1] = kind}

\* malloc: a block that is not in use, the first one there is.
New(kind) ==
    <<kind, Min({i \in 1..Cardinality(Block(kind)) + 1 : <<kind, i>> \notin DOMAIN mem})>>

With(m, block, content) ==
    [b \in DOMAIN m \cup {block} |-> IF b = block THEN content ELSE m[b]]

Without(m, blocks) == [b \in DOMAIN m \ blocks |-> m[b]]

NoCall == [fn |-> "none", pc |-> "idle", key |-> NoValue, value |-> NoValue,
           given |-> NULL, node |-> NULL, list |-> NULL, prev |-> NULL, current |-> NULL, index |-> 0]

index_of(key) == Hash[key] % Size

key_of(node) == mem[mem[node].key]

next_of(node) == IF node \in DOMAIN mem THEN mem[node].next ELSE NULL

\* The node an index of the table refers to after i steps through its list.
Visited(index) ==
    LET w[i \in 0..Cardinality(Block("node"))] ==
            IF i = 0 THEN mem[Array][index] ELSE next_of(w[i - 1])
    IN  w

Listed ==
    (UNION {{Visited(index)[i] : i \in DOMAIN Visited(index)} : index \in 0..Size - 1}) \ {NULL}

(***************************************************************************)
(* The mapping the lists stand for: a key's value is that of the first     *)
(* node that has it.                                                       *)
(***************************************************************************)
Contents ==
    [key \in Keys |->
        LET w == Visited(index_of(key))
            having == {i \in DOMAIN w : w[i] \in DOMAIN mem /\ key_of(w[i]) = key}
        IN  IF table = NULL \/ having = {} THEN NoValue
            ELSE mem[mem[w[Min(having)]].value]]

Init ==
    /\ mem = <<>>
    /\ value_cloner \in ValueCloners
    /\ table = NULL
    /\ call = NoCall
    /\ before = [k \in Keys |-> NoValue]
    /\ result = NoValue

-----------------------------------------------------------------------------
Idle == call.pc = "idle"

\* A failed allocation of the array frees the structure again.
hash_table_create ==
    /\ Idle /\ table = NULL /\ Table \notin DOMAIN mem
    /\ \/ /\ mem' = With(With(mem, Table, "table"), Array, [i \in 0..Size - 1 |-> NULL])
          /\ table' = Table
       \/ "table" \in AllocFaults /\ UNCHANGED <<mem, table>>
    /\ UNCHANGED <<value_cloner, call, before, result>>

Called(c) ==
    /\ Idle /\ table = Table
    /\ call' = c
    /\ before' = Contents
    /\ UNCHANGED <<value_cloner, table, result>>

\* A value that the table does not copy is allocated by the caller, who
\* hands it over.
hash_table_insert(key, value) ==
    LET given == IF value_cloner THEN NULL ELSE New("value")
    IN  /\ Called([NoCall EXCEPT !.fn = "insert", !.pc = "node", !.key = key,
                     !.value = value, !.given = given, !.index = index_of(key)])
        /\ mem' = IF value_cloner THEN mem ELSE With(mem, given, value)

Search(fn, key) ==
    /\ Called([NoCall EXCEPT !.fn = fn, !.pc = "walk", !.key = key,
                 !.index = index_of(key),
                 !.list = mem[Array][index_of(key)],
                 !.current = mem[Array][index_of(key)]])
    /\ UNCHANGED mem

hash_table_lookup(key) == Search("lookup", key)

hash_table_delete(key) == Search("delete", key)

hash_table_free ==
    /\ Called([NoCall EXCEPT !.fn = "free", !.pc = "list"])
    /\ UNCHANGED mem

Return(value) ==
    /\ call' = NoCall
    /\ result' = value
    /\ UNCHANGED <<value_cloner, table, before>>

Go(c) ==
    /\ call' = c
    /\ UNCHANGED <<value_cloner, table, before, result>>

-----------------------------------------------------------------------------
(***************************************************************************)
(* list_insert: a node, a copy of the key, and a copy of the value if the  *)
(* table makes one.  Only when all are there the old node is looked for.   *)
(***************************************************************************)
AllocateNode ==
    /\ call.pc = "node"
    /\ \/ /\ mem' = With(mem, New("node"), [key |-> NULL, value |-> NULL, next |-> NULL])
          /\ Go([call EXCEPT !.pc = "key", !.node = New("node")])
       \/ "node" \in AllocFaults /\ Go([call EXCEPT !.pc = "cleanup"]) /\ UNCHANGED mem

CloneKey ==
    /\ call.pc = "key"
    /\ \/ /\ mem' = With([mem EXCEPT ![call.node].key = New("key")], New("key"), call.key)
          /\ Go([call EXCEPT !.pc = "value"])
       \/ "key" \in AllocFaults /\ Go([call EXCEPT !.pc = "cleanup"]) /\ UNCHANGED mem

\* list_delete is called with the list as it is in the array.
ToWalk == [call EXCEPT !.pc = "walk", !.list = mem[Array][call.index],
                       !.current = mem[Array][call.index]]

CloneValue ==
    /\ call.pc = "value"
    /\ \/ /\ ~value_cloner
          /\ mem' = [mem EXCEPT ![call.node].value = call.given]
          /\ Go(ToWalk)
       \/ /\ value_cloner
          /\ mem' = With([mem EXCEPT ![call.node].value = New("value")],
                         New("value"), call.value)
          /\ Go(ToWalk)
       \/ /\ value_cloner /\ "value" \in AllocFaults
          /\ Go([call EXCEPT !.pc = "cleanup"])
          /\ UNCHANGED mem

\* Mutant: the copy of the key is forgotten.
InsertCleanupKeepsKey ==
    /\ call.pc = "cleanup"
    /\ mem' = Without(mem, {call.node, call.given})
    /\ Return(NoValue)

\* What was copied is freed; a value that was not copied is still the
\* caller's, who frees it.
InsertCleanup ==
    /\ call.pc = "cleanup"
    /\ mem' = Without(mem, {call.node, call.given}
                           \cup IF call.node = NULL THEN {}
                                ELSE {mem[call.node].key, mem[call.node].value})
    /\ Return(NoValue)

(***************************************************************************)
(* The loop of list_lookup and list_delete.                                *)
(***************************************************************************)
Walk ==
    /\ call.pc = "walk" /\ call.current # NULL
    /\ IF key_of(call.current) # call.key
       THEN Go([call EXCEPT !.prev = call.current, !.current = mem[call.current].next])
       ELSE IF call.fn = "lookup"
            THEN Return(mem[mem[call.current].value])
            ELSE Go([call EXCEPT !.pc = "found"])
    /\ UNCHANGED mem

WalkEnds ==
    /\ call.pc = "walk" /\ call.current = NULL
    /\ IF call.fn = "insert" THEN Go([call EXCEPT !.pc = "link"]) ELSE Return(NoValue)
    /\ UNCHANGED mem

Deallocate ==
    /\ call.pc = "found"
    /\ mem' = Without(mem, {mem[call.current].key, mem[call.current].value})
    /\ Go([call EXCEPT !.pc = "unlink"])

\* Mutant: the node after the first is freed and stays in the list.
UnlinkLeavesLink ==
    /\ call.pc = "unlink"
    /\ LET list == IF call.prev = NULL THEN mem[call.current].next ELSE call.list
           rest == Without(mem, {call.current})
       IN  IF call.fn = "insert"
           THEN mem' = rest /\ Go([call EXCEPT !.pc = "link", !.list = list])
           ELSE mem' = [rest EXCEPT ![Array][call.index] = list] /\ Return(NoValue)

\* Mutant: what follows the node is returned, whatever precedes it.
UnlinkLosesHead ==
    /\ call.pc = "unlink"
    /\ LET list == mem[call.current].next
           rest == Without(mem, {call.current})
       IN  IF call.fn = "insert"
           THEN mem' = rest /\ Go([call EXCEPT !.pc = "link", !.list = list])
           ELSE mem' = [rest EXCEPT ![Array][call.index] = list] /\ Return(NoValue)

(***************************************************************************)
(* list_delete takes the node out of the list; hash_table_delete stores    *)
(* what it returns, list_insert puts the new node before it.               *)
(***************************************************************************)
Unlink ==
    /\ call.pc = "unlink"
    /\ LET next == mem[call.current].next
           list == IF call.prev = NULL THEN next ELSE call.list
           freed == Without(mem, {call.current})
           rest == IF call.prev = NULL THEN freed
                   ELSE [freed EXCEPT ![call.prev].next = next]
       IN  IF call.fn = "insert"
           THEN mem' = rest /\ Go([call EXCEPT !.pc = "link", !.list = list])
           ELSE mem' = [rest EXCEPT ![Array][call.index] = list] /\ Return(NoValue)

Link ==
    /\ call.pc = "link"
    /\ mem' = [mem EXCEPT ![call.node].next = call.list, ![Array][call.index] = call.node]
    /\ Return("table")

(***************************************************************************)
(* hash_table_free: the lists one after the other, each node with its key  *)
(* and its value.  The array and the table itself stay allocated; nothing  *)
(* refers to them any more.                                                *)
(***************************************************************************)
NextList ==
    /\ call.pc = "list" /\ call.index < Size
    /\ Go([call EXCEPT !.pc = "free", !.current = mem[Array][call.index]])
    /\ UNCHANGED mem

FreeNode ==
    /\ call.pc = "free" /\ call.current # NULL
    /\ mem' = Without(mem, {call.current, mem[call.current].key, mem[call.current].value})
    /\ Go([call EXCEPT !.current = mem[call.current].next])

ListFreed ==
    /\ call.pc = "free" /\ call.current = NULL
    /\ Go([call EXCEPT !.pc = "list", !.index = @ + 1])
    /\ UNCHANGED mem

Freed ==
    /\ call.pc = "list" /\ call.index = Size
    /\ call' = NoCall /\ result' = NoValue
    /\ table' = NULL
    /\ UNCHANGED <<mem, value_cloner, before>>

\* A table is freed when the program ends; the next run of it starts anew.
Restart ==
    /\ Idle /\ table = NULL
    /\ mem' = <<>>
    /\ value_cloner' \in ValueCloners
    /\ UNCHANGED <<table, call, before, result>>

Begin ==
    \/ hash_table_create
    \/ \E key \in Keys, value \in Values : hash_table_insert(key, value)
    \/ \E key \in Keys : hash_table_lookup(key) \/ hash_table_delete(key)
    \/ hash_table_free

Step ==
    \/ AllocateNode \/ CloneKey \/ CloneValue \/ InsertCleanup
    \/ Walk \/ WalkEnds \/ Deallocate \/ Unlink \/ Link
    \/ NextList \/ FreeNode \/ ListFreed \/ Freed

Next == Begin \/ Step \/ Restart

Spec == Init /\ [][Next]_vars

-----------------------------------------------------------------------------
Map == INSTANCE AbstractMap WITH
    contents <- IF Idle THEN Contents ELSE before,
    request  <- [fn |-> call.fn, key |-> call.key, value |-> call.value]

(***************************************************************************)
(* The lists are a mapping: every call returns, and leaves, what the map   *)
(* of the header would, with its keys spread over any lists, and an        *)
(* insertion that runs out of memory half-way leaves the old pair.         *)
(***************************************************************************)
ImplementsMap == Map!Spec

\* A node, if it is allocated, and what its fields refer to.
NodeBlocks(node) ==
    {node} \cup IF node \in DOMAIN mem THEN {mem[node].key, mem[node].value} ELSE {}

(***************************************************************************)
(* No call follows a link to a node that was freed, compares or returns a  *)
(* key or a value that was freed, or frees anything a second time: nodes   *)
(* leave their list before, and together with, their memory.               *)
(***************************************************************************)
NoMemoryFault ==
    /\ call.pc \in {"key", "value", "link"} => call.node \in DOMAIN mem
    /\ call.pc = "cleanup" =>
        (NodeBlocks(call.node) \cup {call.given}) \ {NULL} \subseteq DOMAIN mem
    /\ call.pc \in {"walk", "free"} /\ call.current # NULL =>
        NodeBlocks(call.current) \subseteq DOMAIN mem
    /\ call.pc = "found" => NodeBlocks(call.current) \subseteq DOMAIN mem
    /\ call.pc = "unlink" =>
        {call.current} \cup ({call.prev} \ {NULL}) \subseteq DOMAIN mem

\* How many times the lists refer to a block.
References(block) ==
    Cardinality({n \in Listed : mem[n].key = block})
    + Cardinality({n \in Listed : mem[n].value = block})
    + Cardinality({n \in Listed : mem[n].next = block})
    + Cardinality({index \in 0..Size - 1 : mem[Array][index] = block})

(***************************************************************************)
(* Between the calls every node, key and value that is allocated is held   *)
(* by exactly one list, and freeing the table frees them all, whichever    *)
(* allocation of an insertion failed and whoever owned the value.          *)
(***************************************************************************)
NothingLeaked ==
    Idle => LET owned == Block("node") \cup Block("key") \cup Block("value")
            IN  IF table = NULL THEN owned = {}
                ELSE /\ Listed \subseteq owned
                     /\ \A block \in owned : References(block) = 1

(***************************************************************************)
(* "Free all allocated memory held by hash table" (hash_table.h).          *)
(***************************************************************************)
FreesEverything == Idle /\ table = NULL => mem = <<>>

=============================================================================
