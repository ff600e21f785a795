----------------------------- MODULE AbstractMap -----------------------------
(***************************************************************************)
(* What src/include/hash_table.h promises: a mapping from keys to values.  *)
(* One call is under way at a time; it takes effect and returns in one     *)
(* step, and a call that fails changes nothing.                            *)
(***************************************************************************)
CONSTANTS Keys, Values, NoValue

VARIABLES
    contents,    \* what each key is mapped to
    request,     \* the call under way, or NoRequest
    result       \* what the last call returned

mapVars == <<contents, request, result>>

NoRequest == [fn |-> "none", key |-> NoValue, value |-> NoValue]

Requests ==
    [fn : {"insert"}, key : Keys, value : Values]
    \cup [fn : {"lookup", "delete"}, key : Keys, value : {NoValue}]
    \cup [fn : {"free"}, key : {NoValue}, value : {NoValue}]

Empty == [k \in Keys |-> NoValue]

Init == contents = Empty /\ request = NoRequest /\ result = NoValue

Call ==
    /\ request = NoRequest
    /\ request' \in Requests
    /\ UNCHANGED <<contents, result>>

Returned(r) == request' = NoRequest /\ result' = r

Insert ==
    /\ request.fn = "insert"
    /\ \/ /\ contents' = [contents EXCEPT ![request.key] = request.value]
          /\ Returned("table")
       \/ UNCHANGED contents /\ Returned(NoValue)

Lookup ==
    /\ request.fn = "lookup"
    /\ UNCHANGED contents /\ Returned(contents[request.key])

Delete ==
    /\ request.fn = "delete"
    /\ contents' = [contents EXCEPT ![request.key] = NoValue]
    /\ Returned(NoValue)

Free ==
    /\ request.fn = "free"
    /\ contents' = Empty /\ Returned(NoValue)

Next == Call \/ Insert \/ Lookup \/ Delete \/ Free

Spec == Init /\ [][Next]_mapVars

=============================================================================
