----------------------------- MODULE SocketList -----------------------------
(***************************************************************************)
(* The list of open sockets (sm_fota/src/sm_socket.c): nodes that belong to*)
(* their owners (p_sm_soc, sm_pHttpNode), linked by `next' and `head' (the *)
(* node before), from SOC_NodeList on.  Pure operators on                  *)
(*     [first, next, head, soc_id]                                         *)
(***************************************************************************)
EXTENDS Naturals, FiniteSets

CONSTANTS
  Nodes,    \* sm_socket_list_struct
  Sockets,  \* socket numbers
  Null,     \* SM_NULL
  Invalid   \* SM_INVALID_SOCKET

ASSUME ListAssumption ==
  /\ IsFiniteSet(Nodes) /\ Null \notin Nodes
  /\ Invalid \notin Sockets

Empty == [first  |-> Null,
          next   |-> [n \in Nodes |-> Null],
          head   |-> [n \in Nodes |-> Null],
          soc_id |-> [n \in Nodes |-> Invalid]]

Lists == [first  : Nodes \cup {Null},
          next   : [Nodes -> Nodes \cup {Null}],
          head   : [Nodes -> Nodes \cup {Null}],
          soc_id : [Nodes -> Sockets \cup {Invalid}]]

\* The k-th node that a walk along `next' meets.
Walk(list) ==
  LET at[k \in 0 .. Cardinality(Nodes)] ==
        IF k = 0 THEN list.first
        ELSE IF at[k - 1] = Null THEN Null ELSE list.next[at[k - 1]]
  IN  at

Members(list) == {Walk(list)[k] : k \in DOMAIN Walk(list)} \ {Null}

\* sm_socket_get_node: the first node with this number.
GetNode(list, s) ==
  LET at   == Walk(list)
      Hits == {k \in DOMAIN at : at[k] # Null /\ list.soc_id[at[k]] = s}
  IN  IF Hits = {} THEN Null ELSE at[CHOOSE k \in Hits : \A j \in Hits : k <= j]

\* sm_socket_insert_node: in front.
Insert(list, n) ==
  IF list.first = Null
    THEN [list EXCEPT !.first = n, !.head[n] = Null, !.next[n] = Null]
    ELSE [list EXCEPT !.first = n, !.head[list.first] = n,
                      !.next[n] = list.first, !.head[n] = Null]

\* Mutant: the new first node keeps its `head'.
DeleteKeepsHead(list, n) ==
  IF list.head[n] # Null THEN [list EXCEPT !.next[list.head[n]] = list.next[n]]
                         ELSE [list EXCEPT !.first = list.next[n]]

\* sm_socket_delete_node.  `head' of the node behind is set only when the
\* first node goes.
Delete(list, n) ==
  LET before == list.head[n]
      behind == list.next[n]
  IN  IF before # Null THEN [list EXCEPT !.next[before] = behind]
      ELSE IF behind # Null THEN [list EXCEPT !.first = behind, !.head[behind] = Null]
      ELSE [list EXCEPT !.first = Null]

-----------------------------------------------------------------------------
\* `list' holds exactly the nodes of `set', each once, and can be walked back.
Holds(list, set) ==
  /\ Members(list) = set
  /\ Walk(list)[Cardinality(set)] = Null
  /\ list.first # Null => list.head[list.first] = Null
  /\ \A n \in set : list.next[n] # Null => list.head[list.next[n]] = n
=============================================================================
