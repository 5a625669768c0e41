--------------------------- MODULE FotaApp_proofs ---------------------------
(***************************************************************************)
(* What holds of the sockets of the application however long its requests  *)
(* and queues are, however many sockets the system has, and whatever fails:*)
(* the list of open sockets matches its nodes and their timers             *)
(* (ListMatches), and a connection that is being made has its request and  *)
(* something that ends the wait (ConnectingHasRequest).                    *)
(*                                                                         *)
(* What is walked is a linked list, and the code never looks at the links  *)
(* of a node that is not in it: Linked says what they are for the two nodes*)
(* there are, and Walk, Insert and Delete are taken from there.            *)
(***************************************************************************)
EXTENDS FotaApp, FiniteSetTheorems, TLAPS

-----------------------------------------------------------------------------
(* Lists of two nodes.                                                     *)

In(l) == {n \in Nodes : l.soc_id[n] # Invalid}

\* The nodes that have a socket are linked, in either order.
Linked(l) ==
  \/ In(l) = {} /\ l.first = Null
  \/ \E n \in Nodes : In(l) = {n} /\ l.first = n /\ l.head[n] = Null /\ l.next[n] = Null
  \/ \E n, m \in Nodes : /\ n # m /\ In(l) = {n, m} /\ l.first = n
                         /\ l.head[n] = Null /\ l.next[n] = m
                         /\ l.head[m] = n /\ l.next[m] = Null

\* No number belongs to two nodes.
Apart(l) == \A n, m \in In(l) : l.soc_id[n] = l.soc_id[m] => n = m

LEMMA TwoNodes ==
  /\ Nodes = {"query", "http"} /\ "query" # "http" /\ Null \notin Nodes
  /\ Invalid \notin Sockets /\ Cardinality(Nodes) = 2
<1>1. Nodes = {"query", "http"} /\ "query" # "http" /\ Null \notin Nodes /\ Invalid \notin Sockets
  BY QueryAssumption, ListAssumption
<1>2. Cardinality({"query"}) = 1 /\ IsFiniteSet({"query"})
  BY FS_Singleton
<1>3. Cardinality({"query"} \cup {"http"}) = 2
  BY <1>2, FS_AddElement
<1>4. QED
  BY <1>1, <1>3

\* A walk meets three nodes at most, the last of which is none.
Second(l) == IF l.first = Null THEN Null ELSE l.next[l.first]
Third(l)  == IF Second(l) = Null THEN Null ELSE l.next[Second(l)]

LEMMA WalkSteps ==
  ASSUME NEW l
  PROVE  /\ DOMAIN Walk(l) = 0 .. 2
         /\ Walk(l)[0] = l.first /\ Walk(l)[1] = Second(l) /\ Walk(l)[2] = Third(l)
<1> DEFINE F(at) == [k \in 0 .. Cardinality(Nodes) |->
                       IF k = 0 THEN l.first
                       ELSE IF at[k - 1] = Null THEN Null ELSE l.next[at[k - 1]]]
           w == [k \in 0 .. 2 |-> IF k = 0 THEN l.first ELSE IF k = 1 THEN Second(l) ELSE Third(l)]
<1>1. w = F(w)
  <2>1. w[0] = l.first /\ w[1] = Second(l)
    OBVIOUS
  <2>2. F(w)[0] = w[0]
    BY TwoNodes
  <2>3. F(w)[1] = w[1]
    BY <2>1, TwoNodes DEF Second
  <2>4. F(w)[2] = w[2]
    BY <2>1, TwoNodes DEF Third
  <2>5. \A k \in 0 .. 2 : w[k] = F(w)[k]
    BY <2>2, <2>3, <2>4
  <2>6. QED
    BY <2>5, TwoNodes
<1>2. Walk(l) = CHOOSE at : at = F(at)
  BY DEF Walk
<1>3. Walk(l) = F(Walk(l))
  <2>1. \E at : at = F(at)
    BY <1>1
  <2> HIDE DEF F
  <2>2. QED
    BY <1>2, <2>1, Zenon
<1> DEFINE v == Walk(l)
<1>4. v = F(v)
  BY <1>3
<1> HIDE DEF v
<1>5. DOMAIN v = 0 .. 2 /\ v[0] = l.first
  BY <1>4, TwoNodes
<1>6. v[1] = Second(l)
  BY <1>4, <1>5, TwoNodes DEF Second
<1>7. v[2] = Third(l)
  BY <1>4, <1>6, TwoNodes DEF Third
<1>8. QED
  BY <1>5, <1>6, <1>7 DEF v

\* What a walk meets, by the number of nodes.
LEMMA WalkLinked ==
  ASSUME NEW l, Linked(l)
  PROVE  \/ /\ In(l) = {} /\ l.first = Null /\ Second(l) = Null /\ Third(l) = Null
            /\ Cardinality(In(l)) = 0
         \/ \E n \in Nodes : /\ In(l) = {n} /\ l.first = n /\ l.head[n] = Null /\ l.next[n] = Null
                             /\ Second(l) = Null /\ Third(l) = Null
                             /\ Cardinality(In(l)) = 1
         \/ \E n, m \in Nodes : /\ n # m /\ In(l) = {n, m} /\ l.first = n /\ l.head[n] = Null
                                /\ l.next[n] = m /\ l.head[m] = n /\ l.next[m] = Null
                                /\ Second(l) = m /\ Third(l) = Null
                                /\ Cardinality(In(l)) = 2
<1>1. CASE In(l) = {} /\ l.first = Null
  BY <1>1, FS_EmptySet DEF Second, Third
<1>2. ASSUME NEW n \in Nodes,
             In(l) = {n} /\ l.first = n /\ l.head[n] = Null /\ l.next[n] = Null
      PROVE  Second(l) = Null /\ Third(l) = Null /\ Cardinality(In(l)) = 1
  <2>1. Cardinality(In(l)) = 1
    BY <1>2, FS_Singleton
  <2>2. QED
    BY <1>2, <2>1, TwoNodes DEF Second, Third
<1>3. ASSUME NEW n \in Nodes, NEW m \in Nodes, n # m, In(l) = {n, m}, l.first = n,
             l.next[n] = m, l.next[m] = Null
      PROVE  Second(l) = m /\ Third(l) = Null /\ Cardinality(In(l)) = 2
  <2>1. In(l) = Nodes
    BY <1>3, TwoNodes
  <2>2. QED
    BY <1>3, <2>1, TwoNodes DEF Second, Third
<1>4. QED
  BY <1>1, <1>2, <1>3 DEF Linked

\* The list holds its nodes, each once, and can be walked back.
LEMMA LinkedHolds ==
  ASSUME NEW l, Linked(l)
  PROVE  Holds(l, In(l))
<1>1. Members(l) = {l.first, Second(l), Third(l)} \ {Null}
  <2>1. {Walk(l)[k] : k \in DOMAIN Walk(l)} = {l.first, Second(l), Third(l)}
    <3>1. DOMAIN Walk(l) = {0, 1, 2}
      BY WalkSteps
    <3>2. QED
      BY <3>1, WalkSteps
  <2>2. QED
    BY <2>1 DEF Members
<1>2. CASE In(l) = {} /\ l.first = Null /\ Second(l) = Null /\ Third(l) = Null /\ Cardinality(In(l)) = 0
  BY <1>1, <1>2, WalkSteps DEF Holds
<1>3. ASSUME NEW n \in Nodes, In(l) = {n}, l.first = n, l.head[n] = Null, l.next[n] = Null,
             Second(l) = Null, Third(l) = Null, Cardinality(In(l)) = 1
      PROVE  Holds(l, In(l))
  <2>1. Members(l) = In(l)
    BY <1>1, <1>3, TwoNodes
  <2>2. QED
    BY <1>3, <2>1, WalkSteps DEF Holds
<1>4. ASSUME NEW n \in Nodes, NEW m \in Nodes, n # m, In(l) = {n, m}, l.first = n, l.head[n] = Null,
             l.next[n] = m, l.head[m] = n, l.next[m] = Null,
             Second(l) = m, Third(l) = Null, Cardinality(In(l)) = 2
      PROVE  Holds(l, In(l))
  <2>1. Members(l) = In(l)
    BY <1>1, <1>4, TwoNodes
  <2>2. QED
    BY <1>4, <2>1, WalkSteps DEF Holds
<1>5. QED
  BY <1>2, <1>3, <1>4, WalkLinked

\* sm_socket_get_node finds the node that has the number.
LEMMA GetNodeFinds ==
  ASSUME NEW l, Linked(l), Apart(l), NEW s
  PROVE  \/ GetNode(l, s) = Null /\ \A n \in In(l) : l.soc_id[n] # s
         \/ GetNode(l, s) \in In(l) /\ l.soc_id[GetNode(l, s)] = s
<1> DEFINE at == Walk(l)
           Hits == {k \in DOMAIN at : at[k] # Null /\ l.soc_id[at[k]] = s}
<1>1. /\ DOMAIN at = {0, 1, 2} /\ at[0] = l.first /\ at[1] = Second(l) /\ at[2] = Third(l)
  BY WalkSteps
<1>2. GetNode(l, s) = IF Hits = {} THEN Null ELSE at[CHOOSE k \in Hits : \A j \in Hits : k <= j]
  BY DEF GetNode
<1>3. ASSUME NEW k, Hits = {k}, k \in Nat
      PROVE  GetNode(l, s) = at[k]
  <2>1. (CHOOSE i \in Hits : \A j \in Hits : i <= j) = k
    BY <1>3
  <2>2. QED
    BY <1>2, <1>3, <2>1
<1> HIDE DEF at
<1>4. CASE In(l) = {} /\ l.first = Null /\ Second(l) = Null /\ Third(l) = Null
  <2>1. Hits = {}
    BY <1>1, <1>4
  <2>2. QED
    BY <1>2, <1>4, <2>1
<1>5. ASSUME NEW n \in Nodes, In(l) = {n}, l.first = n, Second(l) = Null, Third(l) = Null
      PROVE  \/ GetNode(l, s) = Null /\ \A i \in In(l) : l.soc_id[i] # s
             \/ GetNode(l, s) \in In(l) /\ l.soc_id[GetNode(l, s)] = s
  <2>1. CASE l.soc_id[n] = s
    <3>1. Hits = {0}
      BY <1>1, <1>5, <2>1, TwoNodes
    <3>2. QED
      BY <1>1, <1>3, <1>5, <2>1, <3>1
  <2>2. CASE l.soc_id[n] # s
    <3>1. Hits = {}
      BY <1>1, <1>5, <2>2
    <3>2. QED
      BY <1>2, <1>5, <2>2, <3>1
  <2>3. QED
    BY <2>1, <2>2
<1>6. ASSUME NEW n \in Nodes, NEW m \in Nodes, n # m, In(l) = {n, m}, l.first = n,
             Second(l) = m, Third(l) = Null
      PROVE  \/ GetNode(l, s) = Null /\ \A i \in In(l) : l.soc_id[i] # s
             \/ GetNode(l, s) \in In(l) /\ l.soc_id[GetNode(l, s)] = s
  <2>1. l.soc_id[n] # l.soc_id[m]
    BY <1>6 DEF Apart
  <2>2. CASE l.soc_id[n] = s
    <3>1. Hits = {0}
      BY <1>1, <1>6, <2>1, <2>2, TwoNodes
    <3>2. QED
      BY <1>1, <1>3, <1>6, <2>2, <3>1
  <2>3. CASE l.soc_id[m] = s
    <3>1. Hits = {1}
      BY <1>1, <1>6, <2>1, <2>3, TwoNodes
    <3>2. QED
      BY <1>1, <1>3, <1>6, <2>3, <3>1
  <2>4. CASE l.soc_id[n] # s /\ l.soc_id[m] # s
    <3>1. Hits = {}
      BY <1>1, <1>6, <2>4
    <3>2. QED
      BY <1>2, <1>6, <2>4, <3>1
  <2>5. QED
    BY <2>2, <2>3, <2>4
<1>7. QED
  BY <1>4, <1>5, <1>6, WalkLinked

\* sm_socket_insert_node, for a node that is given a socket.
LEMMA InsertLinks ==
  ASSUME NEW l \in Lists, Linked(l), NEW n \in Nodes \ In(l), NEW s \in Sockets
  PROVE  LET q == Insert([l EXCEPT !.soc_id[n] = s], n)
         IN  q \in Lists /\ Linked(q) /\ q.soc_id = [l.soc_id EXCEPT ![n] = s]
<1> DEFINE q == Insert([l EXCEPT !.soc_id[n] = s], n)
           a == [l EXCEPT !.soc_id[n] = s]
<1>1. /\ a \in Lists /\ a.first = l.first /\ a.next = l.next /\ a.head = l.head
      /\ a.soc_id = [l.soc_id EXCEPT ![n] = s] /\ s # Invalid
  BY TwoNodes DEF Lists
<1>2. q = Insert(a, n)
  OBVIOUS
<1> HIDE DEF a, q
<1>3. CASE l.first = Null
  <2>1. /\ q = [a EXCEPT !.first = n, !.head[n] = Null, !.next[n] = Null]
    BY <1>1, <1>2, <1>3 DEF Insert
  <2>2. q \in Lists /\ q.soc_id = a.soc_id /\ q.first = n /\ q.head[n] = Null /\ q.next[n] = Null
    BY <1>1, <2>1 DEF Lists
  <2>3. In(l) = {}
    BY <1>3, TwoNodes DEF Linked
  <2>4. In(q) = {n}
    BY <1>1, <2>2, <2>3 DEF In, Lists
  <2>5. QED
    BY <1>1, <2>2, <2>4 DEF Linked, q, a
<1>4. CASE l.first # Null
  <2>1. PICK m \in Nodes : In(l) = {m} /\ l.first = m /\ l.head[m] = Null /\ l.next[m] = Null
    BY <1>4, TwoNodes DEF Linked
  <2>2. m # n
    BY <2>1
  <2>3. q = [a EXCEPT !.first = n, !.head[m] = n, !.next[n] = m, !.head[n] = Null]
    BY <1>1, <1>2, <1>4, <2>1 DEF Insert
  <2>4. /\ q \in Lists /\ q.soc_id = a.soc_id /\ q.first = n /\ q.head[n] = Null /\ q.next[n] = m
        /\ q.head[m] = n /\ q.next[m] = Null
    BY <1>1, <2>1, <2>2, <2>3 DEF Lists
  <2>5. In(q) = {n, m}
    BY <1>1, <2>1, <2>4 DEF In, Lists
  <2>6. QED
    BY <1>1, <2>2, <2>4, <2>5 DEF Linked, q, a
<1>5. QED
  BY <1>3, <1>4

\* sm_socket_delete_node, for a node whose number is forgotten.  Although `head' of the
\* node behind is not always set, it is right whenever that node is in the list.
LEMMA DeleteLinks ==
  ASSUME NEW l \in Lists, Linked(l), NEW n \in In(l)
  PROVE  LET q == Delete([l EXCEPT !.soc_id[n] = Invalid], n)
         IN  q \in Lists /\ Linked(q) /\ q.soc_id = [l.soc_id EXCEPT ![n] = Invalid]
<1> DEFINE q == Delete([l EXCEPT !.soc_id[n] = Invalid], n)
           a == [l EXCEPT !.soc_id[n] = Invalid]
<1>1. /\ a \in Lists /\ a.first = l.first /\ a.next = l.next /\ a.head = l.head /\ n \in Nodes
      /\ a.soc_id = [l.soc_id EXCEPT ![n] = Invalid]
  BY DEF Lists, In
<1>2. q = Delete(a, n)
  OBVIOUS
<1> HIDE DEF a, q
<1>3. CASE In(l) = {n} /\ l.first = n /\ l.head[n] = Null /\ l.next[n] = Null
  <2>1. q = [a EXCEPT !.first = Null]
    BY <1>1, <1>2, <1>3 DEF Delete
  <2>2. q \in Lists /\ q.soc_id = a.soc_id /\ q.first = Null
    BY <1>1, <2>1 DEF Lists
  <2>3. In(q) = {}
    BY <1>1, <1>3, <2>2 DEF In, Lists
  <2>4. QED
    BY <1>1, <2>2, <2>3 DEF Linked, q, a
<1>4. ASSUME NEW m \in Nodes, n # m, In(l) = {n, m}, l.first = n, l.head[n] = Null,
             l.next[n] = m, l.next[m] = Null
      PROVE  q \in Lists /\ Linked(q) /\ q.soc_id = [l.soc_id EXCEPT ![n] = Invalid]
  <2>1. q = [a EXCEPT !.first = m, !.head[m] = Null]
    BY <1>1, <1>2, <1>4, TwoNodes DEF Delete
  <2>2. /\ q \in Lists /\ q.soc_id = a.soc_id /\ q.first = m /\ q.head[m] = Null /\ q.next[m] = Null
    BY <1>1, <1>4, <2>1 DEF Lists
  <2>3. In(q) = {m}
    BY <1>1, <1>4, <2>2 DEF In, Lists
  <2>4. QED
    BY <1>1, <2>2, <2>3 DEF Linked
<1>5. ASSUME NEW m \in Nodes, n # m, In(l) = {n, m}, l.first = m, l.head[m] = Null,
             l.next[m] = n, l.head[n] = m, l.next[n] = Null
      PROVE  q \in Lists /\ Linked(q) /\ q.soc_id = [l.soc_id EXCEPT ![n] = Invalid]
  <2>1. q = [a EXCEPT !.next[m] = Null]
    BY <1>1, <1>2, <1>5, TwoNodes DEF Delete
  <2>2. /\ q \in Lists /\ q.soc_id = a.soc_id /\ q.first = m /\ q.head[m] = Null /\ q.next[m] = Null
    BY <1>1, <1>5, <2>1 DEF Lists
  <2>3. In(q) = {m}
    BY <1>1, <1>5, <2>2 DEF In, Lists
  <2>4. QED
    BY <1>1, <2>2, <2>3 DEF Linked
<1>6. QED
  <2>1. CASE \E m \in Nodes : In(l) = {m} /\ l.first = m /\ l.head[m] = Null /\ l.next[m] = Null
    BY <1>3, <2>1 DEF q, a
  <2>2. ASSUME NEW i \in Nodes, NEW m \in Nodes, i # m, In(l) = {i, m}, l.first = i,
               l.head[i] = Null, l.next[i] = m, l.head[m] = i, l.next[m] = Null
        PROVE  q \in Lists /\ Linked(q) /\ q.soc_id = [l.soc_id EXCEPT ![n] = Invalid]
    <3>1. CASE n = i
      BY <1>4, <2>2, <3>1
    <3>2. CASE n = m
      BY <1>5, <2>2, <3>2
    <3>3. QED
      BY <2>2, <3>1, <3>2
  <2>3. QED
    BY <2>1, <2>2 DEF Linked, q, a

-----------------------------------------------------------------------------
(* The invariant.                                                          *)

States == {"free", "connecting", "open", "served", "dead", "silent"}

\* The nodes, their sockets and the timers of their sockets
SocketsOK ==
  /\ list \in Lists /\ Linked(list) /\ Apart(list)
  /\ conn \in [Sockets -> States]
  /\ \A n \in In(list) : conn[list.soc_id[n]] # "free"
  /\ timer \in [Nodes -> Sockets \cup {Nobody}]
  /\ \A n \in Nodes : timer[n] \in {Nobody, list.soc_id[n]}

\* The server has sent nothing before the connection is made.
NothingYet ==
  /\ DOMAIN answers = Sockets
  /\ \A s \in Sockets : conn[s] \in {"free", "connecting"} => answers[s] = <<>>

\* The node of the download is free whenever sm_http_start or sm_http_retry wants it.
DownloadFree ==
  /\ retryTimer => busy
  /\ list.soc_id["http"] # Invalid => busy
  /\ list.soc_id["http"] # Invalid => ~retryTimer

\* What a callback may still have to call
Kinds == {"send", "report", "start", "again", "over"}

\* A callback sends first, if at all, and on a connection that is there.
CallsOK ==
  /\ todo \in Seq(Kinds)
  /\ \A i \in 2 .. Len(todo) : todo[i] # "send"
  /\ Calls("send") => list.soc_id["query"] # Invalid

\* A connection that is being made has its request, and its timer or a send that will fail.
WaitOK ==
  list.soc_id["query"] # Invalid /\ conn[list.soc_id["query"]] = "connecting" =>
    /\ buffer \in {"query", "report"}
    /\ timer["query"] = list.soc_id["query"] \/ Calls("send")

AppInv == SocketsOK /\ NothingYet /\ DownloadFree /\ CallsOK /\ WaitOK

-----------------------------------------------------------------------------
(* How a step can change the sockets.                                      *)

\* Nodes that keep their numbers
LEMMA Numbers ==
  ASSUME SocketsOK
  PROVE  /\ \A n \in In(list) : n \in Nodes /\ list.soc_id[n] \in Sockets
         /\ \A n \in Nodes : list.soc_id[n] \in Sockets \cup {Invalid}
         /\ \A n \in Nodes : list.soc_id[n] # Invalid <=> n \in In(list)
         /\ "query" \in Nodes /\ "http" \in Nodes
BY TwoNodes DEF SocketsOK, Lists, In

\* A socket is given to a node that has none.
LEMMA CreatedSockets ==
  ASSUME SocketsOK, NothingYet, NEW n \in Nodes, list.soc_id[n] = Invalid, Created(n)
  PROVE  /\ SocketsOK' /\ NothingYet'
         /\ list'.soc_id[n] # Invalid /\ timer'[n] = list'.soc_id[n]
         /\ \A m \in Nodes : m # n =>
              /\ list'.soc_id[m] = list.soc_id[m] /\ timer'[m] = timer[m]
              /\ list.soc_id[m] # Invalid => conn'[list.soc_id[m]] = conn[list.soc_id[m]]
<1>1. PICK s \in Sockets :
        /\ conn[s] = "free"
        /\ list' = Insert([list EXCEPT !.soc_id[n] = s], n)
        /\ conn' = [conn EXCEPT ![s] = "connecting"]
        /\ timer' = [timer EXCEPT ![n] = s]
        /\ answers' = answers
  BY DEF Created
<1>2. n \notin In(list) /\ list \in Lists /\ Linked(list)
  BY DEF In, SocketsOK
<1>3. list' \in Lists /\ Linked(list') /\ list'.soc_id = [list.soc_id EXCEPT ![n] = s]
  BY <1>1, <1>2, InsertLinks
<1>4. /\ list'.soc_id[n] = s /\ s # Invalid
      /\ \A m \in Nodes : m # n => list'.soc_id[m] = list.soc_id[m]
  BY <1>2, <1>3, TwoNodes DEF Lists
<1>5. timer'[n] = s /\ \A m \in Nodes : m # n => timer'[m] = timer[m]
  BY <1>1 DEF SocketsOK
<1>6. \A m \in In(list) : list.soc_id[m] \in Sockets /\ list.soc_id[m] # s
  BY <1>1, Numbers DEF SocketsOK
<1>7. conn'[s] = "connecting" /\ \A x \in Sockets : x # s => conn'[x] = conn[x]
  BY <1>1 DEF SocketsOK
<1>8. In(list') = In(list) \cup {n}
  BY <1>4 DEF In
<1>9. Apart(list')
  <2>1. \A m \in In(list) : m # n /\ list'.soc_id[m] = list.soc_id[m] /\ list'.soc_id[m] # s
    BY <1>2, <1>4, <1>6, Numbers
  <2>2. Apart(list)
    BY DEF SocketsOK
  <2>3. QED
    BY <1>4, <1>8, <2>1, <2>2 DEF Apart
<1>10. \A m \in In(list') : conn'[list'.soc_id[m]] # "free"
  BY <1>4, <1>6, <1>7, <1>8, Numbers DEF SocketsOK
<1>11. conn' \in [Sockets -> States] /\ timer' \in [Nodes -> Sockets \cup {Nobody}]
  BY <1>1 DEF SocketsOK, States
<1>12. \A m \in Nodes : timer'[m] \in {Nobody, list'.soc_id[m]}
  BY <1>4, <1>5 DEF SocketsOK
<1>13. SocketsOK'
  BY <1>3, <1>9, <1>10, <1>11, <1>12 DEF SocketsOK
<1>14. NothingYet'
  BY <1>1, <1>7 DEF NothingYet
<1>15. QED
  BY <1>4, <1>5, <1>6, <1>7, <1>13, <1>14, Numbers

\* The node of a number loses it.
LEMMA CloseSockets ==
  ASSUME SocketsOK, NothingYet, NEW s, NEW end, Close(s, end)
  PROVE  \/ /\ UNCHANGED <<list, timer, busy, retryTimer, conn, requests, answers>>
            /\ \A n \in In(list) : list.soc_id[n] # s
         \/ \E n \in In(list) :
              /\ SocketsOK' /\ NothingYet'
              /\ list.soc_id[n] = s /\ list'.soc_id[n] = Invalid
              /\ CloseCallback(n, end)
              /\ \A m \in Nodes : m # n =>
                   /\ list'.soc_id[m] = list.soc_id[m] /\ timer'[m] = timer[m]
                   /\ list.soc_id[m] # Invalid => conn'[list.soc_id[m]] = conn[list.soc_id[m]]
<1> DEFINE n == GetNode(list, s)
<1>1. \/ n = Null /\ \A m \in In(list) : list.soc_id[m] # s
      \/ n \in In(list) /\ list.soc_id[n] = s
  BY GetNodeFinds DEF SocketsOK
<1>2. CASE n = Null /\ \A m \in In(list) : list.soc_id[m] # s
  BY <1>2 DEF Close
<1>3. CASE n \in In(list) /\ list.soc_id[n] = s
  <2>1. n \in Nodes /\ n # Null /\ s \in Sockets
    BY <1>3, Numbers, TwoNodes
  <2>2. /\ conn' = [conn EXCEPT ![s] = "free"]
        /\ answers' = [answers EXCEPT ![s] = <<>>]
        /\ CloseCallback(n, end)
        /\ list' = Delete([list EXCEPT !.soc_id[n] = Invalid], n)
    BY <2>1 DEF Close
  <2> HIDE DEF n
  <2>3. timer' = [timer EXCEPT ![n] = Nobody]
    BY <2>2 DEF CloseCallback
  <2>4. list' \in Lists /\ Linked(list') /\ list'.soc_id = [list.soc_id EXCEPT ![n] = Invalid]
    BY <1>3, <2>2, DeleteLinks DEF SocketsOK
  <2>5. list'.soc_id[n] = Invalid /\ \A m \in Nodes : m # n => list'.soc_id[m] = list.soc_id[m]
    BY <2>1, <2>4 DEF SocketsOK, Lists
  <2>6. In(list') = In(list) \ {n}
    BY <2>5 DEF In
  <2>7. \A m \in In(list') : /\ m \in Nodes /\ m # n /\ m \in In(list) /\ list'.soc_id[m] = list.soc_id[m]
                             /\ list.soc_id[m] \in Sockets /\ list.soc_id[m] # s
    BY <1>3, <2>5, <2>6, Numbers DEF SocketsOK, Apart
  <2>8. conn'[s] = "free" /\ \A x \in Sockets : x # s => conn'[x] = conn[x]
    BY <2>1, <2>2 DEF SocketsOK
  <2>9. Apart(list')
    BY <2>7 DEF Apart, SocketsOK
  <2>10. \A m \in In(list') : conn'[list'.soc_id[m]] # "free"
    BY <2>7, <2>8 DEF SocketsOK
  <2>11. conn' \in [Sockets -> States] /\ timer' \in [Nodes -> Sockets \cup {Nobody}]
    BY <2>2, <2>3 DEF SocketsOK, States
  <2>12. timer'[n] = Nobody /\ \A m \in Nodes : m # n => timer'[m] = timer[m]
    BY <2>1, <2>3 DEF SocketsOK
  <2>13. \A m \in Nodes : timer'[m] \in {Nobody, list'.soc_id[m]}
    BY <2>5, <2>12 DEF SocketsOK
  <2>14. SocketsOK'
    BY <2>4, <2>9, <2>10, <2>11, <2>13 DEF SocketsOK
  <2>15. NothingYet'
    BY <2>1, <2>2, <2>8 DEF NothingYet
  <2>16. \A m \in Nodes : m # n /\ list.soc_id[m] # Invalid =>
           list.soc_id[m] \in Sockets /\ list.soc_id[m] # s
    BY <1>3, Numbers DEF SocketsOK, Apart
  <2>17. \A m \in Nodes : m # n /\ list.soc_id[m] # Invalid => conn'[list.soc_id[m]] = conn[list.soc_id[m]]
    BY <2>8, <2>16
  <2>18. QED
    BY <1>3, <2>2, <2>5, <2>12, <2>14, <2>15, <2>17
<1>4. QED
  BY <1>1, <1>2, <1>3

\* A node that has no socket is refused one.
LEMMA CreatFailsSockets ==
  ASSUME SocketsOK, NothingYet, NEW n \in Nodes, list.soc_id[n] = Invalid, NEW end, CreatFails(n, end)
  PROVE  /\ SocketsOK' /\ NothingYet' /\ CloseCallback(n, end)
         /\ list' = list /\ conn' = conn /\ answers' = answers
         /\ timer'[n] = Nobody /\ \A m \in Nodes : m # n => timer'[m] = timer[m]
<1>1. /\ CloseCallback(n, end) /\ conn' = conn /\ answers' = answers
      /\ list' = [list EXCEPT !.soc_id[n] = Invalid]
  BY DEF CreatFails, network
<1>2. list' = list
  BY <1>1 DEF SocketsOK, Lists
<1>3. timer' = [timer EXCEPT ![n] = Nobody]
  BY <1>1 DEF CloseCallback
<1>4. timer'[n] = Nobody /\ \A m \in Nodes : m # n => timer'[m] = timer[m]
  BY <1>3 DEF SocketsOK
<1>5. timer' \in [Nodes -> Sockets \cup {Nobody}] /\ \A m \in Nodes : timer'[m] \in {Nobody, list'.soc_id[m]}
  BY <1>2, <1>3, <1>4 DEF SocketsOK
<1>6. SocketsOK'
  BY <1>1, <1>2, <1>5 DEF SocketsOK
<1>7. QED
  BY <1>1, <1>2, <1>4, <1>6 DEF NothingYet

\* A callback has made the first of its calls.
LEMMA Returned ==
  ASSUME CallsOK, todo # <<>>
  PROVE  /\ Tail(todo) \in Seq(Kinds)
         /\ \A i \in 1 .. Len(Tail(todo)) : Tail(todo)[i] # "send"
         /\ \A i \in 2 .. Len(Tail(todo)) : Tail(todo)[i] # "send"
         /\ ~(Tail(todo) # <<>> /\ Head(Tail(todo)) = "send")
<1> DEFINE t == Tail(todo)
<1>1. t \in Seq(Kinds) /\ Len(t) = Len(todo) - 1 /\ Len(todo) \in Nat /\ Len(todo) >= 1
  BY DEF CallsOK
<1>2. \A i \in 1 .. Len(t) : t[i] = todo[i + 1] /\ i + 1 \in 2 .. Len(todo)
  BY <1>1 DEF CallsOK
<1>3. \A i \in 1 .. Len(t) : t[i] # "send"
  BY <1>2 DEF CallsOK
<1> HIDE DEF t
<1>4. \A i \in 2 .. Len(t) : i \in 1 .. Len(t)
  BY <1>1
<1>5. t # <<>> => Head(t) = t[1] /\ 1 \in 1 .. Len(t)
  BY <1>1
<1>6. QED
  BY <1>1, <1>3, <1>4, <1>5 DEF t

\* The callbacks of the code as lists of calls
LEMMA NewCalls ==
  /\ <<>> \in Seq(Kinds) /\ \A i \in 2 .. Len(<<>>) : <<>>[i] # "send"
  /\ \A c \in Kinds : /\ <<c>> \in Seq(Kinds) /\ \A i \in 2 .. Len(<<c>>) : <<c>>[i] # "send"
                       /\ Head(<<c>>) = c /\ <<c>> # <<>>
  /\ \A c, d \in Kinds : d # "send" =>
       /\ <<c, d>> \in Seq(Kinds) /\ \A i \in 2 .. Len(<<c, d>>) : <<c, d>>[i] # "send"
       /\ Head(<<c, d>>) = c /\ <<c, d>> # <<>>
OBVIOUS

\* Whatever closes a socket, unless a send on another connection is under way
LEMMA CloseKeeps ==
  ASSUME AppInv, NEW s, NEW end, Close(s, end),
         buffer' = buffer \/ s = list.soc_id["query"],
         ~Calls("send") \/ s = list.soc_id["query"],
         todo' \in Seq(Kinds), \A i \in 2 .. Len(todo') : todo'[i] # "send",
         ~Calls("send")'
  PROVE  AppInv'
<1>1. CallsOK'
  BY DEF CallsOK
<1>2. CASE /\ UNCHANGED <<list, timer, busy, retryTimer, conn, requests, answers>>
           /\ \A n \in In(list) : list.soc_id[n] # s
  <2>1. SocketsOK' /\ NothingYet'
    BY <1>2 DEF AppInv, SocketsOK, NothingYet
  <2>2. DownloadFree'
    BY <1>2, Zenon DEF AppInv, DownloadFree
  <2>3. s = list.soc_id["query"] => list.soc_id["query"] = Invalid
    BY <1>2, Numbers DEF AppInv
  <2>4. list' = list /\ conn' = conn /\ timer' = timer
    BY <1>2
  <2>5. WaitOK'
    BY <2>3, <2>4 DEF AppInv, WaitOK
  <2>6. QED
    BY <1>1, <2>1, <2>2, <2>5 DEF AppInv
<1>3. ASSUME NEW n \in In(list),
             SocketsOK', NothingYet', list.soc_id[n] = s, list'.soc_id[n] = Invalid,
             CloseCallback(n, end),
             \A m \in Nodes : m # n =>
                /\ list'.soc_id[m] = list.soc_id[m] /\ timer'[m] = timer[m]
                /\ list.soc_id[m] # Invalid => conn'[list.soc_id[m]] = conn[list.soc_id[m]]
      PROVE  AppInv'
  <2>1. n \in {"query", "http"} /\ "query" \in Nodes /\ "http" \in Nodes
    BY TwoNodes DEF In
  <2>2. DownloadFree'
    <3>1. CASE n = "query"
      <4>1. UNCHANGED <<busy, retryTimer>>
        BY <1>3, <3>1, Zenon DEF CloseCallback
      <4>2. list'.soc_id["http"] = list.soc_id["http"]
        BY <1>3, <2>1, <3>1
      <4>3. QED
        BY <4>1, <4>2, Zenon DEF AppInv, DownloadFree
    <3>2. CASE n = "http"
      <4>1. ConnectError(end)
        BY <1>3, <3>2, Zenon DEF CloseCallback
      <4>2. busy /\ ~retryTimer
        BY <3>2, Numbers DEF AppInv, DownloadFree
      <4>3. list'.soc_id["http"] = Invalid
        BY <1>3, <3>2
      <4>4. retryTimer' => busy'
        BY <4>1, <4>2, Zenon DEF ConnectError
      <4>5. QED
        BY <4>3, <4>4, Zenon DEF DownloadFree
    <3>3. QED
      BY <2>1, <3>1, <3>2
  <2>3. WaitOK'
    <3>1. CASE n = "query"
      BY <1>3, <3>1 DEF WaitOK
    <3>2. CASE n = "http"
      <4>1. /\ list'.soc_id["query"] = list.soc_id["query"] /\ timer'["query"] = timer["query"]
            /\ list.soc_id["query"] # Invalid => conn'[list.soc_id["query"]] = conn[list.soc_id["query"]]
        BY <1>3, <2>1, <3>2
      <4>2. s # list.soc_id["query"]
        BY <1>3, <2>1, <3>2, Numbers DEF AppInv, SocketsOK, Apart
      <4>3. QED
        BY <4>1, <4>2 DEF AppInv, WaitOK
    <3>3. QED
      BY <2>1, <3>1, <3>2
  <2>4. QED
    BY <1>1, <1>3, <2>2, <2>3 DEF AppInv
<1>4. QED
  BY <1>2, <1>3, CloseSockets DEF AppInv

\* The connection of a query or report that finds none
LEMMA QueryCreatedKeeps ==
  ASSUME AppInv, list.soc_id["query"] = Invalid, buffer' \in {"query", "report"},
         UNCHANGED <<busy, retryTimer>>, Created("query"),
         todo' \in Seq(Kinds), \A i \in 2 .. Len(todo') : todo'[i] # "send", ~Calls("send")'
  PROVE  AppInv'
<1>1. /\ SocketsOK' /\ NothingYet'
      /\ timer'["query"] = list'.soc_id["query"] /\ list'.soc_id["http"] = list.soc_id["http"]
  BY CreatedSockets, Numbers, TwoNodes DEF AppInv
<1>2. DownloadFree'
  BY <1>1, Zenon DEF AppInv, DownloadFree
<1>3. CallsOK' /\ WaitOK'
  BY <1>1 DEF CallsOK, WaitOK
<1>4. QED
  BY <1>1, <1>2, <1>3 DEF AppInv

\* ... that is refused
LEMMA QueryFailsKeeps ==
  ASSUME AppInv, list.soc_id["query"] = Invalid, CreatFails("query", "again"),
         todo' \in Seq(Kinds), \A i \in 2 .. Len(todo') : todo'[i] # "send", ~Calls("send")'
  PROVE  AppInv'
<1>1. /\ SocketsOK' /\ NothingYet' /\ CloseCallback("query", "again") /\ list' = list
  BY CreatFailsSockets, Numbers DEF AppInv
<1>2. UNCHANGED <<busy, retryTimer>>
  BY <1>1, TwoNodes, Zenon DEF CloseCallback
<1>3. DownloadFree'
  BY <1>1, <1>2, Zenon DEF AppInv, DownloadFree
<1>4. CallsOK' /\ WaitOK'
  BY <1>1 DEF CallsOK, WaitOK
<1>5. QED
  BY <1>1, <1>3, <1>4 DEF AppInv

\* The connection of a download
LEMMA HttpCreatedKeeps ==
  ASSUME AppInv, list.soc_id["http"] = Invalid, ~Calls("send"), UNCHANGED buffer, Created("http"),
         busy', ~retryTimer',
         todo' \in Seq(Kinds), \A i \in 2 .. Len(todo') : todo'[i] # "send", ~Calls("send")'
  PROVE  AppInv'
<1>1. /\ SocketsOK' /\ NothingYet'
      /\ list'.soc_id["query"] = list.soc_id["query"] /\ timer'["query"] = timer["query"]
      /\ list.soc_id["query"] # Invalid => conn'[list.soc_id["query"]] = conn[list.soc_id["query"]]
  BY CreatedSockets, Numbers, TwoNodes DEF AppInv
<1>2. DownloadFree'
  BY DEF DownloadFree
<1>3. CallsOK'
  BY DEF CallsOK
<1>4. WaitOK'
  BY <1>1 DEF AppInv, WaitOK
<1>5. QED
  BY <1>1, <1>2, <1>3, <1>4 DEF AppInv

\* The network moves, on one socket.
LEMMA NetworkKeeps ==
  ASSUME AppInv, UNCHANGED <<list, timer, buffer, download, call>>,
         NEW s \in Sockets, conn[s] # "free", NEW x \in States \ {"free", "connecting"},
         conn' = [conn EXCEPT ![s] = x],
         answers' = answers \/ (conn[s] # "connecting" /\ \E v : answers' = [answers EXCEPT ![s] = v])
  PROVE  AppInv'
<1>1. conn'[s] = x /\ \A z \in Sockets : z # s => conn'[z] = conn[z]
  BY DEF AppInv, SocketsOK
<1>2. conn' \in [Sockets -> States] /\ \A z \in Sockets : conn[z] # "free" => conn'[z] # "free"
  BY <1>1 DEF AppInv, SocketsOK
<1>3. list' = list /\ timer' = timer /\ buffer' = buffer /\ todo' = todo
  BY DEF call
<1>4. SocketsOK'
  BY <1>2, <1>3, Numbers DEF AppInv, SocketsOK
<1>5. NothingYet'
  <2>1. DOMAIN answers' = Sockets /\ \A z \in Sockets : z # s => answers'[z] = answers[z]
    BY DEF AppInv, NothingYet
  <2>2. QED
    BY <1>1, <2>1 DEF AppInv, NothingYet
<1>6. DownloadFree'
  <2>1. UNCHANGED <<busy, retryTimer>>
    BY Zenon DEF download
  <2>2. QED
    BY <1>3, <2>1, Zenon DEF AppInv, DownloadFree
<1>7. CallsOK'
  BY <1>3 DEF AppInv, CallsOK, Calls
<1>8. WaitOK'
  BY <1>1, <1>3, Numbers DEF AppInv, WaitOK, Calls
<1>9. QED
  BY <1>4, <1>5, <1>6, <1>7, <1>8 DEF AppInv

\* Nothing happens to the sockets.
LEMMA SteadyKeeps ==
  ASSUME AppInv, UNCHANGED <<list, conn, answers>>, UNCHANGED <<busy, retryTimer>>,
         timer' \in [Nodes -> Sockets \cup {Nobody}],
         \A n \in Nodes : timer'[n] \in {Nobody, list.soc_id[n]},
         todo' \in Seq(Kinds), \A i \in 2 .. Len(todo') : todo'[i] # "send",
         Calls("send")' => list.soc_id["query"] # Invalid,
         WaitOK'
  PROVE  AppInv'
<1>1. SocketsOK' /\ NothingYet' /\ CallsOK'
  BY DEF AppInv, SocketsOK, NothingYet, CallsOK
<1>2. DownloadFree'
  BY Zenon DEF AppInv, DownloadFree
<1>3. QED
  BY <1>1, <1>2 DEF AppInv

-----------------------------------------------------------------------------
(* Query and report.                                                       *)

\* A request goes out on the connection there is, or on a new one.
LEMMA SubmitKeeps ==
  ASSUME AppInv, NEW request \in {"query", "report"}, NEW then \in Seq(Kinds),
         \A i \in 1 .. Len(then) : then[i] # "send", Submit(request, then)
  PROVE  AppInv'
<1>1. then # <<>> => Head(then) = then[1] /\ 1 \in 1 .. Len(then)
  OBVIOUS
<1>2. CASE list.soc_id["query"] # Invalid
  <2>1. /\ buffer' = request /\ todo' = <<"send">> \o then
        /\ UNCHANGED <<list, timer, network>>
    BY <1>2 DEF Submit
  <2>2. UNCHANGED <<busy, retryTimer>>
    BY <1>2, Zenon DEF Submit
  <2>3. todo' \in Seq(Kinds) /\ todo' # <<>> /\ Head(todo') = "send"
    <3>1. PICK one \in Seq(Kinds) : one = <<"send">> /\ Len(one) = 1 /\ one[1] = "send"
      <4>1. <<"send">> \in Seq(Kinds)
        BY NewCalls DEF Kinds
      <4>2. Len(<<"send">>) = 1 /\ <<"send">>[1] = "send"
        OBVIOUS
      <4>3. QED
        BY <4>1, <4>2
    <3>2. todo' = one \o then
      BY <2>1, <3>1
    <3>3. todo' \in Seq(Kinds) /\ Len(todo') = 1 + Len(then) /\ todo'[1] = "send"
      BY <3>1, <3>2
    <3>4. QED
      BY <3>3
  <2>4. ASSUME NEW i \in 2 .. Len(todo') PROVE todo'[i] # "send"
    <3>1. todo'[i] = then[i - 1] /\ i - 1 \in 1 .. Len(then)
      BY <2>1
    <3>2. QED
      BY <3>1
  <2>5. WaitOK'
    BY <2>1, <2>3 DEF WaitOK, Calls
  <2>6. /\ timer' \in [Nodes -> Sockets \cup {Nobody}]
        /\ \A n \in Nodes : timer'[n] \in {Nobody, list.soc_id[n]}
    BY <2>1 DEF AppInv, SocketsOK
  <2>7. UNCHANGED <<list, conn, answers>>
    BY <2>1 DEF network
  <2>8. QED
    BY <1>2, <2>2, <2>3, <2>4, <2>5, <2>6, <2>7, SteadyKeeps
<1>3. CASE list.soc_id["query"] = Invalid
  <2>1. /\ buffer' = request /\ todo' = then
        /\ \/ Created("query") /\ UNCHANGED <<busy, retryTimer>>
           \/ CreatFails("query", "again")
    BY <1>3, Zenon DEF Submit
  <2>2. /\ todo' \in Seq(Kinds) /\ \A i \in 2 .. Len(todo') : todo'[i] # "send"
        /\ ~Calls("send")'
    BY <1>1, <2>1 DEF Calls
  <2>3. CASE Created("query") /\ UNCHANGED <<busy, retryTimer>>
    BY <1>3, <2>1, <2>2, <2>3, QueryCreatedKeeps
  <2>4. CASE CreatFails("query", "again")
    BY <1>3, <2>2, <2>4, QueryFailsKeeps
  <2>5. QED
    BY <2>1, <2>3, <2>4
<1>4. QED
  BY <1>2, <1>3

LEMMA AutoCheckKeeps ==
  ASSUME AppInv, AutoCheck
  PROVE  AppInv'
<1>1. Submit("query", <<>>)
  BY DEF AutoCheck
<1>2. <<>> \in Seq(Kinds) /\ \A i \in 1 .. Len(<<>>) : <<>>[i] # "send"
  OBVIOUS
<1>3. QED
  BY <1>1, <1>2, SubmitKeeps

LEMMA ReportKeeps ==
  ASSUME AppInv, Report
  PROVE  AppInv'
<1>1. Submit("report", Tail(todo)) /\ todo # <<>>
  BY DEF Report, Calls
<1>2. Tail(todo) \in Seq(Kinds) /\ \A i \in 1 .. Len(Tail(todo)) : Tail(todo)[i] # "send"
  BY <1>1, Returned DEF AppInv
<1>3. QED
  BY <1>1, <1>2, SubmitKeeps

\* The loop of sm_protocol_write
LEMMA SendKeeps ==
  ASSUME AppInv, Send
  PROVE  AppInv'
<1> DEFINE s == list.soc_id["query"]
<1>1. /\ todo # <<>> /\ Calls("send") /\ s # Invalid /\ s \in Sockets
  <2>1. Calls("send")
    BY DEF Send, SendSome, SendBlocks, SendFails
  <2>2. QED
    BY <2>1, Numbers DEF AppInv, CallsOK, Calls
<1>2. /\ todo \in Seq(Kinds) /\ \A i \in 2 .. Len(todo) : todo[i] # "send"
      /\ timer \in [Nodes -> Sockets \cup {Nobody}]
      /\ \A n \in Nodes : timer[n] \in {Nobody, list.soc_id[n]}
  BY DEF AppInv, CallsOK, SocketsOK
<1>3. /\ Tail(todo) \in Seq(Kinds) /\ \A i \in 2 .. Len(Tail(todo)) : Tail(todo)[i] # "send"
      /\ ~(Tail(todo) # <<>> /\ Head(Tail(todo)) = "send")
  BY <1>1, Returned DEF AppInv
<1>4. CASE SendSome
  <2>1. /\ conn[s] \in Sending
        /\ UNCHANGED <<list, conn, answers>> /\ UNCHANGED download
        /\ \/ UNCHANGED <<timer, todo>>
           \/ timer' = [timer EXCEPT !["query"] = s] /\ todo' = Tail(todo)
    BY <1>4 DEF SendSome, Written, Return
  <2>2. conn[s] # "connecting"
    BY <2>1 DEF Sending, Alive
  <2>3. WaitOK'
    BY <2>1, <2>2 DEF WaitOK
  <2>4. /\ timer' \in [Nodes -> Sockets \cup {Nobody}]
        /\ \A n \in Nodes : timer'[n] \in {Nobody, list.soc_id[n]}
    BY <1>1, <1>2, <2>1, Numbers DEF AppInv
  <2>5. todo' \in Seq(Kinds) /\ \A i \in 2 .. Len(todo') : todo'[i] # "send"
    BY <1>2, <1>3, <2>1
  <2>6. UNCHANGED <<busy, retryTimer>>
    BY <2>1, Zenon DEF download
  <2>7. QED
    BY <1>1, <2>1, <2>3, <2>4, <2>5, <2>6, SteadyKeeps
<1>5. CASE SendBlocks
  <2>1. UNCHANGED <<list, timer, buffer, conn, answers>> /\ todo' = todo /\ UNCHANGED download
    BY <1>5 DEF SendBlocks, call
  <2>2. WaitOK'
    BY <2>1 DEF AppInv, WaitOK, Calls
  <2>3. UNCHANGED <<busy, retryTimer>>
    BY <2>1, Zenon DEF download
  <2>4. QED
    BY <1>1, <1>2, <2>1, <2>2, <2>3, SteadyKeeps
<1>6. CASE SendFails
  <2>1. Close(s, "again") /\ buffer' = buffer /\ todo' = Tail(todo)
    BY <1>6 DEF SendFails, Return
  <2>2. ~Calls("send")'
    BY <1>3, <2>1 DEF Calls
  <2>3. QED
    BY <1>3, <2>1, <2>2, CloseKeeps
<1>7. QED
  BY <1>4, <1>5, <1>6 DEF Send

\* The timer of the query closes the socket it was started for.
LEMMA QueryTimeoutKeeps ==
  ASSUME AppInv, QueryTimeout
  PROVE  AppInv'
<1> DEFINE s == timer["query"]
<1>1. /\ todo = <<>> /\ todo' = <<>> /\ buffer' = buffer /\ s # Nobody
      /\ IF GetNode(list, s) # Null
           THEN Close(s, "again")
           ELSE /\ timer' = [timer EXCEPT !["query"] = Nobody]
                /\ UNCHANGED <<list, busy, retryTimer, conn, requests, answers>>
  BY DEF QueryTimeout, Idle, call
<1>2. "query" \in In(list) /\ list.soc_id["query"] = s
  BY <1>1, Numbers DEF AppInv, SocketsOK, Nobody
<1>3. GetNode(list, s) # Null
  BY <1>2, GetNodeFinds, Numbers, TwoNodes DEF AppInv, SocketsOK
<1>4. Close(s, "again")
  BY <1>1, <1>3
<1>5. /\ todo' \in Seq(Kinds) /\ \A i \in 2 .. Len(todo') : todo'[i] # "send"
      /\ ~Calls("send")' /\ ~Calls("send")
  BY <1>1, NewCalls DEF Calls
<1>6. QED
  BY <1>1, <1>4, <1>5, CloseKeeps

\* Those of the download have the socket closed, after a report or at once.
LEMMA HttpTimeoutKeeps ==
  ASSUME AppInv, HttpTimeout
  PROVE  AppInv'
<1>1. /\ UNCHANGED <<list, conn, answers, timer, buffer>> /\ UNCHANGED download /\ todo = <<>>
      /\ todo' \in {<<"again">>, <<"over">>, <<"report", "again">>, <<"report", "over">>}
  BY DEF HttpTimeout, network, Idle
<1>2. /\ todo' \in Seq(Kinds) /\ \A i \in 2 .. Len(todo') : todo'[i] # "send"
      /\ ~Calls("send")' /\ ~Calls("send")
  <2>1. CASE todo' \in {<<"again">>, <<"over">>}
    BY <1>1, <2>1, NewCalls DEF Calls, Kinds
  <2>2. CASE todo' = <<"report", "again">>
    BY <1>1, <2>2, NewCalls DEF Calls, Kinds
  <2>3. CASE todo' = <<"report", "over">>
    BY <1>1, <2>3, NewCalls DEF Calls, Kinds
  <2>4. QED
    BY <1>1, <2>1, <2>2, <2>3
<1>3. WaitOK'
  BY <1>1, <1>2 DEF AppInv, WaitOK
<1>4. UNCHANGED <<busy, retryTimer>>
  BY <1>1, Zenon DEF download
<1>5. /\ timer' \in [Nodes -> Sockets \cup {Nobody}]
      /\ \A n \in Nodes : timer'[n] \in {Nobody, list.soc_id[n]}
  BY <1>1 DEF AppInv, SocketsOK
<1>6. QED
  BY <1>1, <1>2, <1>3, <1>4, <1>5, SteadyKeeps

-----------------------------------------------------------------------------
(* The download.                                                           *)

\* sm_http_start
LEMMA StartKeeps ==
  ASSUME AppInv, Start
  PROVE  AppInv'
<1>1. todo # <<>> /\ Head(todo) = "start" /\ todo' = Tail(todo) /\ buffer' = buffer
  BY DEF Start, Calls, Return
<1>2. /\ todo' \in Seq(Kinds) /\ \A i \in 2 .. Len(todo') : todo'[i] # "send"
      /\ ~Calls("send")' /\ ~Calls("send")
  BY <1>1, Returned DEF AppInv, Calls
<1>3. \/ UNCHANGED <<list, timer, busy, retryTimer, network>>
      \/ ~busy /\ busy' = TRUE /\ Created("http") /\ UNCHANGED retryTimer
      \/ ~busy /\ busy' = TRUE /\ retryTimer' = TRUE /\ UNCHANGED <<list, timer, network>>
  BY Zenon DEF Start
<1>4. CASE UNCHANGED <<list, timer, busy, retryTimer, network>>
  <2>1. /\ UNCHANGED <<list, conn, answers, timer>> /\ UNCHANGED <<busy, retryTimer>>
    BY <1>4, Zenon DEF network
  <2>2. WaitOK'
    BY <1>1, <1>2, <2>1 DEF AppInv, WaitOK
  <2>3. /\ timer' \in [Nodes -> Sockets \cup {Nobody}]
        /\ \A n \in Nodes : timer'[n] \in {Nobody, list.soc_id[n]}
    BY <2>1 DEF AppInv, SocketsOK
  <2>4. QED
    BY <1>2, <2>1, <2>2, <2>3, SteadyKeeps
<1>5. CASE ~busy /\ busy' = TRUE /\ Created("http") /\ UNCHANGED retryTimer
  <2>1. ~retryTimer' /\ busy'
    BY <1>5, Zenon DEF AppInv, DownloadFree
  <2>2. list.soc_id["http"] = Invalid
    BY <1>5 DEF AppInv, DownloadFree
  <2>3. QED
    BY <1>1, <1>2, <1>5, <2>1, <2>2, HttpCreatedKeeps
<1>6. CASE ~busy /\ busy' = TRUE /\ retryTimer' = TRUE /\ UNCHANGED <<list, timer, network>>
  <2>1. UNCHANGED <<list, conn, answers, timer>>
    BY <1>6 DEF network
  <2>2. WaitOK'
    BY <1>1, <1>2, <2>1 DEF AppInv, WaitOK
  <2>3. SocketsOK' /\ NothingYet'
    BY <2>1 DEF AppInv, SocketsOK, NothingYet
  <2>4. list'.soc_id["http"] = Invalid
    BY <1>6, <2>1 DEF AppInv, DownloadFree
  <2>5. DownloadFree'
    BY <1>6, <2>4 DEF DownloadFree
  <2>6. CallsOK'
    BY <1>2 DEF CallsOK
  <2>7. QED
    BY <2>2, <2>3, <2>5, <2>6 DEF AppInv
<1>7. QED
  BY <1>3, <1>4, <1>5, <1>6

\* sm_http_retry
LEMMA RetryKeeps ==
  ASSUME AppInv, Retry
  PROVE  AppInv'
<1>1. todo = <<>> /\ todo' = <<>> /\ buffer' = buffer /\ retryTimer
  BY DEF Retry, Idle, call
<1>2. /\ todo' \in Seq(Kinds) /\ \A i \in 2 .. Len(todo') : todo'[i] # "send"
      /\ ~Calls("send")' /\ ~Calls("send")
  BY <1>1, NewCalls DEF Calls
<1>3. busy /\ list.soc_id["http"] = Invalid
  BY <1>1 DEF AppInv, DownloadFree
<1>4. CASE Created("http") /\ retryTimer' = FALSE /\ UNCHANGED busy
  <2>1. busy' /\ ~retryTimer'
    BY <1>3, <1>4, Zenon
  <2>2. QED
    BY <1>1, <1>2, <1>3, <1>4, <2>1, HttpCreatedKeeps
<1>5. CASE CreatFails("http", "again")
  <2>1. /\ SocketsOK' /\ NothingYet' /\ CloseCallback("http", "again")
        /\ list' = list /\ conn' = conn /\ timer'["query"] = timer["query"]
    BY <1>3, <1>5, CreatFailsSockets, Numbers, TwoNodes DEF AppInv
  <2>2. UNCHANGED busy
    BY <2>1, Zenon DEF CloseCallback, ConnectError
  <2>3. list'.soc_id["http"] = Invalid
    BY <1>3, <2>1
  <2>4. busy'
    BY <1>3, <2>2, Zenon
  <2>5. DownloadFree'
    BY <2>3, <2>4 DEF DownloadFree
  <2>6. WaitOK' /\ CallsOK'
    BY <1>1, <1>2, <2>1 DEF AppInv, WaitOK, CallsOK
  <2>7. QED
    BY <2>1, <2>5, <2>6 DEF AppInv
<1>6. CASE busy' = FALSE /\ retryTimer' = FALSE /\ UNCHANGED <<list, timer, network>>
  <2>1. UNCHANGED <<list, conn, answers, timer>>
    BY <1>6 DEF network
  <2>2. SocketsOK' /\ NothingYet'
    BY <2>1 DEF AppInv, SocketsOK, NothingYet
  <2>3. list'.soc_id["http"] = Invalid
    BY <1>3, <2>1
  <2>4. DownloadFree'
    BY <1>6, <2>3 DEF DownloadFree
  <2>5. WaitOK' /\ CallsOK'
    BY <1>1, <1>2, <2>1 DEF AppInv, WaitOK, CallsOK
  <2>6. QED
    BY <2>2, <2>4, <2>5 DEF AppInv
<1>7. QED
  BY <1>4, <1>5, <1>6 DEF Retry

LEMMA HttpCloseKeeps ==
  ASSUME AppInv, HttpClose
  PROVE  AppInv'
<1>1. /\ todo # <<>> /\ Head(todo) \in {"again", "over"} /\ todo' = Tail(todo) /\ buffer' = buffer
      /\ Close(list.soc_id["http"], Head(todo))
  BY DEF HttpClose, Idle, Return
<1>2. /\ todo' \in Seq(Kinds) /\ \A i \in 2 .. Len(todo') : todo'[i] # "send"
      /\ ~Calls("send")' /\ ~Calls("send")
  BY <1>1, Returned DEF AppInv, Calls
<1>3. QED
  BY <1>1, <1>2, CloseKeeps

-----------------------------------------------------------------------------
(* Events.                                                                 *)

\* What is common to the events of a node that has the number
LEMMA QueryEventKeeps ==
  ASSUME AppInv, todo = <<>>, NEW s, NEW type, "query" \in In(list), list.soc_id["query"] = s,
         QueryEvent(s, type)
  PROVE  AppInv'
<1>1. "query" \in Nodes /\ s \in Sockets /\ s # Invalid /\ ~Calls("send")
  BY Numbers DEF AppInv, Calls
<1>2. timer \in [Nodes -> Sockets \cup {Nobody}] /\ \A n \in Nodes : timer[n] \in {Nobody, list.soc_id[n]}
  BY DEF AppInv, SocketsOK
<1>3. /\ <<>> \in Seq(Kinds) /\ \A i \in 2 .. Len(<<>>) : <<>>[i] # "send"
      /\ <<"start">> \in Seq(Kinds) /\ \A i \in 2 .. Len(<<"start">>) : <<"start">>[i] # "send"
      /\ Head(<<"start">>) = "start"
      /\ <<"send">> \in Seq(Kinds) /\ \A i \in 2 .. Len(<<"send">>) : <<"send">>[i] # "send"
      /\ Head(<<"send">>) = "send" /\ <<"send">> # <<>>
  BY NewCalls DEF Kinds
<1>4. CASE /\ timer' = (IF type = "connect" THEN [timer EXCEPT !["query"] = Nobody] ELSE timer)
           /\ todo' = <<"send">>
           /\ UNCHANGED <<list, buffer, busy, retryTimer, conn, requests, answers, asked, faults>>
  <2>1. /\ timer' \in [Nodes -> Sockets \cup {Nobody}]
        /\ \A n \in Nodes : timer'[n] \in {Nobody, list.soc_id[n]}
    BY <1>1, <1>2, <1>4
  <2>2. Calls("send")'
    BY <1>3, <1>4 DEF Calls
  <2>3. WaitOK'
    BY <1>4, <2>2 DEF AppInv, WaitOK, Calls
  <2>4. UNCHANGED <<list, conn, answers>> /\ UNCHANGED <<busy, retryTimer>>
    BY <1>4, Zenon
  <2>5. todo' \in Seq(Kinds) /\ \A i \in 2 .. Len(todo') : todo'[i] # "send"
    BY <1>3, <1>4
  <2>6. QED
    BY <1>1, <2>1, <2>3, <2>4, <2>5, SteadyKeeps
<1>5. CASE Close(s, "again") /\ UNCHANGED <<buffer, call, asked, faults>>
  <2>1. buffer' = buffer /\ todo' = <<>>
    BY <1>5 DEF call
  <2>2. ~Calls("send")'
    BY <2>1 DEF Calls
  <2>3. QED
    BY <1>1, <1>3, <1>5, <2>1, <2>2, CloseKeeps
<1>6. CASE QueryRead(s)
  <2>1. CASE answers[s] = <<>>
    <3>1. Close(s, "again") /\ todo' = <<>>
      BY <1>6, <2>1 DEF QueryRead, ReadError
    <3>2. ~Calls("send")'
      BY <3>1 DEF Calls
    <3>3. QED
      BY <1>1, <1>3, <3>1, <3>2, CloseKeeps
  <2>2. CASE answers[s] # <<>>
    <3>1. /\ timer' = [timer EXCEPT !["query"] = Nobody]
          /\ todo' \in {<<>>, <<"start">>}
          /\ UNCHANGED <<list, conn>>
          /\ \E v : answers' = [answers EXCEPT ![s] = v]
      BY <1>6, <2>2 DEF QueryRead
    <3>2. UNCHANGED <<busy, retryTimer>>
      BY <1>6, <2>2, Zenon DEF QueryRead
    <3>3. conn[s] \notin {"free", "connecting"}
      BY <1>1, <2>2 DEF AppInv, NothingYet
    <3>4. SocketsOK'
      <4>1. /\ timer' \in [Nodes -> Sockets \cup {Nobody}]
            /\ \A n \in Nodes : timer'[n] \in {Nobody, list.soc_id[n]}
        BY <1>1, <1>2, <3>1
      <4>2. QED
        BY <3>1, <4>1 DEF AppInv, SocketsOK
    <3>5. NothingYet'
      <4>1. DOMAIN answers' = Sockets /\ \A z \in Sockets : z # s => answers'[z] = answers[z]
        BY <3>1 DEF AppInv, NothingYet
      <4>2. QED
        BY <3>1, <3>3, <4>1 DEF AppInv, NothingYet
    <3>6. DownloadFree'
      BY <3>1, <3>2, Zenon DEF AppInv, DownloadFree
    <3>7. CallsOK'
      BY <1>3, <3>1 DEF CallsOK, Calls
    <3>8. WaitOK'
      BY <3>1, <3>3 DEF WaitOK
    <3>9. QED
      BY <3>4, <3>5, <3>6, <3>7, <3>8 DEF AppInv
  <2>3. QED
    BY <2>1, <2>2
<1>7. QED
  BY <1>4, <1>5, <1>6 DEF QueryEvent

LEMMA HttpEventKeeps ==
  ASSUME AppInv, todo = <<>>, NEW s, NEW type, "http" \in In(list), list.soc_id["http"] = s,
         HttpEvent(s, type), UNCHANGED <<buffer, offset, asked, faults>>
  PROVE  AppInv'
<1>1. "http" \in Nodes /\ "query" \in Nodes /\ s \in Sockets /\ s # Invalid /\ ~Calls("send")
  BY Numbers DEF AppInv, Calls
<1>2. timer \in [Nodes -> Sockets \cup {Nobody}] /\ \A n \in Nodes : timer[n] \in {Nobody, list.soc_id[n]}
  BY DEF AppInv, SocketsOK
<1>3. /\ <<>> \in Seq(Kinds) /\ \A i \in 2 .. Len(<<>>) : <<>>[i] # "send"
      /\ <<"report">> \in Seq(Kinds) /\ \A i \in 2 .. Len(<<"report">>) : <<"report">>[i] # "send"
      /\ Head(<<"report">>) = "report"
      /\ <<"report", "over">> \in Seq(Kinds)
      /\ \A i \in 2 .. Len(<<"report", "over">>) : <<"report", "over">>[i] # "send"
      /\ Head(<<"report", "over">>) = "report"
  BY NewCalls DEF Kinds
<1>4. CASE Close(s, "again") /\ todo' = todo
  <2>1. todo' = <<>> /\ ~Calls("send")'
    BY <1>4 DEF Calls
  <2>2. QED
    BY <1>1, <1>3, <1>4, <2>1, CloseKeeps
<1>5. CASE /\ timer' \in {[timer EXCEPT !["http"] = Nobody], [timer EXCEPT !["http"] = s]}
           /\ todo' \in {<<>>, <<"report">>, <<"report", "over">>}
           /\ UNCHANGED <<list, conn, answers>> /\ UNCHANGED <<busy, retryTimer>>
  <2>1. /\ timer' \in [Nodes -> Sockets \cup {Nobody}]
        /\ \A n \in Nodes : timer'[n] \in {Nobody, list.soc_id[n]}
        /\ timer'["query"] = timer["query"]
    BY <1>1, <1>2, <1>5
  <2>2. ~Calls("send")'
    BY <1>3, <1>5 DEF Calls
  <2>3. WaitOK'
    BY <1>1, <1>5, <2>1 DEF AppInv, WaitOK
  <2>4. todo' \in Seq(Kinds) /\ \A i \in 2 .. Len(todo') : todo'[i] # "send"
    BY <1>3, <1>5
  <2>5. QED
    BY <1>5, <2>1, <2>2, <2>3, <2>4, SteadyKeeps
<1>6. CASE /\ timer' = [timer EXCEPT !["http"] = s]
           /\ UNCHANGED <<list, download, todo, conn, requests, answers>>
  <2>1. UNCHANGED <<busy, retryTimer>>
    BY <1>6, Zenon DEF download
  <2>2. QED
    BY <1>5, <1>6, <2>1
<1>7. CASE HttpRead(s)
  <2>1. CASE /\ timer' = [timer EXCEPT !["http"] = Nobody] /\ todo' = <<"report">>
             /\ UNCHANGED <<list, busy, retryTimer, conn, requests, answers>>
    <3>1. UNCHANGED <<busy, retryTimer>>
      BY <2>1, Zenon
    <3>2. QED
      BY <1>5, <2>1, <3>1
  <2>2. CASE /\ todo' = <<"report", "over">> /\ timer' = [timer EXCEPT !["http"] = Nobody]
             /\ UNCHANGED <<list, download, conn, requests, answers>>
    <3>1. UNCHANGED <<busy, retryTimer>>
      BY <2>2, Zenon DEF download
    <3>2. QED
      BY <1>5, <2>2, <3>1
  <2>3. CASE Close(s, "again") /\ UNCHANGED <<restart, todo>>
    BY <1>4, <2>3
  <2>4. QED
    BY <1>6, <1>7, <2>1, <2>2, <2>3 DEF HttpRead
<1>8. QED
  BY <1>4, <1>6, <1>7 DEF HttpEvent

\* An event finds the node it is for, or none.
LEMMA DispatchKeeps ==
  ASSUME AppInv, Dispatch
  PROVE  AppInv'
<1>1. PICK e \in events :
        CASE GetNode(list, e[1]) = Null ->
               UNCHANGED <<list, timer, buffer, download, call, conn, requests, answers, asked, faults>>
          [] GetNode(list, e[1]) = "query" ->
               QueryEvent(e[1], e[2]) /\ UNCHANGED restart
          [] OTHER ->
               HttpEvent(e[1], e[2]) /\ UNCHANGED <<buffer, offset, asked, faults>>
  BY DEF Dispatch
<1>2. todo = <<>>
  BY DEF Dispatch, Idle
<1>3. \/ GetNode(list, e[1]) = Null
      \/ /\ GetNode(list, e[1]) = "query" /\ "query" # Null /\ "query" \in In(list)
         /\ list.soc_id["query"] = e[1]
      \/ /\ GetNode(list, e[1]) = "http" /\ "http" # Null /\ "http" # "query" /\ "http" \in In(list)
         /\ list.soc_id["http"] = e[1]
  BY GetNodeFinds, TwoNodes DEF AppInv, SocketsOK, In
<1>4. CASE GetNode(list, e[1]) = Null
  <2>1. UNCHANGED <<list, timer, buffer, download, call, conn, requests, answers, asked, faults>>
    <3>1. GetNode(list, e[1]) # "query"
      BY <1>4, TwoNodes
    <3>2. QED
      BY <1>1, <1>4, <3>1, Zenon
  <2>2. UNCHANGED <<busy, retryTimer>>
    BY <2>1, Zenon DEF download
  <2>3. todo' = todo /\ UNCHANGED <<list, conn, answers, timer, buffer>>
    BY <2>1 DEF call
  <2>4. WaitOK'
    BY <2>3 DEF AppInv, WaitOK, Calls
  <2>5. /\ todo' \in Seq(Kinds) /\ \A i \in 2 .. Len(todo') : todo'[i] # "send"
        /\ ~Calls("send")'
    BY <1>2, <2>3, NewCalls DEF Calls
  <2>6. /\ timer' \in [Nodes -> Sockets \cup {Nobody}]
        /\ \A n \in Nodes : timer'[n] \in {Nobody, list.soc_id[n]}
    BY <2>3 DEF AppInv, SocketsOK
  <2>7. QED
    BY <2>2, <2>3, <2>4, <2>5, <2>6, SteadyKeeps
<1>5. CASE /\ GetNode(list, e[1]) = "query" /\ "query" # Null /\ "query" \in In(list)
           /\ list.soc_id["query"] = e[1]
  <2>1. QueryEvent(e[1], e[2])
    BY <1>1, <1>5
  <2>2. QED
    BY <1>2, <1>5, <2>1, QueryEventKeeps
<1>6. CASE /\ GetNode(list, e[1]) = "http" /\ "http" # Null /\ "http" # "query" /\ "http" \in In(list)
           /\ list.soc_id["http"] = e[1]
  <2>1. HttpEvent(e[1], e[2]) /\ UNCHANGED <<buffer, offset, asked, faults>>
    BY <1>1, <1>6
  <2>2. QED
    BY <1>2, <1>6, <2>1, HttpEventKeeps
<1>7. QED
  BY <1>3, <1>4, <1>5, <1>6

-----------------------------------------------------------------------------
(* The network, the rest of the application, and the theorems.             *)

LEMMA OutsideKeeps ==
  ASSUME AppInv,
         \/ Outside(Connects) \/ Outside(PiledUp) \/ Outside(Answers) \/ Outside(DataReady)
         \/ Outside(ServerCloses) \/ Outside(Breaks) \/ Outside(PeerGone)
  PROVE  AppInv'
<1>1. UNCHANGED <<list, timer, buffer, download, call>>
  BY DEF Outside
<1>2. PICK s \in Sockets :
        \/ Connects(s) \/ PiledUp(s) \/ Answers(s) \/ DataReady(s)
        \/ ServerCloses(s) \/ Breaks(s) \/ PeerGone(s)
  BY DEF Outside
<1>3. /\ conn[s] # "free"
      /\ \/ conn' = [conn EXCEPT ![s] = "open"] \/ conn' = [conn EXCEPT ![s] = "served"]
         \/ conn' = [conn EXCEPT ![s] = "dead"] \/ conn' = [conn EXCEPT ![s] = "silent"]
      /\ answers' = answers \/ (conn[s] # "connecting" /\ \E v : answers' = [answers EXCEPT ![s] = v])
  <2>1. CASE Connects(s)
    BY <2>1 DEF Connects
  <2>2. CASE PiledUp(s) \/ PeerGone(s)
    BY <2>2 DEF PiledUp, PeerGone, GivenUp, Sending, Alive
  <2>3. CASE Answers(s)
    <3>1. \E a \in Reply(Head(requests[s])) : answers' = [answers EXCEPT ![s] = Append(@, a)]
      BY <2>3 DEF Answers
    <3>2. conn[s] \in {"open", "served"} /\ conn' = [conn EXCEPT ![s] = "served"]
      BY <2>3 DEF Answers, Alive
    <3>3. QED
      BY <3>1, <3>2
  <2>4. CASE DataReady(s)
    BY <2>4 DEF DataReady, Alive
  <2>5. CASE ServerCloses(s)
    BY <2>5 DEF ServerCloses
  <2>6. CASE Breaks(s)
    BY <2>6 DEF Breaks, Alive
  <2>7. QED
    BY <1>2, <2>1, <2>2, <2>3, <2>4, <2>5, <2>6
<1>4. {"open", "served", "dead", "silent"} \subseteq States \ {"free", "connecting"}
  BY DEF States
<1>5. PICK x \in States \ {"free", "connecting"} : conn' = [conn EXCEPT ![s] = x]
  BY <1>3, <1>4
<1>6. QED
  BY <1>1, <1>3, <1>5, NetworkKeeps

LEMMA EmptyFacts ==
  /\ Empty \in Lists /\ Linked(Empty) /\ In(Empty) = {}
  /\ Empty.soc_id["query"] = Invalid /\ Empty.soc_id["http"] = Invalid
<1>1. Empty \in Lists /\ Empty.first = Null /\ \A n \in Nodes : Empty.soc_id[n] = Invalid
  BY DEF Empty, Lists
<1>2. In(Empty) = {}
  BY <1>1 DEF In
<1>3. QED
  BY <1>1, <1>2, TwoNodes DEF Linked

LEMMA RestartKeeps ==
  ASSUME AppInv, Restart
  PROVE  AppInv'
<1>1. /\ list' = Empty /\ timer' = [n \in Nodes |-> Nobody] /\ todo = <<>> /\ todo' = <<>>
      /\ conn' = [s \in Sockets |-> "free"] /\ answers' = [s \in Sockets |-> <<>>]
  BY DEF Restart, Idle, call
<1>2. ~retryTimer'
  BY DEF Restart
<1>3. SocketsOK'
  BY <1>1, EmptyFacts DEF SocketsOK, Apart, States
<1>4. NothingYet' /\ WaitOK' /\ CallsOK'
  BY <1>1, EmptyFacts, NewCalls DEF NothingYet, WaitOK, CallsOK, Calls
<1>5. DownloadFree'
  BY <1>1, <1>2, EmptyFacts DEF DownloadFree
<1>6. QED
  BY <1>3, <1>4, <1>5 DEF AppInv

LEMMA AppInit == Init => AppInv
<1> SUFFICES ASSUME Init PROVE AppInv
  OBVIOUS
<1>1. /\ list = Empty /\ timer = [n \in Nodes |-> Nobody] /\ todo = <<>>
      /\ conn = [s \in Sockets |-> "free"] /\ answers = [s \in Sockets |-> <<>>]
      /\ retryTimer = FALSE
  BY DEF Init, QueryInit
<1>2. SocketsOK
  BY <1>1, EmptyFacts DEF SocketsOK, Apart, States
<1>3. NothingYet /\ WaitOK /\ CallsOK
  BY <1>1, EmptyFacts, NewCalls DEF NothingYet, WaitOK, CallsOK, Calls
<1>4. DownloadFree
  BY <1>1, EmptyFacts DEF DownloadFree
<1>5. QED
  BY <1>2, <1>3, <1>4 DEF AppInv

\* Steps that leave sockets, calls and download alone.
LEMMA StutterKeeps ==
  ASSUME AppInv, UNCHANGED ours
  PROVE  AppInv'
<1>1. UNCHANGED <<list, timer, buffer, conn, answers>> /\ todo' = todo /\ UNCHANGED download
  BY DEF ours, call, network
<1>2. UNCHANGED <<busy, retryTimer>>
  BY <1>1, Zenon DEF download
<1>3. DownloadFree'
  BY <1>1, <1>2, Zenon DEF AppInv, DownloadFree
<1>4. SocketsOK' /\ NothingYet' /\ CallsOK' /\ WaitOK'
  BY <1>1 DEF AppInv, SocketsOK, NothingYet, CallsOK, WaitOK, Calls
<1>5. QED
  BY <1>3, <1>4 DEF AppInv

LEMMA QueryNextKeeps ==
  ASSUME AppInv, QueryNext
  PROVE  AppInv'
BY SendKeeps, ReportKeeps, StartKeeps, HttpCloseKeeps, DispatchKeeps, QueryTimeoutKeeps,
   HttpTimeoutKeeps, RetryKeeps, RestartKeeps, OutsideKeeps
   DEF QueryNext, TaskStep, Timers, Moves, Delivers, Ends

LEMMA AppStep == AppInv /\ [Next]_vars => AppInv'
<1> SUFFICES ASSUME AppInv, [Next]_vars PROVE AppInv'
  OBVIOUS
<1>1. CASE QueryNext
  BY <1>1, QueryNextKeeps
<1>2. CASE AutoCheck
  BY <1>2, AutoCheckKeeps
<1>3. CASE UNCHANGED ours
  BY <1>3, StutterKeeps
<1>4. QueryNext \/ AutoCheck \/ UNCHANGED ours
  <2>1. NoCheck => UNCHANGED ours
    BY DEF NoCheck, qvars
  <2>2. NetFault => UNCHANGED ours
    BY DEF NetFault
  <2>3. CASE ServiceFull \/ ServiceFullLater
    BY <2>3 DEF ServiceFull, ServiceFullLater
  <2>4. CASE PowerOn \/ ActivePdpTimeout \/ Modem \/ Detached
    BY <2>1, <2>2, <2>4 DEF PowerOn, ActivePdpTimeout, Modem, Detached
  <2>5. \A job : Ask(job) => UNCHANGED ours
    BY <2>1, <2>2 DEF Ask
  <2>6. CASE AutoCheckUpdata
    BY <2>5, <2>6 DEF AutoCheckUpdata
  <2>7. CASE Activated \/ Attached
    BY <2>1, <2>2, <2>7 DEF Activated, Attached
  <2>8. CASE Within
    BY <2>8 DEF Within
  <2>9. CASE UNCHANGED vars
    BY <2>9 DEF vars, qvars
  <2>10. QED
    BY <2>3, <2>4, <2>6, <2>7, <2>8, <2>9 DEF Next
<1>5. QED
  BY <1>1, <1>2, <1>3, <1>4

LEMMA AppHolds == Spec => []AppInv
BY AppInit, AppStep, PTL DEF Spec

(***************************************************************************)
(* SOC_NodeList matches the sockets of the two nodes, can be walked both   *)
(* ways and finds the node of every event; and a timer is never that of a  *)
(* socket its node no longer has (sm_socket.c, the timers of sm_main.c and *)
(* sm_download.c).                                                         *)
(***************************************************************************)
THEOREM ListAlwaysMatches == Spec => []ListMatches
<1>1. AppInv => ListMatches
  <2> SUFFICES ASSUME AppInv PROVE ListMatches
    OBVIOUS
  <2>1. Open = In(list)
    BY DEF Open, In
  <2>2. Holds(list, Open)
    BY <2>1, LinkedHolds DEF AppInv, SocketsOK
  <2>3. ASSUME NEW n \in Open PROVE GetNode(list, list.soc_id[n]) = n
    <3>1. n \in In(list) /\ Linked(list) /\ Apart(list)
      BY <2>1 DEF AppInv, SocketsOK
    <3>2. /\ GetNode(list, list.soc_id[n]) \in In(list)
          /\ list.soc_id[GetNode(list, list.soc_id[n])] = list.soc_id[n]
      BY <3>1, GetNodeFinds
    <3>3. QED
      BY <3>1, <3>2 DEF Apart
  <2>4. QED
    BY <2>2, <2>3 DEF ListMatches, AppInv, SocketsOK
<1>2. QED
  BY <1>1, AppHolds, PTL

(***************************************************************************)
(* While the connection of a query or report is being made, the request is *)
(* in the buffer, whatever the events of earlier sockets do, and the wait  *)
(* ends: by its timer, or by a send that fails (sm_protocol_write).        *)
(***************************************************************************)
THEOREM RequestAlwaysWaits == Spec => []ConnectingHasRequest
<1>1. AppInv => ConnectingHasRequest
  <2> SUFFICES ASSUME AppInv, NEW s \in Sockets,
                      s = list.soc_id["query"], conn[s] = "connecting"
               PROVE  buffer \in {"query", "report"} /\ (timer["query"] = s \/ todo # <<>>)
    BY DEF ConnectingHasRequest
  <2>1. list.soc_id["query"] # Invalid
    BY TwoNodes
  <2>2. QED
    BY <2>1 DEF AppInv, WaitOK, Calls
<1>2. QED
  BY <1>1, AppHolds, PTL

=============================================================================
