--------------------------- MODULE FindPathProofs ---------------------------
(***************************************************************************)
(* find_path for every map, weights, penalty and estimate, also one that   *)
(* is far too high: what it answers is a route, and it answers none only   *)
(* if there is no route.  That no closed node is expanded again does not   *)
(* matter, although its predecessor may still change.                      *)
(***************************************************************************)
EXTENDS FindPath, NumberFacts, FunctionTheorems

-----------------------------------------------------------------------------
(* Data *)

(* The ends of an edge are nodes. *)
LEMMA EdgeType ==
  /\ Len(Roads) \in Nat \ {0} /\ EdgeCount \in Nat /\ NodeCount \in Nat
  /\ \A e \in Edges : From(e) \in Nodes /\ To(e) \in Nodes
<1>1. Len(Roads) \in Nat \ {0} /\ EdgeCount \in Nat /\ NodeCount \in Nat
  BY RoadsAssumption DEF EdgeCount
<1>2. \A i \in 1..Len(Roads) : Roads[i][1] \in Nodes /\ Roads[i][2] \in Nodes
  BY RoadsAssumption
<1>3. ASSUME NEW e \in Edges
      PROVE  From(e) \in Nodes /\ To(e) \in Nodes
  <2>1. CASE e <= Len(Roads)
    <3>1. e \in 1..Len(Roads)
      BY <1>1, <2>1 DEF Edges
    <3> QED BY <3>1, <2>1, <1>2 DEF From, To
  <2>2. CASE ~(e <= Len(Roads))
    <3>1. e - Len(Roads) \in 1..Len(Roads)
      BY <1>1, <2>2 DEF Edges, EdgeCount
    <3> QED BY <3>1, <2>2, <1>2 DEF From, To
  <2> QED BY <2>1, <2>2
<1> QED BY <1>1, <1>3

(* The arguments of a query. *)
LEMMA QueryType ==
  \A q \in Queries : /\ q.start \in Nodes /\ q.target \in Nat
                     /\ q.status \in [Edges -> EdgeStatuses] /\ q.closed \subseteq Nodes
<1>1. Asked \subseteq Nat
  BY EdgeType DEF Asked
<1> QED BY <1>1, QueryAssumption

(* An element in front of a sequence. *)
LEMMA InFront ==
  ASSUME NEW S, NEW s \in Seq(S), NEW x \in S
  PROVE  /\ <<x>> \o s \in Seq(S)
         /\ Len(<<x>> \o s) = Len(s) + 1
         /\ (<<x>> \o s)[1] = x
         /\ \A i \in 2..Len(s) + 1 : (<<x>> \o s)[i] = s[i - 1]
OBVIOUS

(* A sequence has no more elements than a set they belong to, if they are   *)
(* different.                                                               *)
LEMMA DifferentNodes ==
  ASSUME NEW k \in Nat, NEW f \in [1..k -> Nodes], NEW s \in Nodes,
         \A i \in 1..k : f[i] # s,
         \A i, j \in 1..k : f[i] = f[j] => i = j
  PROVE  k <= NodeCount - 1
<1> DEFINE T == Nodes \ {s}
<1>1. IsFiniteSet(Nodes) /\ Cardinality(Nodes) = NodeCount
  <2>1. NodeCount \in Nat /\ 1 \in Int /\ NodeCount \in Int
    BY EdgeType
  <2>2. IsFiniteSet(1..NodeCount)
        /\ Cardinality(1..NodeCount) = IF 1 > NodeCount THEN 0 ELSE NodeCount - 1 + 1
    BY <2>1, FS_Interval
  <2> QED BY <2>1, <2>2 DEF Nodes
<1>2. IsFiniteSet(T) /\ Cardinality(T) = NodeCount - 1
  BY <1>1, FS_RemoveElement
<1>3. f \in Injection(1..k, T)
  BY DEF Injection, IsInjective
<1>4. Cardinality(1..k) <= Cardinality(T)
  BY <1>2, <1>3, FS_Injection
<1>5. Cardinality(1..k) = k
  <2>1. Cardinality(1..k) = IF 1 > k THEN 0 ELSE k - 1 + 1
    BY FS_Interval
  <2> QED BY <2>1
<1> QED BY <1>2, <1>4, <1>5

-----------------------------------------------------------------------------
(* Routes *)

(* What a member of RoutesBetween is. *)
LEMMA RouteFacts ==
  ASSUME NEW a, NEW b, NEW status, NEW closed, NEW p \in RoutesBetween(a, b, status, closed)
  PROVE  \E n \in Nat \ {0} :
           /\ p \in [1..n -> Edges]
           /\ From(p[1]) = a /\ To(p[n]) = b
           /\ \A i \in 1..n : Usable(p[i]) /\ Passable(p[i], status, closed) /\ To(p[i]) # a
           /\ \A i \in 1..n - 1 : To(p[i]) = From(p[i + 1])
<1>1. p \in Routes /\ From(p[1]) = a /\ To(Last(p)) = b
      /\ \A i \in DOMAIN p : Passable(p[i], status, closed)
  BY DEF RoutesBetween
<1>2. PICK n \in 1..Min2(MaxPathLen, NodeCount - 1) : p \in [1..n -> Edges] /\ IsChain(p)
  BY <1>1 DEF Routes
<1>3. n \in Nat \ {0}
  BY EdgeType, SizeAssumption DEF Min2
<1>4. DOMAIN p = 1..n /\ Len(p) = n /\ Last(p) = p[n]
  BY <1>2, <1>3 DEF Last
<1> QED BY <1>1, <1>2, <1>3, <1>4 DEF IsChain

(* If passable edges do not lead out of a set of nodes that holds the start *)
(* and not the target, there is no route.                                   *)
LEMMA NoRouteOut ==
  ASSUME NEW a, NEW b, NEW status, NEW closed, NEW T,
         a \in T, b \notin T,
         \A e \in Edges : Usable(e) /\ Passable(e, status, closed) /\ From(e) \in T => To(e) \in T
  PROVE  RoutesBetween(a, b, status, closed) = {}
<1> SUFFICES ASSUME NEW p \in RoutesBetween(a, b, status, closed)
             PROVE  FALSE
  OBVIOUS
<1>1. PICK n \in Nat \ {0} :
        /\ p \in [1..n -> Edges]
        /\ From(p[1]) = a /\ To(p[n]) = b
        /\ \A i \in 1..n : Usable(p[i]) /\ Passable(p[i], status, closed)
        /\ \A i \in 1..n - 1 : To(p[i]) = From(p[i + 1])
  BY RouteFacts
<1> DEFINE Out == {i \in 1..n : To(p[i]) \notin T}
<1>2. Out \in SUBSET Nat /\ n \in Out
  BY <1>1
<1>3. PICK i \in Out : \A j \in Out : i <= j
  <2> HIDE DEF Out
  <2> QED BY <1>2, LeastNumber
<1>4. i \in 1..n /\ p[i] \in Edges /\ To(p[i]) \notin T
  BY <1>1
<1>5. From(p[i]) \in T
  <2>1. CASE i = 1
    BY <2>1, <1>1
  <2>2. CASE i # 1
    <3>1. i - 1 \in 1..n - 1 /\ i - 1 \in 1..n /\ (i - 1) + 1 = i
      BY <2>2, <1>4, <1>1
    <3>2. i - 1 \notin Out
      BY <1>3, <1>4
    <3>3. To(p[i - 1]) \in T
      BY <3>1, <3>2
    <3> QED BY <3>1, <3>3, <1>1
  <2> QED BY <2>1, <2>2
<1> QED BY <1>1, <1>4, <1>5

(* A route does not return to its start. *)
LEMMA NoRouteBack ==
  \A a, status, closed : RoutesBetween(a, a, status, closed) = {}
<1> SUFFICES ASSUME NEW a, NEW status, NEW closed, NEW p \in RoutesBetween(a, a, status, closed)
             PROVE  FALSE
  OBVIOUS
<1>1. PICK n \in Nat \ {0} : To(p[n]) = a /\ \A i \in 1..n : To(p[i]) # a
  BY RouteFacts
<1> QED BY <1>1

(* There is no route to what is not a node. *)
LEMMA NoRouteBeyond ==
  \A a, b, status, closed : b \notin Nodes => RoutesBetween(a, b, status, closed) = {}
<1> SUFFICES ASSUME NEW a, NEW b, NEW status, NEW closed, b \notin Nodes,
                    NEW p \in RoutesBetween(a, b, status, closed)
             PROVE  FALSE
  OBVIOUS
<1>1. PICK n \in Nat \ {0} : p \in [1..n -> Edges] /\ To(p[n]) = b
  BY RouteFacts
<1> QED BY <1>1, EdgeType

(* A chain of passable edges whose ends differ is a route. *)
LEMMA ChainIsRoute ==
  ASSUME NEW a \in Nodes, NEW b, NEW status, NEW closed, NEW p \in Seq(Edges), p # <<>>,
         From(p[1]) = a, To(p[Len(p)]) = b,
         \A i \in 1..Len(p) : Usable(p[i]) /\ Passable(p[i], status, closed) /\ To(p[i]) # a,
         \A i \in 1..Len(p) - 1 : To(p[i]) = From(p[i + 1]),
         \A i, j \in 1..Len(p) : To(p[i]) = To(p[j]) => i = j
  PROVE  p \in RoutesBetween(a, b, status, closed)
<1> DEFINE n == Len(p)
<1>1. n \in Nat /\ n # 0 /\ p \in [1..n -> Edges] /\ DOMAIN p = 1..n
  OBVIOUS
<1>2. n <= NodeCount - 1
  <2> DEFINE f == [i \in 1..n |-> To(p[i])]
  <2>1. f \in [1..n -> Nodes] /\ (\A i \in 1..n : f[i] # a)
        /\ \A i, j \in 1..n : f[i] = f[j] => i = j
    BY <1>1, EdgeType
  <2> HIDE DEF f, n
  <2> QED BY <1>1, <2>1, DifferentNodes
<1>3. n \in 1..Min2(MaxPathLen, NodeCount - 1)
  BY <1>1, <1>2, EdgeType, SizeAssumption, PathLenAssumption DEF Min2
<1>4. IsChain(p)
  BY <1>1 DEF IsChain
<1>5. p \in Routes
  <2> HIDE DEF n
  <2> QED BY <1>1, <1>3, <1>4 DEF Routes
<1>6. Last(p) = p[n]
  BY DEF Last
<1> QED BY <1>1, <1>5, <1>6 DEF RoutesBetween

-----------------------------------------------------------------------------
(* Types *)

(* The cost at the end of an edge is a number, and so is its priority. *)
LEMMA CostType ==
  ASSUME TypeOK, NEW e \in Edges
  PROVE  /\ Reached(e) \in Nat
         /\ cost[here] # Unreached => cost[here] < Reached(e)
         /\ \A n \in Nodes, g \in Nat : Priority(n, g) \in Nodes \X Nat
<1>1. Weight[e] \in Nat \ {0} /\ Penalty \in Nat
  BY WeightAssumption
<1>2. cost[here] \in Nat \cup {-1}
  BY DEF TypeOK, Unreached
<1>3. Reached(e) \in Nat /\ (cost[here] # Unreached => cost[here] < Reached(e))
  BY <1>1, <1>2 DEF Reached, Unreached
<1>4. \A n \in Nodes : Estimate[n][query.target] \in Nat
  BY EstimateAssumption, QueryAssumption DEF TypeOK
<1> QED BY <1>3, <1>4 DEF Priority

LEMMA InitType == Init => TypeOK
<1> SUFFICES ASSUME Init PROVE TypeOK
  OBVIOUS
<1>1. query \in Queries /\ query.start \in Nodes
  BY QueryType DEF Init
<1>2. open \subseteq Nodes \X Nat
  <2>1. Estimate[query.start][query.target] \in Nat
    BY <1>1, EstimateAssumption, QueryAssumption
  <2> QED BY <1>1, <2>1 DEF Init, Priority
<1> QED BY <1>1, <1>2 DEF Init, TypeOK

LEMMA NextType == TypeOK /\ [Next]_vars => TypeOK'
<1> SUFFICES ASSUME TypeOK, [Next]_vars PROVE TypeOK'
  OBVIOUS
<1>1. CASE Begin
  BY <1>1 DEF TypeOK, Begin
<1>2. CASE Skip
  BY <1>2 DEF TypeOK, Skip
<1>3. CASE Expand
  <2>1. PICK entry \in Tops : /\ shut' = shut \cup {entry[1]} /\ here' = entry[1]
                              /\ open' = open \ {entry}
    BY <1>3 DEF Expand
  <2>2. entry \in open /\ entry[1] \in Nodes
    BY <2>1 DEF Tops, TypeOK
  <2> QED BY <1>3, <2>1, <2>2 DEF TypeOK, Expand
<1>4. CASE GiveUp
  BY <1>4 DEF TypeOK, GiveUp
<1>5. CASE Relax
  <2>1. PICK e \in todo : /\ todo' = todo \ {e}
                          /\ IF Taken(e)
                             THEN /\ cost' = [cost EXCEPT ![To(e)] = Reached(e)]
                                  /\ via' = [via EXCEPT ![To(e)] = e]
                                  /\ open' = open \cup {Priority(To(e), Reached(e))}
                             ELSE UNCHANGED <<cost, via, open>>
    BY <1>5 DEF Relax
  <2>2. e \in Edges /\ To(e) \in Nodes /\ Reached(e) \in Nat
    BY <2>1, EdgeType, CostType DEF TypeOK
  <2>3. Priority(To(e), Reached(e)) \in Nodes \X Nat
    BY <2>2, CostType
  <2>4. cost' \in [Nodes -> Nat \cup {Unreached}] /\ via' \in [Nodes -> Edges \cup {0}]
        /\ open' \subseteq Nodes \X Nat /\ todo' \subseteq Edges
    BY <2>1, <2>2, <2>3 DEF TypeOK
  <2> QED BY <1>5, <2>4 DEF TypeOK, Relax
<1>6. CASE Relaxed
  BY <1>6 DEF TypeOK, Relaxed
<1>7. CASE Trace
  <2>1. CASE via[here] = 0
    BY <1>7, <2>1 DEF TypeOK, Trace
  <2>2. CASE via[here] # 0
    <3>1. via[here] \in Edges /\ From(via[here]) \in Nodes
      BY <2>2, EdgeType DEF TypeOK
    <3>2. path' = <<via[here]>> \o path /\ here' = From(via[here])
      BY <1>7, <2>2 DEF Trace
    <3>3. path \in Seq(Edges)
      BY DEF TypeOK
    <3>4. <<via[here]>> \o path \in Seq(Edges)
      BY <3>1, <3>3, InFront
    <3> QED BY <1>7, <3>1, <3>2, <3>4 DEF TypeOK, Trace
  <2> QED BY <2>1, <2>2
<1>8. CASE UNCHANGED vars
  BY <1>8 DEF TypeOK, vars
<1> QED BY <1>1, <1>2, <1>3, <1>4, <1>5, <1>6, <1>7, <1>8 DEF Next

(* The variables of the search keep their types. *)
THEOREM Typing == Spec => []TypeOK
BY InitType, NextType, PTL DEF Spec

-----------------------------------------------------------------------------
(* The invariant of the search *)

Known(n) == cost[n] # Unreached

(* An edge the planner may take now. *)
Free(e) == Usable(e) /\ Passable(e, query.status, query.closed)

(* The predecessors form a tree with the start at its root: a node is dearer *)
(* than the one it was reached from, also after the cost of either has       *)
(* fallen.                                                                   *)
TreeInv ==
  /\ cost[query.start] = 0 /\ via[query.start] = 0
  /\ \A n \in Nodes : via[n] = 0 => n = query.start \/ ~Known(n)
  /\ \A n \in Nodes : via[n] # 0 => /\ To(via[n]) = n /\ Free(via[n])
                                  /\ Known(n) /\ Known(From(via[n]))
                                  /\ cost[From(via[n])] < cost[n]

(* Nodes that were reached are closed or in the open set; the edges of       *)
(* closed nodes have been looked at.                                         *)
FrontInv ==
  /\ \A entry \in open : Known(entry[1])
  /\ \A n \in shut : Known(n)
  /\ \A n \in Nodes : Known(n) => n \in shut \/ \E entry \in open : entry[1] = n
  /\ pc \in {"check", "search", "relax"} =>
       /\ query.target \notin shut /\ path = <<>>
       /\ \A e \in Edges : Free(e) /\ From(e) \in shut =>
            Known(To(e)) \/ (pc = "relax" /\ e \in todo)
  /\ pc \in {"relax", "trace"} => Known(here)
  /\ pc \in {"relax"} => \A e \in todo : From(e) = here

(* The path is a piece of the tree that ends at the target. *)
PathInv ==
  pc = "trace" =>
    /\ path = <<>> => here = query.target
    /\ path # <<>> => From(path[1]) = here /\ To(path[Len(path)]) = query.target
    /\ \A i \in 1..Len(path) : /\ Free(path[i]) /\ Known(To(path[i]))
                               /\ cost[here] < cost[To(path[i])]
    /\ \A i \in 1..Len(path) - 1 : To(path[i]) = From(path[i + 1])
    /\ \A i, j \in 1..Len(path) : i < j => cost[To(path[i])] < cost[To(path[j])]

AnswerInv ==
  pc = "done" => \/ path \in Choice!Allowed(query)
                 \/ path = <<>> /\ Choice!Allowed(query) = {}

SearchInv == TypeOK /\ TreeInv /\ FrontInv /\ PathInv /\ AnswerInv

(* The routes of the abstract module are those of RoadMap. *)
LEMMA AllowedRoutes ==
  Choice!Allowed(query) = RoutesBetween(query.start, query.target, query.status, query.closed)
BY DEF Choice!Allowed, Choice!RoutesBetween, RoutesBetween, Choice!Routes, Routes,
  Choice!IsChain, IsChain, Choice!Passable, Passable, Choice!Usable, Usable, Choice!From, From,
  Choice!To, To, Choice!Edges, Edges, Choice!EdgeCount, EdgeCount, Choice!Nodes, Nodes,
  Choice!Min2, Min2, Choice!Last, Last

(* What a step of the loop over the neighbours does. *)
RelaxWith(e) ==
  /\ todo' = todo \ {e}
  /\ IF Taken(e)
     THEN /\ cost' = [cost EXCEPT ![To(e)] = Reached(e)]
          /\ via' = [via EXCEPT ![To(e)] = e]
          /\ open' = open \cup {Priority(To(e), Reached(e))}
     ELSE UNCHANGED <<cost, via, open>>
  /\ UNCHANGED <<query, pc, shut, here, path>>

LEMMA RelaxStep == Relax => pc = "relax" /\ \E e \in todo : RelaxWith(e)
BY DEF Relax, RelaxWith

(* A node that is found again gets cheaper, and neither the start nor the   *)
(* node that is being expanded is.                                          *)
LEMMA TakenFacts ==
  ASSUME TypeOK, TreeInv, Known(here), NEW e \in Edges, From(e) = here, Taken(e)
  PROVE  /\ Free(e) /\ To(e) \in Nodes /\ Reached(e) \in Nat
         /\ To(e) # query.start /\ To(e) # here
         /\ cost[here] < Reached(e)
         /\ Known(To(e)) => Reached(e) < cost[To(e)]
<1>1. Free(e) /\ To(e) \in Nodes /\ Reached(e) \in Nat /\ cost[here] < Reached(e)
  BY EdgeType, CostType DEF Taken, Free, Known
<1>2. Known(To(e)) => Reached(e) < cost[To(e)]
  BY DEF Taken, Cheaper, Known
<1>3. cost[here] \in Nat /\ cost[query.start] = 0
  BY DEF TypeOK, TreeInv, Known
<1>4. To(e) # here
  BY <1>1, <1>2, <1>3
<1>5. To(e) # query.start
  BY <1>1, <1>2, <1>3 DEF Known, Unreached
<1> QED BY <1>1, <1>2, <1>4, <1>5

LEMMA InitSearch == Init => SearchInv
<1> SUFFICES ASSUME Init PROVE SearchInv
  OBVIOUS
<1>1. TypeOK /\ query.start \in Nodes
  BY InitType, QueryType DEF TypeOK
<1>2. /\ cost = [n \in Nodes |-> IF n = query.start THEN 0 ELSE Unreached]
      /\ via = [n \in Nodes |-> 0] /\ shut = {} /\ path = <<>> /\ pc = "check"
      /\ open = {Priority(query.start, 0)}
  BY DEF Init
<1>3. \A n \in Nodes : Known(n) <=> n = query.start
  BY <1>1, <1>2 DEF Known, Unreached
<1>4. TreeInv
  BY <1>1, <1>2, <1>3 DEF TreeInv
<1>5. FrontInv
  BY <1>1, <1>2, <1>3 DEF FrontInv, Priority
<1> QED BY <1>1, <1>2, <1>4, <1>5 DEF SearchInv, PathInv, AnswerInv

LEMMA TreeStep == SearchInv /\ [Next]_vars => TreeInv'
<1> SUFFICES ASSUME SearchInv, [Next]_vars PROVE TreeInv'
  OBVIOUS
<1>1. CASE UNCHANGED <<query, cost, via>>
  BY <1>1 DEF SearchInv, TreeInv, Free, Known
<1>2. CASE Relax
  <2>1. PICK e \in todo : RelaxWith(e)
    BY <1>2, RelaxStep
  <2>2. CASE ~Taken(e)
    BY <1>1, <2>1, <2>2 DEF RelaxWith
  <2>3. CASE Taken(e)
    <3>1. e \in Edges /\ From(e) = here /\ Known(here) /\ here \in Nodes
      BY <1>2 DEF Relax, SearchInv, TypeOK, FrontInv
    <3>2. /\ Free(e) /\ To(e) \in Nodes /\ Reached(e) \in Nat
          /\ To(e) # query.start /\ To(e) # here
          /\ cost[here] < Reached(e)
          /\ Known(To(e)) => Reached(e) < cost[To(e)]
      BY <2>3, <3>1, TakenFacts DEF SearchInv
    <3>3. /\ cost' = [cost EXCEPT ![To(e)] = Reached(e)]
          /\ via' = [via EXCEPT ![To(e)] = e]
          /\ query' = query
      BY <2>1, <2>3 DEF RelaxWith
    <3>4. /\ cost \in [Nodes -> Nat \cup {-1}] /\ via \in [Nodes -> Edges \cup {0}]
          /\ query.start \in Nodes
      BY QueryType DEF SearchInv, TypeOK, Unreached
    <3>5. /\ cost'[To(e)] = Reached(e) /\ via'[To(e)] = e
          /\ \A n \in Nodes \ {To(e)} : cost'[n] = cost[n] /\ via'[n] = via[n]
      BY <3>2, <3>3, <3>4
    <3>6. \A f : Free(f)' <=> Free(f)
      BY <3>3 DEF Free
    <3>7. \A n \in Nodes : Known(n) => cost'[n] # Unreached /\ cost'[n] <= cost[n]
      BY <3>2, <3>4, <3>5 DEF Known, Unreached
    <3>8. cost'[query'.start] = 0 /\ via'[query'.start] = 0
      BY <3>2, <3>3, <3>4, <3>5 DEF SearchInv, TreeInv
    <3>9. \A n \in Nodes : via'[n] = 0 => n = query'.start \/ ~Known(n)'
      BY <3>1, <3>3, <3>5 DEF SearchInv, TreeInv, Known, Edges
    <3>10. ASSUME NEW n \in Nodes, via'[n] # 0
           PROVE  /\ To(via'[n]) = n /\ Free(via'[n])
                  /\ cost'[n] # Unreached /\ cost'[From(via'[n])] # Unreached
                  /\ cost'[From(via'[n])] < cost'[n]
      <4>1. CASE n = To(e)
        BY <4>1, <3>1, <3>2, <3>5, <3>7 DEF Unreached
      <4>2. CASE n # To(e)
        <5> DEFINE m == From(via[n])
        <5>1. via'[n] = via[n] /\ cost'[n] = cost[n] /\ via[n] # 0
          BY <4>2, <3>5, <3>10
        <5>2. /\ To(via[n]) = n /\ Free(via[n]) /\ Known(n) /\ Known(m)
              /\ cost[m] < cost[n]
          BY <5>1 DEF SearchInv, TreeInv
        <5>3. m \in Nodes
          BY <5>1, <3>4, EdgeType
        <5>4. cost'[m] # Unreached /\ cost'[m] <= cost[m]
          BY <5>2, <5>3, <3>7
        <5>5. cost'[m] \in Int /\ cost[m] \in Int /\ cost[n] \in Int
          BY <5>3, <3>2, <3>4, <3>5
        <5> QED BY <5>1, <5>2, <5>4, <5>5 DEF Known
      <4> QED BY <4>1, <4>2
    <3> QED BY <3>6, <3>8, <3>9, <3>10 DEF TreeInv, Known
  <2> QED BY <2>2, <2>3
<1> QED BY <1>1, <1>2 DEF Next, vars, Begin, Skip, Expand, GiveUp, Relaxed, Trace

LEMMA FrontStep == SearchInv /\ [Next]_vars => FrontInv'
<1> SUFFICES ASSUME SearchInv, [Next]_vars PROVE FrontInv'
  OBVIOUS
<1> USE DEF SearchInv
<1>1. CASE Begin
  BY <1>1 DEF Begin, FrontInv, Free, Known
<1>2. CASE Skip
  BY <1>2 DEF Skip, Tops, FrontInv, Free, Known
<1>3. CASE Expand
  <2>1. PICK entry \in Tops :
          /\ open' = open \ {entry} /\ shut' = shut \cup {entry[1]} /\ here' = entry[1]
          /\ IF entry[1] = query.target
             THEN pc' = "trace" /\ todo' = {}
             ELSE pc' = "relax" /\ todo' = {e \in Edges : From(e) = entry[1]}
    BY <1>3 DEF Expand
  <2>2. /\ entry \in open /\ UNCHANGED <<query, cost, via, path>> /\ pc = "search"
    BY <1>3, <2>1 DEF Tops, Expand
  <2>3. /\ \A other \in open' : Known(other[1])'
        /\ \A n \in shut' : Known(n)'
        /\ \A n \in Nodes : Known(n)' => n \in shut' \/ \E other \in open' : other[1] = n
        /\ Known(here)'
    BY <2>1, <2>2 DEF FrontInv, Known
  <2>4. CASE entry[1] = query.target
    BY <2>1, <2>3, <2>4 DEF FrontInv
  <2>5. CASE entry[1] # query.target
    <3>1. query'.target \notin shut' /\ path' = <<>>
      BY <2>1, <2>2, <2>5 DEF FrontInv
    <3>2. \A e \in Edges : Free(e)' /\ From(e) \in shut' => Known(To(e))' \/ e \in todo'
      BY <2>1, <2>2, <2>5 DEF FrontInv, Free, Known
    <3>3. pc' = "relax" /\ \A e \in todo' : From(e) = here'
      BY <2>1, <2>5
    <3> QED BY <2>3, <3>1, <3>2, <3>3 DEF FrontInv
  <2> QED BY <2>4, <2>5
<1>4. CASE GiveUp
  BY <1>4 DEF GiveUp, FrontInv, Free, Known
<1>5. CASE Relax
  <2>1. PICK e \in todo : RelaxWith(e)
    BY <1>5, RelaxStep
  <2>2. /\ UNCHANGED <<query, pc, shut, here, path>> /\ todo' = todo \ {e} /\ pc = "relax"
    BY <1>5, <2>1 DEF RelaxWith, Relax
  <2>3. e \in Edges /\ From(e) = here /\ Known(here) /\ To(e) \in Nodes
    BY <2>2, EdgeType DEF FrontInv, TypeOK
  <2>4. \A f : Free(f)' <=> Free(f)
    BY <2>2 DEF Free
  <2>5. CASE ~Taken(e)
    <3>1. Free(e) => Known(To(e))
      BY <2>5 DEF Taken, Free, Cheaper, Known
    <3>2. UNCHANGED <<cost, open>>
      BY <2>1, <2>5 DEF RelaxWith
    <3> QED BY <2>2, <2>4, <3>1, <3>2 DEF FrontInv, Known
  <2>6. CASE Taken(e)
    <3>1. /\ cost' = [cost EXCEPT ![To(e)] = Reached(e)]
          /\ open' = open \cup {Priority(To(e), Reached(e))}
      BY <2>1, <2>6 DEF RelaxWith
    <3>2. Reached(e) \in Nat /\ Reached(e) # Unreached
      BY <2>3, CostType DEF Unreached
    <3>3. /\ \A n \in Nodes : Known(n)' <=> Known(n) \/ n = To(e)
      BY <2>3, <3>1, <3>2 DEF Known, TypeOK
    <3>4. /\ \A other \in open : other[1] \in Nodes
          /\ shut \subseteq Nodes /\ here \in Nodes
          /\ Priority(To(e), Reached(e))[1] = To(e)
      BY DEF TypeOK, Priority
    <3>5. \A other \in open' : Known(other[1])'
      BY <3>1, <3>3, <3>4, <2>3 DEF FrontInv
    <3>6. \A n \in shut' : Known(n)'
      BY <2>2, <3>3, <3>4 DEF FrontInv
    <3>7. \A n \in Nodes : Known(n)' => n \in shut' \/ \E other \in open' : other[1] = n
      BY <2>2, <3>1, <3>3, <3>4 DEF FrontInv
    <3>8. \A f \in Edges : Free(f)' /\ From(f) \in shut' => Known(To(f))' \/ f \in todo'
      BY <2>2, <2>4, <3>3, EdgeType DEF FrontInv
    <3>9. Known(here)'
      BY <2>2, <2>3, <3>3, <3>4
    <3> QED BY <2>2, <3>5, <3>6, <3>7, <3>8, <3>9 DEF FrontInv
  <2> QED BY <2>5, <2>6
<1>6. CASE Relaxed
  BY <1>6 DEF Relaxed, FrontInv, Free, Known
<1>7. CASE Trace
  <2>1. UNCHANGED <<query, open, cost, via, shut, todo>> /\ pc = "trace"
    BY <1>7 DEF Trace
  <2>2. pc' = "done" \/ (pc' = "trace" /\ cost[here'] # Unreached)
    BY <1>7, <2>1 DEF Trace, TreeInv, TypeOK, Known
  <2> QED BY <2>1, <2>2 DEF FrontInv, Known
<1>8. CASE UNCHANGED vars
  BY <1>8 DEF vars, FrontInv, Free, Known
<1> QED BY <1>1, <1>2, <1>3, <1>4, <1>5, <1>6, <1>7, <1>8 DEF Next

LEMMA PathStep == SearchInv /\ [Next]_vars => PathInv'
<1> SUFFICES ASSUME SearchInv, [Next]_vars, pc' = "trace" PROVE PathInv'
  BY DEF PathInv
<1> USE DEF SearchInv
<1>1. CASE Trace
  <2> DEFINE e == via[here]
  <2>1. /\ pc = "trace" /\ e # 0 /\ UNCHANGED <<query, cost, via>>
        /\ path' = <<e>> \o path /\ here' = From(e)
    BY <1>1 DEF Trace
  <2>2. e \in Edges /\ path \in Seq(Edges) /\ here \in Nodes /\ From(e) \in Nodes
    BY <2>1, EdgeType DEF TypeOK
  <2>3. /\ To(e) = here /\ Free(e) /\ Known(here) /\ cost[From(e)] < cost[here]
    BY <2>1, <2>2 DEF TreeInv
  <2>4. /\ path' \in Seq(Edges) /\ Len(path') = Len(path) + 1 /\ path'[1] = e
        /\ \A i \in 2..Len(path) + 1 : path'[i] = path[i - 1]
    BY <2>1, <2>2, InFront
  <2>5. \A i \in 1..Len(path) : path[i] \in Edges /\ To(path[i]) \in Nodes
    BY <2>2, EdgeType
  <2>6. cost \in [Nodes -> Nat \cup {-1}] /\ Len(path) \in Nat
    BY <2>2 DEF TypeOK, Unreached
  <2> HIDE DEF e
  <2>7. path' # <<>> /\ From(path'[1]) = here'
    BY <2>1, <2>4, <2>6
  <2>8. To(path'[Len(path')]) = query'.target
    <3>1. CASE path = <<>>
      BY <3>1, <2>1, <2>3, <2>4 DEF PathInv
    <3>2. CASE path # <<>>
      <4>1. Len(path) # 0
        BY <3>2, <2>2
      <4>2. path'[Len(path')] = path[Len(path)]
        BY <4>1, <2>4, <2>6
      <4> QED BY <3>2, <4>2, <2>1 DEF PathInv
    <3> QED BY <3>1, <3>2
  <2>9. ASSUME NEW i \in 1..Len(path')
        PROVE  Free(path'[i]) /\ Known(To(path'[i])) /\ cost[here'] < cost[To(path'[i])]
    <3>1. CASE i = 1
      BY <3>1, <2>1, <2>3, <2>4
    <3>2. CASE i # 1
      <4>1. i - 1 \in 1..Len(path) /\ path'[i] = path[i - 1]
        BY <3>2, <2>4, <2>6
      <4>2. /\ Free(path[i - 1]) /\ Known(To(path[i - 1]))
            /\ cost[here] < cost[To(path[i - 1])]
        BY <4>1, <2>1 DEF PathInv
      <4>3. cost[From(e)] < cost[To(path[i - 1])]
        BY <4>1, <4>2, <2>2, <2>3, <2>5, <2>6
      <4> QED BY <4>1, <4>2, <4>3, <2>1
    <3> QED BY <3>1, <3>2
  <2>10. ASSUME NEW i \in 1..Len(path') - 1
         PROVE  To(path'[i]) = From(path'[i + 1])
    <3>1. CASE i = 1
      <4>1. path # <<>> /\ path'[2] = path[1] /\ i + 1 = 2
        BY <3>1, <2>4, <2>6
      <4> QED BY <3>1, <4>1, <2>1, <2>3, <2>4 DEF PathInv
    <3>2. CASE i # 1
      <4>1. i - 1 \in 1..Len(path) - 1 /\ path'[i] = path[i - 1] /\ path'[i + 1] = path[(i - 1) + 1]
        BY <3>2, <2>4, <2>6
      <4> QED BY <4>1, <2>1 DEF PathInv
    <3> QED BY <3>1, <3>2
  <2>11. ASSUME NEW i \in 1..Len(path'), NEW j \in 1..Len(path'), i < j
         PROVE  cost[To(path'[i])] < cost[To(path'[j])]
    <3>1. j - 1 \in 1..Len(path) /\ path'[j] = path[j - 1]
      BY <2>4, <2>6, <2>11
    <3>2. CASE i = 1
      BY <3>1, <3>2, <2>1, <2>3, <2>4 DEF PathInv
    <3>3. CASE i # 1
      <4>1. i - 1 \in 1..Len(path) /\ path'[i] = path[i - 1] /\ i - 1 < j - 1
        BY <3>3, <2>4, <2>6, <2>11
      <4> QED BY <3>1, <4>1, <2>1 DEF PathInv
    <3> QED BY <3>2, <3>3
  <2> QED BY <2>1, <2>7, <2>8, <2>9, <2>10, <2>11 DEF PathInv, Free, Known
<1>2. CASE Expand
  <2>1. here' = query'.target /\ path' = <<>>
    BY <1>2 DEF Expand, FrontInv
  <2>2. Len(path') = 0
    BY <2>1
  <2> QED BY <2>1, <2>2 DEF PathInv
<1>3. CASE UNCHANGED vars
  BY <1>3 DEF vars, PathInv, Free, Known
<1>4. ~Begin /\ ~Skip /\ ~GiveUp /\ ~Relax /\ ~Relaxed
  BY DEF Begin, Skip, GiveUp, Relax, Relaxed
<1> QED BY <1>1, <1>2, <1>3, <1>4 DEF Next

-----------------------------------------------------------------------------
(* The answer *)

(* If the open set is empty, what is closed holds every node that can be    *)
(* reached.                                                                 *)
LEMMA NoneWhenExhausted ==
  ASSUME SearchInv, pc = "search", open = {}
  PROVE  Choice!Allowed(query) = {}
<1>1. query.target \notin shut /\ query.start \in shut
  <2>1. query.start \in Nodes /\ Known(query.start)
    BY QueryType DEF SearchInv, TypeOK, TreeInv, Known, Unreached
  <2> QED BY <2>1 DEF SearchInv, FrontInv
<1>2. \A e \in Edges : Free(e) /\ From(e) \in shut => To(e) \in shut
  BY EdgeType DEF SearchInv, FrontInv
<1>3. RoutesBetween(query.start, query.target, query.status, query.closed) = {}
  BY <1>1, <1>2, NoRouteOut DEF Free
<1> QED BY <1>3, AllowedRoutes

(* A path that has come back to the start is a route. *)
LEMMA RouteWhenTraced ==
  ASSUME SearchInv, pc = "trace", via[here] = 0
  PROVE  \/ path \in Choice!Allowed(query)
         \/ path = <<>> /\ Choice!Allowed(query) = {}
<1>1. here = query.start /\ query.start \in Nodes /\ cost[here] = 0
  BY QueryType DEF SearchInv, TypeOK, TreeInv, FrontInv
<1>2. CASE path = <<>>
  BY <1>1, <1>2, AllowedRoutes, NoRouteBack DEF SearchInv, PathInv
<1>3. CASE path # <<>>
  <2>1. path \in Seq(Edges) /\ cost \in [Nodes -> Nat \cup {-1}]
    BY DEF SearchInv, TypeOK, Unreached
  <2>2. \A i \in 1..Len(path) : path[i] \in Edges /\ To(path[i]) \in Nodes
    BY <2>1, EdgeType
  <2>3. From(path[1]) = query.start /\ To(path[Len(path)]) = query.target
    BY <1>1, <1>3 DEF SearchInv, PathInv
  <2>4. \A i \in 1..Len(path) : Free(path[i]) /\ cost[here] < cost[To(path[i])]
    BY DEF SearchInv, PathInv
  <2>5. \A i \in 1..Len(path) : To(path[i]) # query.start
    BY <1>1, <2>4
  <2>6. \A i, j \in 1..Len(path) : i < j => cost[To(path[i])] < cost[To(path[j])]
    BY DEF SearchInv, PathInv
  <2>7. ASSUME NEW i \in 1..Len(path), NEW j \in 1..Len(path), To(path[i]) = To(path[j])
        PROVE  i = j
    <3>1. cost[To(path[i])] \in Int /\ cost[To(path[i])] = cost[To(path[j])]
      BY <2>1, <2>2, <2>7
    <3>2. ~(i < j) /\ ~(j < i)
      BY <2>6, <3>1
    <3> QED BY <3>2
  <2>8. \A i \in 1..Len(path) - 1 : To(path[i]) = From(path[i + 1])
    BY DEF SearchInv, PathInv
  <2>9. path \in RoutesBetween(query.start, query.target, query.status, query.closed)
    <3>1. \A i \in 1..Len(path) : /\ Usable(path[i]) /\ To(path[i]) # query.start
                                 /\ Passable(path[i], query.status, query.closed)
      BY <2>4, <2>5 DEF Free
    <3> QED BY <1>1, <1>3, <2>1, <2>3, <2>7, <2>8, <3>1, ChainIsRoute
  <2> QED BY <2>9, AllowedRoutes
<1> QED BY <1>2, <1>3

(* Every step is a stutter of RouteChoice, or gives its answer. *)
LEMMA AnswerStep ==
  ASSUME SearchInv, [Next]_vars, pc # "done", pc' = "done"
  PROVE  /\ query' = query /\ path' = path
         /\ \/ path \in Choice!Allowed(query)
            \/ path = <<>> /\ Choice!Allowed(query) = {}
<1>1. CASE Begin
  <2>1. query.target > NodeCount /\ query.target \in Nat /\ path = <<>>
    BY <1>1, QueryType, EdgeType DEF Begin, SearchInv, TypeOK, FrontInv
  <2>2. query.target \notin Nodes
    BY <2>1, EdgeType DEF Nodes
  <2> QED BY <1>1, <2>1, <2>2, AllowedRoutes, NoRouteBeyond DEF Begin
<1>2. CASE GiveUp
  BY <1>2, NoneWhenExhausted DEF GiveUp, SearchInv, FrontInv
<1>3. CASE Trace
  BY <1>3, RouteWhenTraced DEF Trace
<1>4. ~Skip /\ ~Expand /\ ~Relax /\ ~Relaxed /\ ~UNCHANGED vars
  BY DEF Skip, Expand, Relax, Relaxed, vars
<1> QED BY <1>1, <1>2, <1>3, <1>4 DEF Next

(* After the answer nothing happens. *)
LEMMA DoneStays == [Next]_vars /\ pc = "done" => UNCHANGED vars
BY DEF Next, Begin, Skip, Expand, GiveUp, Relax, Relaxed, Trace

LEMMA SearchInvStep == SearchInv /\ [Next]_vars => SearchInv'
<1> SUFFICES ASSUME SearchInv, [Next]_vars PROVE SearchInv'
  OBVIOUS
<1>1. TypeOK' /\ TreeInv' /\ FrontInv' /\ PathInv'
  BY NextType, TreeStep, FrontStep, PathStep DEF SearchInv
<1>2. AnswerInv'
  <2>1. CASE pc = "done"
    <3>1. UNCHANGED <<pc, path, query>>
      BY <2>1, DoneStays DEF vars
    <3>2. Choice!Allowed(query)' = Choice!Allowed(query)
      BY <3>1 DEF Choice!Allowed
    <3> QED BY <2>1, <3>1, <3>2 DEF SearchInv, AnswerInv
  <2>2. CASE pc # "done" /\ pc' = "done"
    <3>1. query' = query /\ path' = path
      BY <2>2, AnswerStep
    <3>2. Choice!Allowed(query)' = Choice!Allowed(query)
      BY <3>1 DEF Choice!Allowed
    <3>3. \/ path \in Choice!Allowed(query)
          \/ path = <<>> /\ Choice!Allowed(query) = {}
      BY <2>2, AnswerStep
    <3> QED BY <3>1, <3>2, <3>3 DEF AnswerInv
  <2> QED BY <2>1, <2>2 DEF AnswerInv
<1> QED BY <1>1, <1>2 DEF SearchInv

(* find_path answers a query once, with one of the routes there are, or     *)
(* with none if there are none.                                             *)
THEOREM AnswersAreRoutes == Spec => RouteIsAllowed
<1>1. Init => Choice!Init
  BY DEF Init, Choice!Init, Choice!Pending
<1>2. SearchInv /\ [Next]_vars => [Choice!Answer]_<<query, IF pc = "done" THEN path ELSE <<0>> >>
  <2> SUFFICES ASSUME SearchInv, [Next]_vars
               PROVE  [Choice!Answer]_<<query, IF pc = "done" THEN path ELSE <<0>> >>
    OBVIOUS
  <2>1. CASE pc = "done"
    BY <2>1, DoneStays DEF vars
  <2>2. CASE pc # "done" /\ pc' = "done"
    <3>1. query' = query /\ path' = path
      BY <2>2, AnswerStep
    <3>2. \/ path \in Choice!Allowed(query)
          \/ path = <<>> /\ Choice!Allowed(query) = {}
      BY <2>2, AnswerStep
    <3> QED BY <2>2, <3>1, <3>2 DEF Choice!Answer, Choice!Pending, Choice!None
  <2>3. CASE pc # "done" /\ pc' # "done"
    <3>1. query' = query
      BY DEF Next, vars, Begin, Skip, Expand, GiveUp, Relax, Relaxed, Trace
    <3> QED BY <2>3, <3>1
  <2> QED BY <2>1, <2>2, <2>3
<1> QED BY <1>1, <1>2, InitSearch, SearchInvStep, PTL DEF Spec, RouteIsAllowed, Choice!Spec

=============================================================================
