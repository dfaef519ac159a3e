------------------------------ MODULE PerfHash ------------------------------
(***************************************************************************)
(* The order-preserving minimal perfect hash function that the second pass *)
(* finds words with, perf_hash.c: every key is an edge of three vertices,  *)
(* drawn from random tables until repeatedly taking away an edge that has  *)
(* a vertex for itself takes all of them away; the vertices are then given *)
(* numbers, in the opposite order, whose exclusive or is the key's place   *)
(* in the dictionary.                                                      *)
(***************************************************************************)
EXTENDS Integers, Sequences, FiniteSets
LOCAL INSTANCE SequencesExt
LOCAL INSTANCE Bitwise

CONSTANTS
  KeyLists,   \* dictionaries: sequences of keys in order, a key one of characters
  Randoms,    \* sequences that RANDOM may give
  MAX_TRIES   \* 50

ASSUME PerfHashAssumption ==
  /\ \A keys \in KeyLists : \A i \in DOMAIN keys : keys[i] # <<>>
  /\ MAX_TRIES \in Nat

VARIABLES
  hashKeys,  \* the keys
  tries,     \* k: edges drawn
  tb,        \* the tables, by character, place and vertex
  edge,      \* NODEa, NODEb and NODEc of every edge
  of,        \* FIRST and NEXT: the edges of a vertex that are left
  erased,    \* the edges taken away, by mk
  S,         \* and in their order
  Stack,     \* calls of ph_remove: [e, v, m]
  visited,   \* v of acyclic: vertices visited
  g,
  hash       \* "tables", "acyclic", "assign", "ready", "fatal", "error"

hashVars == <<hashKeys, tries, tb, edge, of, erased, S, Stack, visited, g, hash>>

-----------------------------------------------------------------------------
\* make_trans_func.

Chars == UNION {{hashKeys[i][j] : j \in DOMAIN hashKeys[i]} : i \in DOMAIN hashKeys}

\* A character that no key has is taken for the first one.
translate(ch) == IF ch \in Chars THEN Cardinality({x \in Chars : x < ch}) ELSE 0

InCommon(i) ==
  LET s == hashKeys[i - 1]
      t == hashKeys[i]
  IN CHOOSE l \in 0 .. Len(s) :
       /\ l <= Len(t)
       /\ SubSeq(s, 1, l) = SubSeq(t, 1, l)
       /\ l < Len(s) /\ l < Len(t) => s[l + 1] # t[l + 1]

\* One more than any key has in common with the one before.
MAX_L ==
  LET lengths == {1} \cup {InCommon(i) + 1 : i \in 2 .. Len(hashKeys)}
  IN CHOOSE l \in lengths : \A x \in lengths : x <= l

NumKeys == Len(hashKeys)

\* *n, with c = 1.23.
Vertices == (123 * NumKeys + 100) \div 100

-----------------------------------------------------------------------------
\* tree_builder.

Table(random) ==
  [x \in 0 .. Cardinality(Chars) - 1, j \in 0 .. MAX_L - 1 |->
     [i \in 1 .. 3 |-> random[3 * (x * MAX_L + j) + i] % Vertices]]

\* The column of the table for the k-th character.
Column(key, k) == (Len(key) - 1 + k - 1) % MAX_L

Sum3(key, i) ==
  FoldLeft(LAMBDA sum, k : sum + tb'[translate(key[k]), Column(key, k)][i],
           0, [k \in DOMAIN key |-> k])

After(x) == IF x + 1 > Vertices THEN 1 ELSE x + 1

EdgeOf(key) ==
  LET x == (Sum3(key, 1) % Vertices) + 1
      y0 == (Sum3(key, 2) % Vertices) + 1
      z0 == (Sum3(key, 3) % Vertices) + 1
      y == IF y0 = x THEN After(y0) ELSE y0
      z1 == IF z0 = x THEN After(z0) ELSE z0
      z2 == IF z1 = y THEN After(z1) ELSE z1
  IN <<x, y, IF z1 = y /\ z2 = x THEN After(z2) ELSE z2>>

\* The list of every vertex has the latest edge first.
EdgeLists(edges) ==
  FoldLeft(LAMBDA lists, e :
             FoldLeft(LAMBDA ls, i : [ls EXCEPT ![edges[e][i]] = <<e>> \o @], lists, <<1, 2, 3>>),
           [v \in 1 .. Vertices |-> <<>>], [e \in DOMAIN edges |-> e])

HashInit ==
  /\ hashKeys \in KeyLists
  /\ tries = 0
  /\ tb = <<>> /\ edge = <<>> /\ of = <<>> /\ erased = {} /\ S = <<>> /\ Stack = <<>>
  /\ visited = 0 /\ g = <<>>
  /\ hash = "tables"

tree_builder ==
  /\ hash = "tables"
  /\ \E random \in Randoms : tb' = Table(random)
  /\ tries' = tries + 1
  /\ IF tries' > MAX_TRIES
     THEN hash' = "fatal" /\ edge' = <<>> /\ of' = <<>>
     ELSE /\ hash' = "acyclic"
          /\ edge' = [i \in DOMAIN hashKeys |-> EdgeOf(hashKeys[i])]
          /\ of' = EdgeLists(edge')
  /\ UNCHANGED <<hashKeys, erased, S, Stack, visited, g>>

-----------------------------------------------------------------------------
\* acyclic.

\* The one edge of a vertex, or 0.
unique(lists, v) == IF Len(lists[v]) = 1 THEN lists[v][1] ELSE 0

Member(e, gone) == e # 0 /\ e \notin gone

delete(list, e) == RemoveAt(list, CHOOSE i \in DOMAIN list : list[i] = e
                                    /\ \A j \in 1 .. i - 1 : list[j] # e)

acyclic ==
  /\ hash = "acyclic"
  /\ Stack = <<>>
  /\ IF visited < Vertices
     THEN /\ visited' = visited + 1
          /\ LET e == unique(of, visited')
             IN Stack' = IF Member(e, erased) THEN <<[e |-> e, v |-> visited', m |-> 0]>>
                         ELSE <<>>
          /\ UNCHANGED <<tb, edge, of, erased, S, hash>>
     ELSE IF Len(S) = NumKeys
     THEN hash' = "assign" /\ UNCHANGED <<tb, edge, of, erased, S, Stack, visited>>
     ELSE /\ hash' = "tables"
          /\ tb' = <<>> /\ edge' = <<>> /\ of' = <<>> /\ erased' = {} /\ S' = <<>>
          /\ visited' = 0
          /\ UNCHANGED Stack
  /\ UNCHANGED <<hashKeys, tries, g>>

\* Mutant: the edge at the first vertex that is left alone is followed, those
\* at the other vertices are not.
ResumeNot(call, i, below, e) == Append(below, [e |-> e, v |-> edge[call.e][i], m |-> 0])

\* The call for an edge at the i-th vertex, and the rest of this call after it.
Resume(call, i, below, e) ==
  (IF i < 3 THEN Append(below, [call EXCEPT !.m = i]) ELSE below)
    \o <<[e |-> e, v |-> edge[call.e][i], m |-> 0]>>

\* One turn of its loop: a new call takes its edge away from the vertices but
\* the one it came by; then the edge that one of these is left with, from the
\* m-th on, is next.
ph_remove ==
  /\ hash = "acyclic"
  /\ Stack # <<>>
  /\ LET call == Stack[Len(Stack)]
         below == SubSeq(Stack, 1, Len(Stack) - 1)
         node == edge[call.e]
         lists == IF call.m > 0 THEN of
                  ELSE FoldLeft(LAMBDA ls, i : IF node[i] = call.v THEN ls
                                               ELSE [ls EXCEPT ![node[i]] = delete(@, call.e)],
                                of, <<1, 2, 3>>)
         gone == erased \cup {call.e}
         free == {i \in call.m + 1 .. 3 : /\ node[i] # call.v
                                          /\ Member(unique(lists, node[i]), gone)}
         i == CHOOSE x \in free : \A y \in free : x <= y
     IN /\ of' = lists
        /\ erased' = gone
        /\ S' = IF call.m = 0 THEN Append(S, call.e) ELSE S
        /\ Stack' = IF free = {} THEN below
                    ELSE Resume(call, i, below, unique(lists, node[i]))
  /\ UNCHANGED <<hashKeys, tries, tb, edge, visited, g, hash>>

-----------------------------------------------------------------------------

AllThree(x, y, z) == (x ^^ y) ^^ z

\* assign: the vertices of an edge that have no number get 0, and the last of
\* them what makes up the place of the key.
Assigned ==
  FoldRight(LAMBDA e, done :
              LET node == edge[e]
                  fresh == {i \in 1 .. 3 : /\ node[i] \notin DOMAIN done
                                           /\ \A j \in 1 .. i - 1 : node[j] # node[i]}
                  w == CHOOSE i \in fresh : \A j \in fresh : j <= i
                  zero == [v \in DOMAIN done \cup {node[i] : i \in 1 .. 3} |->
                             IF v \in DOMAIN done THEN done[v] ELSE 0]
                  xor == AllThree(zero[node[1]], zero[node[2]], zero[node[3]])
              IN [zero EXCEPT ![node[w]] = (e - 1) ^^ xor],
            S, <<>>)

\* check, and g moved down by one.
assign ==
  /\ hash = "assign"
  /\ LET done == Assigned
         all == [v \in 1 .. Vertices |-> IF v \in DOMAIN done THEN done[v] ELSE 0]
     IN /\ g' = [u \in 0 .. Vertices - 1 |-> all[u + 1]]
        /\ hash' = IF \A e \in DOMAIN edge :
                        AllThree(all[edge[e][1]], all[edge[e][2]], all[edge[e][3]]) = e - 1
                   THEN "ready" ELSE "error"
  /\ UNCHANGED <<hashKeys, tries, tb, edge, of, erased, S, Stack, visited>>

HashNext == tree_builder \/ acyclic \/ ph_remove \/ assign

HashSpec == HashInit /\ [][HashNext]_hashVars

-----------------------------------------------------------------------------

\* perf_hash: the sums are kept below MAX_N, and vertices begin at 0.
Below(x) == IF x >= Vertices THEN x - Vertices ELSE x

\* Mutant: w is not compared with v again after it was that of u.
ThirdOnce(u, v, w) ==
  IF w = v THEN LET w1 == Below(w + 1) IN IF w1 = u THEN Below(w1 + 1) ELSE w1
  ELSE IF w = u THEN Below(w + 1)
  ELSE w

Third(u, v, w) ==
  IF w = v THEN LET w1 == Below(w + 1) IN IF w1 = u THEN Below(w1 + 1) ELSE w1
  ELSE IF w = u THEN LET w1 == Below(w + 1) IN IF w1 = v THEN Below(w1 + 1) ELSE w1
  ELSE w

perf_hash(word) ==
  LET Sum(i) == FoldLeft(LAMBDA sum, k : Below(sum + tb[translate(word[k]), Column(word, k)][i]),
                         0, [k \in DOMAIN word |-> k])
      u == Sum(1)
      v == IF Sum(2) = u THEN Below(u + 1) ELSE Sum(2)
      w == Third(u, v, Sum(3))
      h == AllThree(g[u], g[v], g[w])
  IN IF h > NumKeys THEN 0 ELSE h

(***************************************************************************)
(* A hash function that is made gives every word its place in the          *)
(* dictionary: the edge that is computed for a word when it is looked up   *)
(* is the one its place was assigned with.  No edge is left without a      *)
(* vertex for its number, whatever order the edges were taken away in.     *)
(***************************************************************************)
PlacesRight ==
  /\ hash # "error"
  /\ hash = "ready" => \A i \in DOMAIN hashKeys : perf_hash(hashKeys[i]) = i - 1

Degree(F, v) == Cardinality({x \in F \X (1 .. 3) : edge[x[1]][x[2]] = v})

(***************************************************************************)
(* acyclic takes all edges away if and only if some order would: if no set *)
(* of edges has each of its vertices twice at least.  Every edge is taken  *)
(* away once, which is what the stack S has room for.                      *)
(***************************************************************************)
AcyclicRight ==
  hash = "acyclic" =>
    /\ Len(S) = Cardinality(erased)
    /\ visited = Vertices /\ Stack = <<>> =>
         (Len(S) = NumKeys <=>
            \A F \in SUBSET DOMAIN edge \ {{}} : \E v \in 1 .. Vertices : Degree(F, v) = 1)

(***************************************************************************)
(* The program fails only where it must, for want of an acyclic graph, and *)
(* a function that it makes is the one promised.                           *)
(***************************************************************************)
HashIsPerfect == PlacesRight /\ AcyclicRight
=============================================================================
