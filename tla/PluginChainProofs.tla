-------------------------- MODULE PluginChainProofs --------------------------
(* Proofs about PluginChain, for any plugins, names, priorities and        *)
(* configurations.                                                         *)
EXTENDS PluginChain, SequenceTheorems, FunctionTheorems, FiniteSetTheorems, TLAPS

USE PluginsAssumption, BoundAssumption

-----------------------------------------------------------------------------
(* Sorting                                                                 *)

(* The j-th plugin is not sorted after the i-th.                           *)
Before(ps, j, i) ==
  \/ Priority[ps[j]] < Priority[ps[i]]
  \/ Priority[ps[j]] = Priority[ps[i]] /\ j <= i

UpTo(ps, i) == {j \in DOMAIN ps : Before(ps, j, i)}

Pos(ps, n) == CHOOSE i \in DOMAIN ps : Rank(ps, i) = n

(* The order is total and has no cycles.                                   *)
LEMMA BeforeOrders ==
  ASSUME NEW ps \in Seq(Plugins)
  PROVE  /\ DOMAIN ps = 1..Len(ps) /\ Len(ps) \in Nat
         /\ \A i \in DOMAIN ps : Before(ps, i, i)
         /\ \A i, j \in DOMAIN ps : i # j => (Before(ps, i, j) <=> ~Before(ps, j, i))
         /\ \A i, j, k \in DOMAIN ps : Before(ps, i, j) /\ Before(ps, j, k) => Before(ps, i, k)
  <1>1. DOMAIN ps = 1..Len(ps) /\ Len(ps) \in Nat /\ \A i \in DOMAIN ps : i \in Int /\ ps[i] \in Plugins
    OBVIOUS
  <1>2. \A i \in DOMAIN ps : Priority[ps[i]] \in Int
    BY <1>1
  <1>3. QED  BY <1>1, <1>2 DEF Before

(* There are n numbers up to n.                                            *)
LEMMA IntervalCount == \A n \in Nat : IsFiniteSet(1..n) /\ Cardinality(1..n) = n
  <1> SUFFICES ASSUME NEW n \in Nat
               PROVE  IsFiniteSet(1..n) /\ Cardinality(1..n) = n
    OBVIOUS
  <1>1. IsFiniteSet(1..n) /\ Cardinality(1..n) = IF 1 > n THEN 0 ELSE n-1+1
    BY FS_Interval
  <1>2. QED  BY <1>1

(* Ranks are positions of the slice.                                       *)
LEMMA RankTypes ==
  ASSUME NEW ps \in Seq(Plugins), NEW i \in DOMAIN ps
  PROVE  /\ IsFiniteSet(UpTo(ps, i))
         /\ Rank(ps, i) = Cardinality(UpTo(ps, i))
         /\ Rank(ps, i) \in 1..Len(ps)
  <1>1. Rank(ps, i) = Cardinality(UpTo(ps, i))
    BY DEF Rank, UpTo, Before
  <1>2. i \in UpTo(ps, i) /\ UpTo(ps, i) \in SUBSET (1..Len(ps)) /\ Len(ps) \in Nat
    BY BeforeOrders DEF UpTo
  <1>3. IsFiniteSet(1..Len(ps)) /\ Cardinality(1..Len(ps)) = Len(ps)
    BY <1>2, IntervalCount
  <1>4. IsFiniteSet(UpTo(ps, i)) /\ Cardinality(UpTo(ps, i)) <= Len(ps)
    BY <1>2, <1>3, FS_Subset
  <1>5. Cardinality(UpTo(ps, i)) \in Nat /\ Cardinality(UpTo(ps, i)) # 0
    BY <1>2, <1>4, FS_EmptySet, FS_CardinalityType
  <1>6. QED  BY <1>1, <1>2, <1>4, <1>5

(* Who comes before has the smaller rank.                                  *)
LEMMA RankOrders ==
  ASSUME NEW ps \in Seq(Plugins), NEW i \in DOMAIN ps, NEW k \in DOMAIN ps,
         i # k, Before(ps, i, k)
  PROVE  Rank(ps, i) < Rank(ps, k)
  <1>1. UpTo(ps, i) \in SUBSET UpTo(ps, k)
    BY BeforeOrders DEF UpTo
  <1>2. k \in UpTo(ps, k) /\ k \notin UpTo(ps, i)
    BY BeforeOrders DEF UpTo
  <1>3. Cardinality(UpTo(ps, i)) <= Cardinality(UpTo(ps, k)) /\ Cardinality(UpTo(ps, i)) # Cardinality(UpTo(ps, k))
    BY <1>1, <1>2, RankTypes, FS_Subset
  <1>4. Rank(ps, i) \in Nat /\ Rank(ps, k) \in Nat
    BY RankTypes
  <1>5. QED  BY <1>3, <1>4, RankTypes

(* Each position is the rank of one plugin.                                *)
LEMMA PosIsInverse ==
  ASSUME NEW ps \in Seq(Plugins)
  PROVE  /\ \A n \in 1..Len(ps) : Pos(ps, n) \in 1..Len(ps) /\ Rank(ps, Pos(ps, n)) = n
         /\ \A i \in 1..Len(ps) : Rank(ps, i) \in 1..Len(ps) /\ Pos(ps, Rank(ps, i)) = i
  <1> DEFINE D == 1..Len(ps)
             f == [i \in D |-> Rank(ps, i)]
  <1>1. DOMAIN ps = D /\ Len(ps) \in Nat
    OBVIOUS
  <1>2. \A i \in D : Rank(ps, i) \in D
    BY <1>1, RankTypes
  <1>3. \A i, k \in D : Rank(ps, i) = Rank(ps, k) => i = k
    <2> SUFFICES ASSUME NEW i \in D, NEW k \in D, i # k
                 PROVE  Rank(ps, i) # Rank(ps, k)
      OBVIOUS
    <2>1. Before(ps, i, k) \/ Before(ps, k, i)
      BY <1>1, BeforeOrders
    <2>2. Rank(ps, i) < Rank(ps, k) \/ Rank(ps, k) < Rank(ps, i)
      BY <1>1, <2>1, RankOrders
    <2>3. QED  BY <1>2, <2>2
  <1>4. f \in Injection(D, D)
    BY <1>2, <1>3 DEF Injection, IsInjective
  <1>5. IsFiniteSet(D)
    BY <1>1, FS_Interval
  <1>6. f \in Surjection(D, D)
    BY <1>4, <1>5, FS_Injection
  <1>7. \A n \in D : \E i \in D : Rank(ps, i) = n
    BY <1>6 DEF Surjection
  <1>8. QED  BY <1>1, <1>2, <1>3, <1>7 DEF Pos

(* Sorting is a permutation: it takes the plugin at Pos to each place.     *)
LEMMA SortResult ==
  ASSUME NEW ps \in Seq(Plugins)
  PROVE  /\ Sort(ps) \in Seq(Plugins)
         /\ Len(Sort(ps)) = Len(ps)
         /\ \A n \in 1..Len(ps) : Sort(ps)[n] = ps[Pos(ps, n)]
  <1>1. Len(ps) \in Nat /\ DOMAIN ps = 1..Len(ps) /\ \A i \in 1..Len(ps) : ps[i] \in Plugins
    OBVIOUS
  <1>2. Sort(ps) = [n \in 1..Len(ps) |-> ps[Pos(ps, n)]]
    BY <1>1 DEF Sort, Pos
  <1>3. \A n \in 1..Len(ps) : ps[Pos(ps, n)] \in Plugins
    BY <1>1, PosIsInverse
  <1>4. Sort(ps) \in [1..Len(ps) -> Plugins]
    BY <1>2, <1>3
  <1>5. Sort(ps) \in Seq(Plugins)
    BY <1>1, <1>4, SeqDef
  <1>6. Len(Sort(ps)) = Len(ps)
    BY <1>1, <1>2, <1>5, LenProperties
  <1>7. QED  BY <1>2, <1>5, <1>6

(* The sorted slice is sorted.                                             *)
LEMMA SortOrders ==
  ASSUME NEW ps \in Seq(Plugins), NEW m \in 1..Len(ps), NEW n \in 1..Len(ps), m < n
  PROVE  Priority[Sort(ps)[m]] <= Priority[Sort(ps)[n]]
  <1> DEFINE i == Pos(ps, m)
             k == Pos(ps, n)
  <1>1. /\ i \in DOMAIN ps /\ k \in DOMAIN ps
        /\ Rank(ps, i) = m /\ Rank(ps, k) = n
        /\ ps[i] \in Plugins /\ ps[k] \in Plugins
    <2>1. DOMAIN ps = 1..Len(ps) /\ \A j \in 1..Len(ps) : ps[j] \in Plugins
      OBVIOUS
    <2>2. i \in 1..Len(ps) /\ k \in 1..Len(ps) /\ Rank(ps, i) = m /\ Rank(ps, k) = n
      BY PosIsInverse
    <2> HIDE DEF i, k
    <2>3. QED  BY <2>1, <2>2
  <1> HIDE DEF i, k
  <1>2. i # k
    BY <1>1
  <1>3. ~Before(ps, k, i)
    BY <1>1, <1>2, RankOrders
  <1>4. Before(ps, i, k)
    BY <1>1, <1>2, <1>3, BeforeOrders
  <1>5. Priority[ps[i]] <= Priority[ps[k]]
    BY <1>1, <1>4 DEF Before
  <1>6. QED  BY <1>5, SortResult DEF i, k

(* A slice that is sorted stays as it is.                                  *)
LEMMA SortIdle ==
  ASSUME NEW ps \in Seq(Plugins),
         \A i, j \in DOMAIN ps : i < j => Priority[ps[i]] <= Priority[ps[j]]
  PROVE  Sort(ps) = ps
  <1>1. DOMAIN ps = 1..Len(ps) /\ Len(ps) \in Nat /\ \A i \in 1..Len(ps) : ps[i] \in Plugins
    OBVIOUS
  <1>2. \A i, j \in 1..Len(ps) : Before(ps, j, i) <=> j <= i
    <2> SUFFICES ASSUME NEW i \in 1..Len(ps), NEW j \in 1..Len(ps)
                 PROVE  Before(ps, j, i) <=> j <= i
      OBVIOUS
    <2>1. Priority[ps[i]] \in Int /\ Priority[ps[j]] \in Int
      BY <1>1
    <2>2. i < j => Priority[ps[i]] <= Priority[ps[j]]
      BY <1>1
    <2>3. j < i => Priority[ps[j]] <= Priority[ps[i]]
      BY <1>1
    <2>4. QED  BY <2>1, <2>2, <2>3 DEF Before
  <1>3. \A i \in 1..Len(ps) : Rank(ps, i) = i
    <2> SUFFICES ASSUME NEW i \in 1..Len(ps)
                 PROVE  Rank(ps, i) = i
      OBVIOUS
    <2>1. UpTo(ps, i) = 1..i
      BY <1>1, <1>2 DEF UpTo
    <2>2. i \in Nat
      BY <1>1
    <2>3. QED  BY <1>1, <2>1, <2>2, RankTypes, IntervalCount
  <1>4. \A n \in 1..Len(ps) : Pos(ps, n) = n
    BY <1>3, PosIsInverse
  <1>5. \A n \in 1..Len(ps) : Sort(ps)[n] = ps[n]
    BY <1>4, SortResult
  <1>6. Sort(ps) \in Seq(Plugins) /\ Len(Sort(ps)) = Len(ps)
    BY SortResult
  <1>7. QED  BY <1>5, <1>6, SeqEqual

(* What is wrapped, with its configuration.                                *)
LEMMA WrapResult ==
  ASSUME NEW ps \in Seq(Plugins), NEW r \in Seq([name : Names, config : Configs]), Len(ps) = Len(r)
  PROVE  /\ Wrap(ps, r) \in Seq([plugin : Plugins, config : Configs])
         /\ Len(Wrap(ps, r)) = Len(ps)
         /\ \A i \in 1..Len(ps) :
              /\ Len(ps) + 1 - i \in 1..Len(ps)
              /\ Wrap(ps, r)[i].plugin = ps[Len(ps) + 1 - i]
              /\ Wrap(ps, r)[i].config = r[Len(ps) + 1 - i].config
  <1>1. /\ Len(ps) \in Nat /\ DOMAIN ps = 1..Len(ps)
        /\ \A i \in 1..Len(ps) : ps[i] \in Plugins /\ r[i].config \in Configs
    <2>1. \A i \in 1..Len(r) : r[i] \in [name : Names, config : Configs]
      BY ElementOfSeq
    <2>2. \A i \in 1..Len(r) : r[i].config \in Configs
      BY <2>1
    <2>3. QED  BY <2>2
  <1>2. Wrap(ps, r) = [i \in 1..Len(ps) |->
          [plugin |-> ps[Len(ps) + 1 - i], config |-> r[Len(ps) + 1 - i].config]]
    BY <1>1 DEF Wrap
  <1>3. \A i \in 1..Len(ps) : Len(ps) + 1 - i \in 1..Len(ps)
    BY <1>1
  <1>4. Wrap(ps, r) \in [1..Len(ps) -> [plugin : Plugins, config : Configs]]
    BY <1>1, <1>2, <1>3
  <1>5. Wrap(ps, r) \in Seq([plugin : Plugins, config : Configs])
    <2> DEFINE M == [plugin : Plugins, config : Configs]
    <2> HIDE DEF M
    <2>1. Wrap(ps, r) \in [1..Len(ps) -> M]
      BY <1>4 DEF M
    <2>2. Wrap(ps, r) \in Seq(M)
      <3> DEFINE w == Wrap(ps, r)
                 n == Len(ps)
      <3>1. n \in Nat /\ w \in [1..n -> M]
        BY <2>1
      <3> HIDE DEF w, n
      <3>2. w \in Seq(M)
        BY <3>1
      <3>3. QED  BY <3>2 DEF w
    <2>3. QED  BY <2>2 DEF M
  <1>6. Len(Wrap(ps, r)) = Len(ps)
    BY <1>1, <1>2, <1>5, LenProperties
  <1>7. QED  BY <1>2, <1>3, <1>5, <1>6

-----------------------------------------------------------------------------
(* RegisterRoute                                                           *)

(* A plugin is registered under its name.                                  *)
OwnNames == \A n \in Names : plugins[n] # None => Name[plugins[n]] = n

(* The slice holds a plugin of each name that was looked up, in the order  *)
(* of the route; a chain is what is built of a slice that is complete.     *)
Building ==
  /\ pc = "idle" => found = << >> /\ route = << >> /\ chain = << >>
  /\ pc = "find" => Len(found) = next - 1 /\ chain = << >>
  /\ pc = "built" => Len(found) = Len(route) /\ chain = Wrap(Sort(found), route)
  /\ Len(found) <= Len(route)
  /\ \A i \in 1..Len(found) : Name[found[i]] = route[i].name

IInv == TypeOK /\ OwnNames /\ Building

(* Routes are sequences, and the empty one is one of them.                 *)
LEMMA RoutesAreSeqs ==
  /\ << >> \in Routes
  /\ \A r \in Routes : /\ r \in Seq([name : Names, config : Configs])
                       /\ \A i \in 1..Len(r) : r[i].name \in Names /\ r[i].config \in Configs
  <1> DEFINE X == [name : Names, config : Configs]
  <1>1. Routes = UNION {[1..n -> X] : n \in 0..MaxLen}
    BY DEF Routes
  <1>2. \A x \in X : x.name \in Names /\ x.config \in Configs
    OBVIOUS
  <1> HIDE DEF X
  <1>3. << >> \in [1..0 -> X] /\ 0 \in 0..MaxLen
    OBVIOUS
  <1>4. << >> \in Routes
    BY <1>1, <1>3
  <1>5. \A r \in Routes : r \in Seq(X)
    BY <1>1, SeqDef
  <1>6. \A r \in Routes : \A i \in 1..Len(r) : r[i] \in X
    BY <1>5, ElementOfSeq
  <1>7. QED  BY <1>2, <1>4, <1>5, <1>6 DEF X

(* Nothing is registered and no route is being built in the beginning.     *)
LEMMA IInvInit == Init => IInv
  <1> SUFFICES ASSUME Init
               PROVE  IInv
    OBVIOUS
  <1>1. plugins \in [Names -> Plugins \cup {None}] /\ OwnNames
    BY DEF Init, OwnNames
  <1>2. << >> \in Seq(Plugins) /\ << >> \in Seq([plugin : Plugins, config : Configs]) /\ Len(<< >>) = 0
    OBVIOUS
  <1>3. QED  BY <1>1, <1>2, RoutesAreSeqs DEF Init, IInv, TypeOK, Building

(* Each step of RegisterRoute, and each change of the registry, keeps the  *)
(* slice in step with the route.                                           *)
LEMMA IInvStep == IInv /\ [Next]_vars => IInv'
  <1> SUFFICES ASSUME TypeOK, OwnNames, Building, [Next]_vars
               PROVE  IInv'
    BY DEF IInv
  <1>1. CASE UNCHANGED vars
    BY <1>1 DEF vars, build, IInv, TypeOK, OwnNames, Building
  <1>2. ASSUME NEW p \in Plugins, RegisterPlugin(p)
        PROVE  IInv'
    <2>1. plugins' = [plugins EXCEPT ![Name[p]] = p] /\ Name[p] \in Names /\ UNCHANGED build
      BY <1>2 DEF RegisterPlugin, Names
    <2>2. plugins' \in [Names -> Plugins \cup {None}] /\ OwnNames'
      BY <2>1 DEF TypeOK, OwnNames
    <2>3. QED  BY <2>1, <2>2 DEF build, IInv, TypeOK, Building
  <1>3. ASSUME NEW n \in Names, UnregisterPlugin(n)
        PROVE  IInv'
    <2>1. plugins' = [plugins EXCEPT ![n] = None] /\ UNCHANGED build
      BY <1>3 DEF UnregisterPlugin
    <2>2. plugins' \in [Names -> Plugins \cup {None}] /\ OwnNames'
      BY <2>1 DEF TypeOK, OwnNames
    <2>3. QED  BY <2>1, <2>2 DEF build, IInv, TypeOK, Building
  <1>4. /\ << >> \in Seq(Plugins) /\ << >> \in Seq([plugin : Plugins, config : Configs])
        /\ Len(<< >>) = 0 /\ \A r \in Routes : Len(r) \in Nat
    BY RoutesAreSeqs
  <1>5. ASSUME NEW r \in Routes, Begin(r)
        PROVE  IInv'
    BY <1>4, <1>5 DEF Begin, IInv, TypeOK, OwnNames, Building
  <1>6. CASE Fail
    BY <1>4, <1>6, RoutesAreSeqs DEF Fail, IInv, TypeOK, OwnNames, Building
  <1>7. CASE Find
    <2> DEFINE p == plugins[route[next].name]
    <2>1. /\ pc = "find" /\ next <= Len(route) /\ UNCHANGED <<plugins, pc, route, chain>>
          /\ p # None /\ found' = Append(found, p) /\ next' = next + 1
      BY <1>7 DEF Find
    <2>2. /\ route \in Routes /\ Len(route) \in Nat /\ next \in 1..Len(route)
          /\ found \in Seq(Plugins) /\ Len(found) = next - 1
      BY <1>4, <2>1 DEF TypeOK, Building
    <2>3. route[next].name \in Names
      BY <2>2, RoutesAreSeqs
    <2>4. p \in Plugins /\ Name[p] = route[next].name
      BY <2>1, <2>3 DEF TypeOK, OwnNames
    <2> HIDE DEF p
    <2>5. /\ found' \in Seq(Plugins) /\ Len(found') = next
          /\ found'[next] = p /\ \A i \in 1..Len(found) : found'[i] = found[i]
      BY <2>1, <2>2, <2>4
    <2>6. \A i \in 1..Len(found') : Name[found'[i]] = route[i].name
      BY <2>2, <2>4, <2>5 DEF Building
    <2>7. Building'
      BY <2>1, <2>2, <2>5, <2>6 DEF Building
    <2>8. TypeOK'
      BY <2>1, <2>2, <2>5 DEF TypeOK
    <2>9. QED  BY <2>1, <2>7, <2>8 DEF IInv, OwnNames
  <1>8. CASE Build
    <2>1. /\ pc = "find" /\ next > Len(route) /\ pc' = "built" /\ chain' = Wrap(Sort(found), route)
          /\ UNCHANGED <<plugins, route, next, found>>
      BY <1>8 DEF Build
    <2>2. Len(route) \in Nat /\ Len(found) = Len(route) /\ found \in Seq(Plugins)
      BY <1>4, <2>1 DEF TypeOK, Building
    <2>3. Sort(found) \in Seq(Plugins) /\ Len(Sort(found)) = Len(route)
      BY <2>2, SortResult
    <2>4. chain' \in Seq([plugin : Plugins, config : Configs])
      BY <2>1, <2>3, WrapResult, RoutesAreSeqs DEF TypeOK
    <2>5. QED  BY <2>1, <2>2, <2>4 DEF IInv, TypeOK, OwnNames, Building
  <1>9. QED
    BY <1>1, <1>2, <1>3, <1>5, <1>6, <1>7, <1>8 DEF Next, FindFails, BuildFails, Done

(* RegisterRoute keeps its slice and its chain in step with the route.     *)
LEMMA IInvHolds == Spec => []IInv
  <1>1. QED  BY IInvInit, IInvStep, PTL DEF Spec

(* The types of the variables of PluginChain.                              *)
THEOREM TypeCorrect == Spec => []TypeOK
  <1>1. IInv => TypeOK
    BY DEF IInv
  <1>2. QED  BY <1>1, IInvHolds, PTL

(* The i-th of the chain is the i-th last of the sorted slice, with the    *)
(* configuration that is at that place of the route.                       *)
LEMMA ChainOf ==
  ASSUME IInv
  PROVE  \/ DOMAIN chain = {} /\ pc # "built"
         \/ /\ pc = "built" /\ found \in Seq(Plugins) /\ Len(found) \in Nat
            /\ route \in Routes /\ DOMAIN route = 1..Len(found)
            /\ DOMAIN chain = 1..Len(found)
            /\ \A i \in 1..Len(found) :
                 /\ Len(found) + 1 - i \in 1..Len(found)
                 /\ chain[i].plugin = Sort(found)[Len(found) + 1 - i]
                 /\ chain[i].config = route[Len(found) + 1 - i].config
                 /\ Name[found[i]] = route[i].name
  <1>1. CASE pc # "built"
    <2>1. chain = << >>
      BY <1>1 DEF IInv, TypeOK, Building
    <2>2. QED  BY <1>1, <2>1
  <1>2. CASE pc = "built"
    <2>1. found \in Seq(Plugins) /\ Len(found) \in Nat /\ route \in Routes /\ route \in Seq([name : Names, config : Configs])
      <3>1. found \in Seq(Plugins) /\ route \in Routes
        BY DEF IInv, TypeOK
      <3>2. route \in Seq([name : Names, config : Configs])
        BY <3>1, RoutesAreSeqs, Zenon
      <3>3. Len(found) \in Nat
        BY <3>1
      <3>4. QED  BY <3>1, <3>2, <3>3
    <2>2. Len(found) = Len(route) /\ chain = Wrap(Sort(found), route)
      BY <1>2 DEF IInv, Building
    <2>3. Sort(found) \in Seq(Plugins) /\ Len(Sort(found)) = Len(found)
      BY <2>1, SortResult
    <2> DEFINE q == Sort(found)
    <2> HIDE DEF q
    <2>4. /\ chain \in Seq([plugin : Plugins, config : Configs]) /\ Len(chain) = Len(found)
          /\ \A i \in 1..Len(found) :
               /\ Len(found) + 1 - i \in 1..Len(found)
               /\ chain[i].plugin = q[Len(found) + 1 - i]
               /\ chain[i].config = route[Len(found) + 1 - i].config
      <3>1. q \in Seq(Plugins) /\ Len(q) = Len(route) /\ chain = Wrap(q, route) /\ Len(q) = Len(found)
        BY <2>2, <2>3 DEF q
      <3>2. /\ Wrap(q, route) \in Seq([plugin : Plugins, config : Configs])
            /\ Len(Wrap(q, route)) = Len(q)
            /\ \A i \in 1..Len(q) :
                 /\ Len(q) + 1 - i \in 1..Len(q)
                 /\ Wrap(q, route)[i].plugin = q[Len(q) + 1 - i]
                 /\ Wrap(q, route)[i].config = route[Len(q) + 1 - i].config
        BY <2>1, <3>1, WrapResult
      <3>3. QED  BY <3>1, <3>2
    <2>5. DOMAIN chain = 1..Len(found) /\ DOMAIN route = 1..Len(found)
      BY <2>1, <2>2, <2>4, LenProperties
    <2>6. QED  BY <1>2, <2>1, <2>2, <2>4, <2>5 DEF IInv, Building, q
  <1>3. QED  BY <1>1, <1>2

(* A plugin of a higher priority is called first (plugin.go 30).           *)
THEOREM HighestIsFirst == Spec => []HighestFirst
  <1>1. IInv => HighestFirst
    <2> SUFFICES ASSUME IInv, NEW i \in DOMAIN chain, NEW j \in DOMAIN chain, i < j
                 PROVE  Priority[chain[i].plugin] >= Priority[chain[j].plugin]
      BY DEF HighestFirst
    <2> DEFINE n == Len(found)
               m == n + 1 - j
               k == n + 1 - i
    <2>1. /\ found \in Seq(Plugins) /\ n \in Nat /\ i \in 1..n /\ j \in 1..n
          /\ chain[i].plugin = Sort(found)[k] /\ chain[j].plugin = Sort(found)[m]
      <3>1. pc = "built" /\ i \in 1..n /\ j \in 1..n
        BY ChainOf
      <3>2. QED  BY <3>1, ChainOf
    <2>2. m \in 1..n /\ k \in 1..n /\ m < k
      BY <2>1
    <2> HIDE DEF m, k
    <2>3. Priority[Sort(found)[m]] <= Priority[Sort(found)[k]]
      BY <2>1, <2>2, SortOrders
    <2>4. Priority[Sort(found)[m]] \in Int /\ Priority[Sort(found)[k]] \in Int
      <3>1. Sort(found)[m] \in Plugins /\ Sort(found)[k] \in Plugins
        BY <2>1, <2>2, SortResult, ElementOfSeq
      <3>2. QED  BY <3>1
    <2>5. QED  BY <2>1, <2>3, <2>4
  <1>2. QED  BY <1>1, IInvHolds, PTL

(* A route that lists its plugins from the lowest priority to the highest  *)
(* gives each its own configuration (route.go 231-241).                    *)
THEOREM SortedIsOwn == Spec => []OwnConfigWhenSorted
  <1>1. IInv => OwnConfigWhenSorted
    <2> SUFFICES ASSUME IInv, \A i, j \in DOMAIN found : i < j => Priority[found[i]] <= Priority[found[j]],
                        NEW i \in DOMAIN chain
                 PROVE  Own(chain[i])
      BY DEF OwnConfigWhenSorted, OwnConfig
    <2> DEFINE k == Len(found) + 1 - i
    <2>0. pc = "built"
      BY ChainOf
    <2>1. /\ found \in Seq(Plugins) /\ k \in 1..Len(found) /\ DOMAIN route = 1..Len(found)
          /\ chain[i].plugin = Sort(found)[k] /\ chain[i].config = route[k].config
          /\ Name[found[k]] = route[k].name
      <3>1. i \in 1..Len(found)
        BY <2>0, ChainOf
      <3>2. QED  BY <2>0, <3>1, ChainOf
    <2>2. Sort(found) = found
      BY <2>1, SortIdle
    <2>3. QED  BY <2>1, <2>2 DEF Own
  <1>2. QED  BY <1>1, IInvHolds, PTL

(* Each plugin is called as often as the route lists it (route.go 222-241). *)
THEOREM EachListedOnce == Spec => []ListedOnce
  <1>1. IInv => ListedOnce
    <2> SUFFICES ASSUME IInv, pc = "built", NEW x \in Names
                 PROVE  Times(chain, LAMBDA m : Name[m.plugin] = x) = Times(route, LAMBDA y : y.name = x)
      BY DEF ListedOnce
    <2> DEFINE n == Len(found)
               S == {i \in DOMAIN chain : Name[chain[i].plugin] = x}
               T == {i \in DOMAIN route : route[i].name = x}
               f == [i \in S |-> Pos(found, n + 1 - i)]
    <2>1. /\ found \in Seq(Plugins) /\ n \in Nat
          /\ DOMAIN chain = 1..n /\ DOMAIN route = 1..n
          /\ \A i \in 1..n : /\ n + 1 - i \in 1..n
                             /\ chain[i].plugin = Sort(found)[n + 1 - i]
                             /\ Name[found[i]] = route[i].name
      BY ChainOf
    <2>2. \A k \in 1..n : Pos(found, k) \in 1..n /\ Rank(found, Pos(found, k)) = k /\ Sort(found)[k] = found[Pos(found, k)]
      BY <2>1, PosIsInverse, SortResult
    <2>3. \A i \in 1..n : Rank(found, i) \in 1..n /\ Pos(found, Rank(found, i)) = i
      BY <2>1, PosIsInverse
    <2>4. \A i \in 1..n : i \in S <=> Pos(found, n + 1 - i) \in T
      BY <2>1, <2>2
    <2>5. f \in [S -> T]
      BY <2>1, <2>4
    <2>6. \A i, j \in S : f[i] = f[j] => i = j
      <3> SUFFICES ASSUME NEW i \in S, NEW j \in S, f[i] = f[j]
                   PROVE  i = j
        OBVIOUS
      <3>1. i \in 1..n /\ j \in 1..n /\ Pos(found, n + 1 - i) = Pos(found, n + 1 - j)
        BY <2>1
      <3>2. n + 1 - i = n + 1 - j
        BY <2>1, <2>2, <3>1
      <3>3. QED  BY <2>1, <3>1, <3>2
    <2>7. \A k \in T : \E i \in S : f[i] = k
      <3> SUFFICES ASSUME NEW k \in T
                   PROVE  \E i \in S : f[i] = k
        OBVIOUS
      <3> DEFINE i == n + 1 - Rank(found, k)
      <3>1. k \in 1..n /\ i \in 1..n /\ n + 1 - i = Rank(found, k)
        <4>1. k \in 1..n /\ Rank(found, k) \in 1..n
          BY <2>1, <2>3
        <4>2. n \in Nat
          BY <2>1
        <4>3. QED  BY <4>1, <4>2
      <3>2. Pos(found, n + 1 - i) = k
        BY <2>3, <3>1
      <3>3. i \in S
        BY <2>4, <3>1, <3>2
      <3>4. QED  BY <3>2, <3>3
    <2>8. f \in Bijection(S, T)
      BY <2>5, <2>6, <2>7 DEF Bijection, Injection, Surjection, IsInjective
    <2>9. IsFiniteSet(S)
      <3>1. IsFiniteSet(1..n) /\ S \in SUBSET (1..n)
        BY <2>1, IntervalCount
      <3>2. QED  BY <3>1, FS_Subset
    <2>10. Cardinality(S) = Cardinality(T)
      BY <2>8, <2>9, Fun_ExistsBij, FS_Bijection
    <2>11. QED  BY <2>10 DEF Times
  <1>2. QED  BY <1>1, IInvHolds, PTL
=============================================================================
