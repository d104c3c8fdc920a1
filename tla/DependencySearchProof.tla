-------------------------- MODULE DependencySearchProof --------------------------
(***************************************************************************)
(* Proofs for DependencySearch: for any names and any list of dependencies *)
(* the three-colour search, when it returns, has decided whether they are  *)
(* circular, and the cycle its error names is one of the script.           *)
(***************************************************************************)
EXTENDS DependencySearch, TLAPS

--------------------------------------------------------------------------------
(* Sequences *)

LEMMA Appended ==
  ASSUME NEW S, NEW s \in Seq(S), NEW e \in S
  PROVE  /\ Append(s, e) \in Seq(S)
         /\ Len(Append(s, e)) = Len(s) + 1
         /\ Append(s, e)[Len(s) + 1] = e
         /\ \A k \in 1 .. Len(s) : Append(s, e)[k] = s[k]
         /\ ToSet(Append(s, e)) = ToSet(s) \cup {e}
<1>1. /\ Append(s, e) \in Seq(S)
      /\ Len(Append(s, e)) = Len(s) + 1
      /\ Append(s, e)[Len(s) + 1] = e
      /\ \A k \in 1 .. Len(s) : Append(s, e)[k] = s[k]
  OBVIOUS
<1>2. /\ DOMAIN s = 1 .. Len(s) /\ Len(s) \in Nat
      /\ DOMAIN Append(s, e) = 1 .. Len(s) + 1
  BY <1>1
<1>3. ASSUME NEW x PROVE x \in ToSet(Append(s, e)) <=> x \in ToSet(s) \cup {e}
  <2>1. CASE x \in ToSet(Append(s, e))
    <3>1. PICK k \in 1 .. Len(s) + 1 : x = Append(s, e)[k] BY <1>2, <2>1 DEF ToSet
    <3>2. k \in 1 .. Len(s) \/ k = Len(s) + 1 BY <1>2
    <3> QED BY <1>1, <1>2, <3>1, <3>2 DEF ToSet
  <2>2. CASE x \in ToSet(s)
    <3>1. PICK k \in 1 .. Len(s) : x = s[k] BY <1>2, <2>2 DEF ToSet
    <3>2. k \in 1 .. Len(s) + 1 BY <1>2
    <3> QED BY <1>1, <1>2, <3>1, <3>2 DEF ToSet
  <2>3. CASE x = e
    <3>1. Len(s) + 1 \in 1 .. Len(s) + 1 BY <1>2
    <3> QED BY <1>1, <1>2, <2>3, <3>1 DEF ToSet
  <2> QED BY <2>1, <2>2, <2>3
<1> QED BY <1>1, <1>3

LEMMA Popped ==
  ASSUME NEW S, NEW s \in Seq(S), s # <<>>
  PROVE  LET p == SubSeq(s, 1, Len(s) - 1)
         IN /\ Len(s) \in Nat \ {0}
            /\ s[Len(s)] \in S
            /\ p \in Seq(S)
            /\ Len(p) = Len(s) - 1
            /\ \A k \in 1 .. Len(s) - 1 : p[k] = s[k]
            /\ ToSet(p) = {s[k] : k \in 1 .. Len(s) - 1}
<1> DEFINE p == SubSeq(s, 1, Len(s) - 1)
<1>1. Len(s) \in Nat \ {0} /\ s[Len(s)] \in S OBVIOUS
<1>2. p = [k \in 1 .. Len(s) - 1 |-> s[k]] BY <1>1
<1>3. \A k \in 1 .. Len(s) - 1 : s[k] \in S BY <1>1
<1> HIDE DEF p
<1>4. p \in [1 .. Len(s) - 1 -> S] BY <1>2, <1>3
<1>5. Len(s) - 1 \in Nat BY <1>1
<1>6. p \in Seq(S) BY <1>4, <1>5
<1>7. Len(p) = Len(s) - 1 BY <1>4, <1>5, <1>6
<1>8. \A k \in 1 .. Len(s) - 1 : p[k] = s[k] BY <1>2
<1>9. ToSet(p) = {s[k] : k \in 1 .. Len(s) - 1} BY <1>2 DEF ToSet
<1> QED BY <1>1, <1>6, <1>7, <1>8, <1>9 DEF p

LEMMA Reversed ==
  ASSUME NEW S, NEW s \in Seq(S)
  PROVE  /\ Reverse(s) \in Seq(S)
         /\ Len(Reverse(s)) = Len(s)
         /\ \A k \in 1 .. Len(s) : Reverse(s)[k] = s[Len(s) - k + 1]
<1>1. Len(s) \in Nat OBVIOUS
<1>2. \A k \in 1 .. Len(s) : Len(s) - k + 1 \in 1 .. Len(s) BY <1>1
<1>3. \A k \in 1 .. Len(s) : s[Len(s) - k + 1] \in S BY <1>1, <1>2
<1>4. Reverse(s) \in [1 .. Len(s) -> S] BY <1>3 DEF Reverse
<1>5. Reverse(s) \in Seq(S) BY <1>1, <1>4
<1>6. Len(Reverse(s)) = Len(s) BY <1>1, <1>4, <1>5
<1>7. \A k \in 1 .. Len(s) : Reverse(s)[k] = s[Len(s) - k + 1] BY DEF Reverse
<1> QED BY <1>5, <1>6, <1>7

\* The dependencies and their positions.
LEMMA Edge ==
  ASSUME TypeOK
  PROVE  /\ Len(deps) \in Nat
         /\ \A i \in 1 .. Len(deps) :
              /\ deps[i] \in Nodes \X Nodes
              /\ deps[i][1] \in Nodes /\ deps[i][2] \in Nodes
              /\ deps[i] = <<deps[i][1], deps[i][2]>>
              /\ deps[i] \in ToSet(deps)
         /\ \A d \in ToSet(deps) :
              /\ d \in Nodes \X Nodes
              /\ \E i \in 1 .. Len(deps) : d = deps[i]
<1>1. deps \in Seq(Nodes \X Nodes) BY DEF TypeOK
<1>2. Len(deps) \in Nat /\ DOMAIN deps = 1 .. Len(deps) BY <1>1
<1>3. \A i \in 1 .. Len(deps) : deps[i] \in Nodes \X Nodes BY <1>1
<1>4. \A i \in 1 .. Len(deps) :
        /\ deps[i][1] \in Nodes /\ deps[i][2] \in Nodes
        /\ deps[i] = <<deps[i][1], deps[i][2]>>
  BY <1>3
<1>5. \A i \in 1 .. Len(deps) : deps[i] \in ToSet(deps) BY <1>2 DEF ToSet
<1>6. \A d \in ToSet(deps) : \E i \in 1 .. Len(deps) : d = deps[i] BY <1>2 DEF ToSet
<1>7. \A d \in ToSet(deps) : d \in Nodes \X Nodes BY <1>3, <1>6
<1> QED BY <1>2, <1>3, <1>4, <1>5, <1>6, <1>7

\* The calls in progress.
LEMMA Calls ==
  ASSUME TypeOK
  PROVE  /\ Len(stack) \in Nat
         /\ \A k \in 1 .. Len(stack) : stack[k] \in Nodes /\ stack[k] \in ToSet(stack)
         /\ \A n \in ToSet(stack) : \E k \in 1 .. Len(stack) : n = stack[k]
         /\ stack # <<>> => /\ Len(stack) \in Nat \ {0}
                            /\ Len(stack) \in 1 .. Len(stack)
                            /\ Top = stack[Len(stack)]
                            /\ Top \in Nodes
<1>1. stack \in Seq(Nodes) BY DEF TypeOK
<1>2. Len(stack) \in Nat /\ DOMAIN stack = 1 .. Len(stack) BY <1>1
<1>3. \A k \in 1 .. Len(stack) : stack[k] \in Nodes BY <1>1
<1>4. \A k \in 1 .. Len(stack) : stack[k] \in ToSet(stack) BY <1>2 DEF ToSet
<1>5. \A n \in ToSet(stack) : \E k \in 1 .. Len(stack) : n = stack[k] BY <1>2 DEF ToSet
<1>6. stack # <<>> => Len(stack) \in Nat \ {0} /\ Len(stack) \in 1 .. Len(stack) BY <1>1
<1> QED BY <1>2, <1>3, <1>4, <1>5, <1>6 DEF Top

--------------------------------------------------------------------------------
(* The inductive invariant *)

LEMMA InitInv == Init => IInv
<1> SUFFICES ASSUME Init PROVE IInv OBVIOUS
<1>1. TypeOK BY DEF Init, TypeOK
<1>2. Len(deps) = 0 /\ Len(stack) = 0 /\ ToSet(deps) = {} /\ ToSet(stack) = {}
  BY DEF Init, ToSet
<1>3. Black = {} BY DEF Init, Black
<1>4. DeclareInv BY DEF Init, DeclareInv
<1>5. StackInv BY <1>2 DEF Init, StackInv
<1>6. PassedInv BY <1>2 DEF Init, PassedInv
<1>7. BlackInv BY <1>2, <1>3 DEF BlackInv
<1>8. WalkInv /\ DoneInv /\ ReportsACycle BY DEF Init, WalkInv, DoneInv, ReportsACycle
<1> QED BY <1>1, <1>4, <1>5, <1>6, <1>7, <1>8 DEF IInv

LEMMA DeclareStep ==
  ASSUME IInv, NEW d \in Nodes \X Nodes, Declare(d)
  PROVE  IInv'
<1>1. TypeOK' BY DEF IInv, TypeOK, Declare
<1>2. stack = <<>> /\ Len(stack) = 0 /\ \A n \in Nodes : color[n] = "white"
  BY DEF IInv, DeclareInv, Declare
<1>3. DeclareInv' BY <1>2 DEF DeclareInv, Declare
<1>4. StackInv' BY <1>2 DEF IInv, StackInv, Declare
<1>5. \A n \in Nodes : at[n] = 0 BY <1>2 DEF IInv, PassedInv
<1>6. PassedInv' BY <1>5 DEF PassedInv, Declare
<1>7. Black' = {} BY <1>2 DEF Black, Declare
<1>8. BlackInv' BY <1>7 DEF BlackInv
<1>9. (WalkInv /\ DoneInv)' BY DEF IInv, WalkInv, DoneInv, Declare
<1>10. ReportsACycle' BY DEF IInv, DoneInv, ReportsACycle, Declare
<1> QED BY <1>1, <1>3, <1>4, <1>6, <1>8, <1>9, <1>10 DEF IInv

LEMMA ValidateStep ==
  ASSUME IInv, Validate
  PROVE  IInv'
<1>1. TypeOK' BY DEF IInv, TypeOK, Validate
<1>2. DeclareInv' BY DEF DeclareInv, Validate
<1>3. StackInv' BY DEF IInv, StackInv, Validate
<1>4. PassedInv' BY DEF IInv, PassedInv, Validate, Top
<1>5. BlackInv' BY DEF IInv, BlackInv, Black, Validate
<1>6. (WalkInv /\ DoneInv)' BY DEF IInv, WalkInv, DoneInv, Validate
<1>7. ReportsACycle' BY DEF IInv, ReportsACycle, Validate
<1> QED BY <1>1, <1>2, <1>3, <1>4, <1>5, <1>6, <1>7 DEF IInv

\* A step that leaves the error alone keeps what is known of it.
LEMMA ErrorKept ==
  ASSUME IInv, pc \in {"search", "walk"}, pc' \in {"search", "walk"}, cycle' = cycle
  PROVE  DeclareInv' /\ DoneInv' /\ ReportsACycle'
BY DEF IInv, DeclareInv, DoneInv, ReportsACycle

\* A white node that dfs enters is on no call's list of passed neighbours, and
\* the stack and the colours stay in step.
LEMMA Entered ==
  ASSUME IInv, NEW node \in Nodes, color[node] = "white", Enter(node)
  PROVE  /\ stack' \in Seq(Nodes) /\ stack' # <<>>
         /\ Len(stack') = Len(stack) + 1
         /\ Top' = node
         /\ \A k \in 1 .. Len(stack) : stack'[k] = stack[k] /\ stack[k] # node
         /\ color' \in [Nodes -> {"white", "gray", "black"}]
         /\ color'[node] = "gray"
         /\ \A n \in Nodes \ {node} : color'[n] = color[n]
         /\ \A n \in Nodes : color'[n] = "gray" <=> n \in ToSet(stack')
         /\ \A j, k \in 1 .. Len(stack') : stack'[j] = stack'[k] => j = k
         /\ Black' = Black
<1>1. TypeOK /\ StackInv BY DEF IInv
<1>2. stack \in Seq(Nodes) /\ Len(stack) \in Nat BY <1>1, Calls DEF TypeOK
<1>3. /\ stack' \in Seq(Nodes)
      /\ Len(stack') = Len(stack) + 1
      /\ stack'[Len(stack) + 1] = node
      /\ \A k \in 1 .. Len(stack) : stack'[k] = stack[k]
      /\ ToSet(stack') = ToSet(stack) \cup {node}
  <2>1. stack' = Append(stack, node) BY DEF Enter
  <2> QED BY <1>2, <2>1, Appended
<1>4. stack' # <<>> BY <1>2, <1>3
<1>5. Top' = node BY <1>3 DEF Top
<1>6. /\ color' \in [Nodes -> {"white", "gray", "black"}]
      /\ color'[node] = "gray"
      /\ \A n \in Nodes \ {node} : color'[n] = color[n]
  BY <1>1 DEF Enter, TypeOK
<1>7. node \notin ToSet(stack) BY <1>1 DEF StackInv
<1>8. \A k \in 1 .. Len(stack) : stack[k] # node BY <1>1, <1>7, Calls
<1>9. \A n \in Nodes : color'[n] = "gray" <=> n \in ToSet(stack')
  BY <1>1, <1>3, <1>6 DEF StackInv
<1>10. ASSUME NEW j \in 1 .. Len(stack'), NEW k \in 1 .. Len(stack'),
              stack'[j] = stack'[k]
       PROVE  j = k
  <2>1. (j \in 1 .. Len(stack) \/ j = Len(stack) + 1)
        /\ (k \in 1 .. Len(stack) \/ k = Len(stack) + 1)
    BY <1>2, <1>3
  <2> QED BY <1>1, <1>3, <1>8, <1>10, <2>1 DEF StackInv
<1>11. Black' = Black BY <1>6 DEF Black
<1> QED BY <1>3, <1>4, <1>5, <1>6, <1>8, <1>9, <1>10, <1>11

LEMMA VisitStep ==
  ASSUME IInv, NEW node \in names, Visit(node)
  PROVE  IInv'
<1>1. TypeOK /\ StackInv /\ PassedInv /\ BlackInv BY DEF IInv
<1>2. node \in Nodes BY <1>1, Edge DEF names
<1>3. /\ stack' \in Seq(Nodes) /\ stack' # <<>> /\ Len(stack') = 1
      /\ color' \in [Nodes -> {"white", "gray", "black"}]
      /\ color'[node] = "gray"
      /\ \A n \in Nodes \ {node} : color'[n] = color[n]
      /\ \A n \in Nodes : color'[n] = "gray" <=> n \in ToSet(stack')
      /\ \A j, k \in 1 .. Len(stack') : stack'[j] = stack'[k] => j = k
      /\ Black' = Black
  <2>1. Len(stack) = 0 BY DEF Visit
  <2> QED BY <1>2, <2>1, Entered DEF Visit
<1>4. TypeOK' BY <1>1, <1>3 DEF TypeOK, Visit
<1>5. DeclareInv' /\ DoneInv' /\ ReportsACycle' BY ErrorKept DEF Visit
<1>6. StackInv' BY <1>3 DEF StackInv
<1>7. PassedInv'
  <2>1. \A n \in Nodes : color[n] # "gray" BY <1>1 DEF StackInv, Visit, ToSet
  <2>2. \A n \in Nodes : color'[n] = "white" => at'[n] = 0
    BY <1>1, <1>3 DEF PassedInv, Visit
  <2>3. ASSUME NEW n \in Nodes, NEW i \in 1 .. Len(deps),
               deps[i][1] = n, i <= at[n]
        PROVE  color'[deps[i][2]] = "black"
    <3>1. color[deps[i][2]] = "black" BY <1>1, <2>1, <2>3 DEF PassedInv, Visit
    <3>2. deps[i][2] \in Nodes BY <1>1, Edge
    <3> QED BY <1>3, <3>1, <3>2 DEF Visit
  <2> QED BY <2>2, <2>3 DEF PassedInv, Visit
<1>8. BlackInv' BY <1>1, <1>3 DEF BlackInv, Visit
<1>9. WalkInv' BY DEF WalkInv, Visit
<1> QED BY <1>4, <1>5, <1>6, <1>7, <1>8, <1>9 DEF IInv

\* The neighbour the innermost call has come to, and the ones it has passed.
LEMMA Neighbor ==
  ASSUME IInv, pc = "search", stack # <<>>,
         NEW i \in 1 .. Len(deps), NextNeighbor(Top, i),
         at' = [at EXCEPT ![Top] = i]
  PROVE  /\ Top \in Nodes /\ color[Top] = "gray"
         /\ deps[i] = <<Top, deps[i][2]>>
         /\ deps[i][2] \in Nodes
         /\ deps[i] \in ToSet(deps)
         /\ at' \in [Nodes -> Nat]
         /\ at'[Top] = i
         /\ \A n \in Nodes \ {Top} : at'[n] = at[n]
         /\ \A j \in 1 .. Len(deps) :
              deps[j][1] = Top /\ j < i => color[deps[j][2]] = "black"
         /\ \A k \in 1 .. Len(stack) - 1 : at'[stack[k]] = at[stack[k]]
<1>1. TypeOK /\ StackInv /\ PassedInv BY DEF IInv
<1>2. Top \in Nodes /\ color[Top] = "gray" BY <1>1, Calls DEF StackInv
<1>3. /\ deps[i] = <<Top, deps[i][2]>>
      /\ deps[i][2] \in Nodes
      /\ deps[i] \in ToSet(deps)
  BY <1>1, Edge DEF NextNeighbor
<1>4. Len(deps) \in Nat BY <1>1, Edge
<1>5. /\ at' \in [Nodes -> Nat]
      /\ at'[Top] = i
      /\ \A n \in Nodes \ {Top} : at'[n] = at[n]
  BY <1>1, <1>2, <1>4 DEF TypeOK
<1>6. ASSUME NEW j \in 1 .. Len(deps), deps[j][1] = Top, j < i
      PROVE  color[deps[j][2]] = "black"
  <2>1. j \in 1 .. i - 1 BY <1>4, <1>6
  <2>2. ~(at[Top] < j) BY <1>6, <2>1 DEF NextNeighbor
  <2>3. at[Top] \in Nat BY <1>1, <1>2 DEF TypeOK
  <2>4. j <= at[Top] BY <2>1, <2>2, <2>3
  <2> QED BY <1>1, <1>2, <1>6, <2>4 DEF PassedInv
<1>7. \A k \in 1 .. Len(stack) - 1 : at'[stack[k]] = at[stack[k]]
  <2>1. TAKE k \in 1 .. Len(stack) - 1
  <2>2. /\ k \in 1 .. Len(stack) /\ k # Len(stack)
        /\ Len(stack) \in 1 .. Len(stack) /\ stack[k] \in Nodes
        /\ Top = stack[Len(stack)]
    BY <1>1, Calls
  <2>3. stack[k] # Top BY <1>1, <2>2 DEF StackInv
  <2> QED BY <1>5, <2>2, <2>3
<1> QED BY <1>2, <1>3, <1>5, <1>6, <1>7

LEMMA DescendStep ==
  ASSUME IInv, NEW i \in 1 .. Len(deps), Descend(i)
  PROVE  IInv'
<1> DEFINE nb == deps[i][2]
<1>1. TypeOK /\ StackInv /\ PassedInv /\ BlackInv BY DEF IInv
<1>2. /\ Top \in Nodes /\ color[Top] = "gray"
      /\ deps[i] = <<Top, nb>>
      /\ nb \in Nodes
      /\ at' \in [Nodes -> Nat]
      /\ at'[Top] = i
      /\ \A n \in Nodes \ {Top} : at'[n] = at[n]
      /\ \A j \in 1 .. Len(deps) :
           deps[j][1] = Top /\ j < i => color[deps[j][2]] = "black"
      /\ \A k \in 1 .. Len(stack) - 1 : at'[stack[k]] = at[stack[k]]
  BY Neighbor DEF Descend
<1>3. color[nb] = "white" /\ nb # Top BY <1>2 DEF Descend
<1> HIDE DEF nb
<1>4. /\ stack' \in Seq(Nodes) /\ stack' # <<>>
      /\ Len(stack') = Len(stack) + 1
      /\ Top' = nb
      /\ \A k \in 1 .. Len(stack) : stack'[k] = stack[k] /\ stack[k] # nb
      /\ color' \in [Nodes -> {"white", "gray", "black"}]
      /\ color'[nb] = "gray"
      /\ \A n \in Nodes \ {nb} : color'[n] = color[n]
      /\ \A n \in Nodes : color'[n] = "gray" <=> n \in ToSet(stack')
      /\ \A j, k \in 1 .. Len(stack') : stack'[j] = stack'[k] => j = k
      /\ Black' = Black
  <2>1. Enter(nb) BY DEF Descend, nb
  <2> QED BY <1>2, <1>3, <2>1, Entered
<1>5. /\ parent' \in [Nodes \cup {0} -> Nodes \cup {0}]
      /\ parent'[nb] = Top
      /\ \A n \in Nodes \ {nb} : parent'[n] = parent[n]
  <2>1. parent' = [parent EXCEPT ![nb] = Top] BY DEF Descend, nb
  <2> QED BY <1>1, <1>2, <2>1 DEF TypeOK
<1>6. TypeOK' BY <1>1, <1>2, <1>4, <1>5 DEF TypeOK, Descend
<1>7. DeclareInv' /\ DoneInv' /\ ReportsACycle' BY ErrorKept DEF Descend
<1>8. StackInv'
  <2>1. ASSUME NEW k \in 1 .. Len(stack') - 1
        PROVE  /\ parent'[stack'[k + 1]] = stack'[k]
               /\ at'[stack'[k]] \in 1 .. Len(deps)
               /\ deps[at'[stack'[k]]] = <<stack'[k], stack'[k + 1]>>
    <3>0. Len(stack) \in Nat \ {0} /\ Len(stack) \in 1 .. Len(stack)
          /\ Top = stack[Len(stack)]
      BY <1>1, Calls DEF Descend
    <3>1. CASE k = Len(stack)
      <4>1. stack'[k] = Top BY <1>4, <3>0, <3>1
      <4>2. stack'[k + 1] = nb BY <1>4, <3>1 DEF Top
      <4> QED BY <1>2, <1>5, <4>1, <4>2
    <3>2. CASE k # Len(stack)
      <4>1. k \in 1 .. Len(stack) - 1 /\ k \in 1 .. Len(stack) /\ k + 1 \in 1 .. Len(stack)
        BY <1>4, <3>0, <3>2
      <4>2. stack'[k] = stack[k] /\ stack'[k + 1] = stack[k + 1] /\ stack[k + 1] # nb
        BY <1>4, <4>1
      <4>3. stack[k + 1] \in Nodes BY <1>1, <4>1, Calls
      <4>4. /\ parent[stack[k + 1]] = stack[k]
            /\ at[stack[k]] \in 1 .. Len(deps)
            /\ deps[at[stack[k]]] = <<stack[k], stack[k + 1]>>
        BY <1>1, <4>1 DEF StackInv
      <4>5. parent'[stack[k + 1]] = parent[stack[k + 1]] BY <1>5, <4>2, <4>3
      <4>6. at'[stack[k]] = at[stack[k]] BY <1>2, <4>1
      <4> QED BY <4>2, <4>4, <4>5, <4>6
    <3> QED BY <3>1, <3>2
  <2>2. deps' = deps BY DEF Descend
  <2> QED BY <1>4, <2>1, <2>2 DEF StackInv
<1>9. PassedInv'
  <2>1. ASSUME NEW n \in Nodes, color'[n] = "white" PROVE at'[n] = 0
    <3>1. n # nb /\ color[n] = "white" BY <1>4, <2>1
    <3>2. n # Top /\ at[n] = 0 BY <1>1, <1>2, <3>1 DEF PassedInv
    <3> QED BY <1>2, <3>2
  <2>2. ASSUME NEW n \in Nodes, NEW j \in 1 .. Len(deps),
               deps[j][1] = n, j <= at'[n]
        PROVE  \/ color'[deps[j][2]] = "black"
               \/ j = at'[n] /\ color'[n] = "gray" /\ n # Top'
    <3>0. deps[j][2] \in Nodes BY <1>1, Edge
    <3>1. color[deps[j][2]] = "black" => color'[deps[j][2]] = "black"
      BY <1>3, <1>4, <3>0
    <3>2. CASE n = Top
      <4>1. CASE j = i BY <1>2, <1>3, <1>4, <3>2, <4>1
      <4>2. CASE j # i
        <5>1. j < i BY <1>2, <2>2, <3>2, <4>2
        <5> QED BY <1>2, <2>2, <3>1, <3>2, <5>1
      <4> QED BY <4>1, <4>2
    <3>3. CASE n # Top
      <4>1. at'[n] = at[n] BY <1>2, <3>3
      <4>2. CASE n = nb
        <5>1. at[n] = 0 BY <1>1, <1>3, <4>2 DEF PassedInv
        <5> QED BY <2>2, <4>1, <5>1
      <4>3. CASE n # nb
        <5>1. \/ color[deps[j][2]] = "black"
              \/ j = at[n] /\ color[n] = "gray" /\ n # Top
          BY <1>1, <2>2, <4>1 DEF PassedInv, Descend
        <5> QED BY <1>4, <3>1, <4>1, <4>3, <5>1
      <4> QED BY <4>2, <4>3
    <3> QED BY <3>2, <3>3
  <2>3. deps' = deps BY DEF Descend
  <2> QED BY <2>1, <2>2, <2>3 DEF PassedInv
<1>10. BlackInv' BY <1>1, <1>4 DEF BlackInv, Descend
<1>11. WalkInv' BY DEF WalkInv, Descend
<1> QED BY <1>6, <1>7, <1>8, <1>9, <1>10, <1>11 DEF IInv

\* A step that moves the innermost call along its list keeps the stack.
LEMMA StackKept ==
  ASSUME IInv, pc = "search", stack # <<>>,
         NEW i \in 1 .. Len(deps), NextNeighbor(Top, i),
         at' = [at EXCEPT ![Top] = i],
         UNCHANGED <<deps, color, parent, stack>>
  PROVE  /\ StackInv'
         /\ \A n \in Nodes : color'[n] = "white" => at'[n] = 0
<1>1. TypeOK /\ StackInv /\ PassedInv BY DEF IInv
<1>2. /\ Top \in Nodes /\ color[Top] = "gray"
      /\ \A n \in Nodes \ {Top} : at'[n] = at[n]
      /\ \A k \in 1 .. Len(stack) - 1 : at'[stack[k]] = at[stack[k]]
  BY Neighbor
<1>3. StackInv'
  <2>1. ASSUME NEW k \in 1 .. Len(stack) - 1
        PROVE  /\ parent[stack[k + 1]] = stack[k]
               /\ at'[stack[k]] \in 1 .. Len(deps)
               /\ deps[at'[stack[k]]] = <<stack[k], stack[k + 1]>>
    <3>1. at'[stack[k]] = at[stack[k]] BY <1>2
    <3> QED BY <1>1, <3>1 DEF StackInv
  <2>2. deps' = deps /\ stack' = stack /\ color' = color /\ parent' = parent OBVIOUS
  <2> QED BY <1>1, <2>1, <2>2 DEF StackInv
<1>4. \A n \in Nodes : color'[n] = "white" => at'[n] = 0
  BY <1>1, <1>2 DEF PassedInv
<1> QED BY <1>3, <1>4

LEMMA SkipStep ==
  ASSUME IInv, NEW i \in 1 .. Len(deps), Skip(i)
  PROVE  IInv'
<1>1. TypeOK /\ PassedInv /\ BlackInv BY DEF IInv
<1>2. /\ Top \in Nodes
      /\ at' \in [Nodes -> Nat]
      /\ at'[Top] = i
      /\ \A n \in Nodes \ {Top} : at'[n] = at[n]
      /\ \A j \in 1 .. Len(deps) :
           deps[j][1] = Top /\ j < i => color[deps[j][2]] = "black"
  BY Neighbor DEF Skip
<1>3. TypeOK' BY <1>1, <1>2 DEF TypeOK, Skip
<1>4. DeclareInv' /\ DoneInv' /\ ReportsACycle' BY ErrorKept DEF Skip
<1>5. StackInv' /\ \A n \in Nodes : color'[n] = "white" => at'[n] = 0
  BY StackKept DEF Skip
<1>6. PassedInv'
  <2>1. ASSUME NEW n \in Nodes, NEW j \in 1 .. Len(deps),
               deps[j][1] = n, j <= at'[n]
        PROVE  \/ color[deps[j][2]] = "black"
               \/ j = at'[n] /\ color[n] = "gray" /\ n # Top
    <3>1. CASE n = Top
      <4>1. CASE j = i BY <4>1 DEF Skip
      <4>2. CASE j # i
        <5>1. j < i BY <1>2, <2>1, <3>1, <4>2
        <5> QED BY <1>2, <2>1, <3>1, <5>1
      <4> QED BY <4>1, <4>2
    <3>2. CASE n # Top
      <4>1. at'[n] = at[n] BY <1>2, <3>2
      <4> QED BY <1>1, <2>1, <4>1 DEF PassedInv, Skip
    <3> QED BY <3>1, <3>2
  <2>2. deps' = deps /\ color' = color /\ Top' = Top BY DEF Skip, Top
  <2> QED BY <1>5, <2>1, <2>2 DEF PassedInv
<1>7. BlackInv' BY <1>1 DEF BlackInv, Black, Skip
<1>8. WalkInv' BY DEF WalkInv, Skip
<1> QED BY <1>3, <1>4, <1>5, <1>6, <1>7, <1>8 DEF IInv

LEMMA CloseStep ==
  ASSUME IInv, NEW i \in 1 .. Len(deps), Close(i)
  PROVE  IInv'
<1> DEFINE nb == deps[i][2]
<1>1. TypeOK /\ StackInv /\ BlackInv BY DEF IInv
<1>2. /\ Top \in Nodes /\ nb \in Nodes
      /\ at' \in [Nodes -> Nat]
      /\ deps[i] = <<Top, nb>>
      /\ deps[i] \in ToSet(deps)
  BY Neighbor DEF Close
<1>3. path' = <<nb, Top>> /\ color[nb] = "gray" BY DEF Close
<1> HIDE DEF nb
<1>4. /\ path' \in Seq(Nodes \cup {0})
      /\ Len(path') = 2 /\ path'[1] = nb /\ path'[2] = Top
  BY <1>2, <1>3
<1>5. TypeOK' BY <1>1, <1>2, <1>4 DEF TypeOK, Close
<1>6. DeclareInv' /\ DoneInv' /\ ReportsACycle' BY ErrorKept DEF Close
<1>7. StackInv' /\ \A n \in Nodes : color'[n] = "white" => at'[n] = 0
  BY StackKept DEF Close
<1>8. PassedInv' BY <1>7 DEF PassedInv, Close
<1>9. BlackInv' BY <1>1 DEF BlackInv, Black, Close
<1>10. WalkInv'
  <2>1. Len(stack) \in Nat \ {0} /\ Top = stack[Len(stack)] BY <1>1, Calls DEF Close
  <2>2. PICK m \in 1 .. Len(stack) : nb = stack[m]
    BY <1>1, <1>2, <1>3, Calls DEF StackInv
  <2>3. Len(path') \in 2 .. Len(stack) + 1 BY <1>4, <2>1
  <2>4. <<path'[2], path'[1]>> \in ToSet(deps) BY <1>2, <1>4
  <2>5. \A k \in 2 .. Len(path') : path'[k] = stack[Len(stack) + 2 - k]
    BY <1>4, <2>1
  <2>6. \E j \in 1 .. Len(stack) + 2 - Len(path') : path'[1] = stack[j]
    BY <1>4, <2>1, <2>2
  <2>7. stack' = stack /\ deps' = deps BY DEF Close
  <2> QED BY <2>3, <2>4, <2>5, <2>6, <2>7 DEF WalkInv
<1> QED BY <1>5, <1>6, <1>7, <1>8, <1>9, <1>10 DEF IInv

\* When the innermost call has come to the end of its list, all it leads to is
\* black, and blackening it closes no cycle among the black nodes.
LEMMA Blackened ==
  ASSUME IInv, pc = "search", stack # <<>>, Exhausted(Top),
         color' = [color EXCEPT ![Top] = "black"], deps' = deps
  PROVE  BlackInv'
<1>1. TypeOK /\ StackInv /\ PassedInv /\ BlackInv BY DEF IInv
<1>2. Top \in Nodes /\ color[Top] = "gray" BY <1>1, Calls DEF StackInv
<1>3. Black' = Black \cup {Top} /\ Top \notin Black
  BY <1>1, <1>2 DEF Black, TypeOK
<1>4. ASSUME NEW d \in ToSet(deps), d[1] = Top PROVE d[2] \in Black
  <2>1. PICK i \in 1 .. Len(deps) : d = deps[i] BY <1>1, Edge
  <2>2. deps[i][1] = Top /\ deps[i][2] \in Nodes BY <1>1, <1>4, <2>1, Edge
  <2>3. at[Top] \in Nat /\ Len(deps) \in Nat BY <1>1, <1>2, Edge DEF TypeOK
  <2>4. ~(at[Top] < i) BY <2>2 DEF Exhausted
  <2>5. i <= at[Top] BY <2>3, <2>4
  <2>6. color[deps[i][2]] = "black" BY <1>1, <1>2, <2>2, <2>5 DEF PassedInv
  <2> QED BY <2>1, <2>2, <2>6 DEF Black
<1>5. \A d \in ToSet(deps) : d[1] \in Black' => d[2] \in Black'
  BY <1>1, <1>3, <1>4 DEF BlackInv
<1>6. ASSUME NEW S \in SUBSET (Black \cup {Top}), S # {}
      PROVE  \E n \in S : \A d \in ToSet(deps) : d[1] = n => d[2] \notin S
  <2> DEFINE R == S \ {Top}
  <2>1. CASE R = {}
    <3>1. S = {Top} BY <1>6, <2>1
    <3> QED BY <1>3, <1>4, <3>1
  <2>2. CASE R # {}
    <3>1. R \in SUBSET Black OBVIOUS
    <3>2. PICK n \in R : \A d \in ToSet(deps) : d[1] = n => d[2] \notin R
      BY <1>1, <2>2, <3>1 DEF BlackInv
    <3>3. ASSUME NEW d \in ToSet(deps), d[1] = n PROVE d[2] \notin S
      <4>1. d[2] \in Black BY <1>1, <3>1, <3>2, <3>3 DEF BlackInv
      <4>2. d[2] # Top BY <1>3, <4>1
      <4> QED BY <3>2, <3>3, <4>2
    <3> QED BY <3>2, <3>3
  <2> QED BY <2>1, <2>2
<1>7. \A S \in SUBSET (Black') :
        S # {} => \E n \in S : \A d \in ToSet(deps) : d[1] = n => d[2] \notin S
  BY <1>3, <1>6
<1> QED BY <1>5, <1>7 DEF BlackInv

LEMMA LeaveStep ==
  ASSUME IInv, Leave
  PROVE  IInv'
<1>1. TypeOK /\ StackInv /\ PassedInv BY DEF IInv
<1>2. /\ Len(stack) \in Nat \ {0} /\ Len(stack) \in 1 .. Len(stack)
      /\ Top = stack[Len(stack)] /\ Top \in Nodes
      /\ \A k \in 1 .. Len(stack) : stack[k] \in Nodes /\ stack[k] \in ToSet(stack)
      /\ \A n \in ToSet(stack) : \E k \in 1 .. Len(stack) : n = stack[k]
  BY <1>1, Calls DEF Leave
<1>3. /\ stack' \in Seq(Nodes)
      /\ Len(stack') = Len(stack) - 1
      /\ \A k \in 1 .. Len(stack) - 1 : stack'[k] = stack[k]
      /\ ToSet(stack') = {stack[k] : k \in 1 .. Len(stack) - 1}
  <2>1. stack \in Seq(Nodes) /\ stack # <<>> BY <1>1 DEF TypeOK, Leave
  <2>2. stack' = SubSeq(stack, 1, Len(stack) - 1) BY DEF Leave, Pop
  <2> QED BY <2>1, <2>2, Popped
<1>4. /\ color' \in [Nodes -> {"white", "gray", "black"}]
      /\ color'[Top] = "black"
      /\ \A n \in Nodes \ {Top} : color'[n] = color[n]
  BY <1>1, <1>2 DEF TypeOK, Leave
<1>5. \A k \in 1 .. Len(stack) - 1 :
        k \in 1 .. Len(stack) /\ k + 1 \in 1 .. Len(stack) /\ stack[k] # Top
  BY <1>1, <1>2 DEF StackInv
<1>6. TypeOK' BY <1>1, <1>3, <1>4 DEF TypeOK, Leave
<1>7. DeclareInv' /\ DoneInv' /\ ReportsACycle' BY ErrorKept DEF Leave
<1>8. StackInv'
  <2>1. ASSUME NEW n \in Nodes PROVE color'[n] = "gray" <=> n \in ToSet(stack')
    <3>1. CASE n = Top BY <1>3, <1>4, <1>5, <3>1
    <3>2. CASE n # Top
      <4>1. n \in ToSet(stack) <=> n \in ToSet(stack')
        <5>1. ASSUME n \in ToSet(stack) PROVE n \in ToSet(stack')
          <6>1. PICK k \in 1 .. Len(stack) : n = stack[k] BY <1>2, <5>1
          <6>2. k \in 1 .. Len(stack) - 1 BY <1>2, <3>2, <6>1
          <6> QED BY <1>3, <6>1, <6>2
        <5>2. n \in ToSet(stack') => n \in ToSet(stack) BY <1>2, <1>3, <1>5
        <5> QED BY <5>1, <5>2
      <4> QED BY <1>1, <1>4, <3>2, <4>1 DEF StackInv
    <3> QED BY <3>1, <3>2
  <2>2. ASSUME NEW j \in 1 .. Len(stack'), NEW k \in 1 .. Len(stack'),
               stack'[j] = stack'[k]
        PROVE  j = k
    BY <1>1, <1>3, <1>5, <2>2 DEF StackInv
  <2>3. ASSUME NEW k \in 1 .. Len(stack') - 1
        PROVE  /\ parent[stack'[k + 1]] = stack'[k]
               /\ at[stack'[k]] \in 1 .. Len(deps)
               /\ deps[at[stack'[k]]] = <<stack'[k], stack'[k + 1]>>
    <3>1. k \in 1 .. Len(stack) - 1 /\ k + 1 \in 1 .. Len(stack) - 1 BY <1>2, <1>3
    <3>2. stack'[k] = stack[k] /\ stack'[k + 1] = stack[k + 1] BY <1>3, <3>1
    <3> QED BY <1>1, <3>1, <3>2 DEF StackInv
  <2>4. deps' = deps /\ parent' = parent /\ at' = at BY DEF Leave
  <2> QED BY <2>1, <2>2, <2>3, <2>4 DEF StackInv
<1>9. PassedInv'
  <2>1. \A n \in Nodes : color'[n] = "white" => at[n] = 0
    BY <1>1, <1>4 DEF PassedInv
  <2>2. ASSUME NEW n \in Nodes, NEW i \in 1 .. Len(deps),
               deps[i][1] = n, i <= at[n]
        PROVE  \/ color'[deps[i][2]] = "black"
               \/ i = at[n] /\ color'[n] = "gray" /\ n # Top'
    <3>1. deps[i][2] \in Nodes BY <1>1, Edge
    <3>2. CASE color[deps[i][2]] = "black" BY <1>4, <3>1, <3>2
    <3>3. CASE i = at[n] /\ color[n] = "gray" /\ n # Top
      <4>1. PICK k \in 1 .. Len(stack) : n = stack[k]
        BY <1>1, <1>2, <3>3 DEF StackInv
      <4>2. k \in 1 .. Len(stack) - 1 BY <1>2, <3>3, <4>1
      <4>3. deps[i] = <<stack[k], stack[k + 1]>> BY <1>1, <3>3, <4>1, <4>2 DEF StackInv
      <4>4. CASE k = Len(stack) - 1
        <5>1. stack[k + 1] = Top BY <1>2, <4>4
        <5> QED BY <1>4, <4>3, <5>1
      <4>5. CASE k # Len(stack) - 1
        <5>1. Len(stack) - 1 \in 1 .. Len(stack) - 1 BY <1>2, <4>2
        <5>2. Top' = stack[Len(stack) - 1] BY <1>3, <5>1 DEF Top
        <5>3. n # Top' BY <1>1, <1>5, <4>1, <4>2, <4>5, <5>1, <5>2 DEF StackInv
        <5> QED BY <1>4, <3>3, <5>3
      <4> QED BY <4>4, <4>5
    <3>4. \/ color[deps[i][2]] = "black"
          \/ i = at[n] /\ color[n] = "gray" /\ n # Top
      BY <1>1, <2>2 DEF PassedInv, Leave
    <3> QED BY <3>2, <3>3, <3>4
  <2>3. deps' = deps /\ at' = at BY DEF Leave
  <2> QED BY <2>1, <2>2, <2>3 DEF PassedInv
<1>10. BlackInv' BY Blackened DEF Leave
<1>11. WalkInv' BY DEF WalkInv, Leave
<1> QED BY <1>6, <1>7, <1>8, <1>9, <1>10, <1>11 DEF IInv

LEMMA WalkBackStep ==
  ASSUME IInv, WalkBack
  PROVE  IInv'
<1> DEFINE L == Len(path)
           cur == path[L]
<1>1. TypeOK /\ StackInv /\ WalkInv BY DEF IInv
<1>2. /\ L \in 2 .. Len(stack) + 1
      /\ <<path[2], path[1]>> \in ToSet(deps)
      /\ \A k \in 2 .. L : path[k] = stack[Len(stack) + 2 - k]
      /\ \E m \in 1 .. Len(stack) + 2 - L : path[1] = stack[m]
  BY <1>1 DEF WalkInv, WalkBack
<1>3. path \in Seq(Nodes \cup {0}) /\ Len(stack) \in Nat BY <1>1, Calls DEF TypeOK
<1>4. cur # path[1] /\ path' = Append(path, parent[cur]) BY DEF WalkBack
<1>5. cur = stack[Len(stack) + 2 - L] BY <1>2, <1>3
<1>6. PICK m \in 1 .. Len(stack) + 2 - L : path[1] = stack[m] BY <1>2
<1>7. m # Len(stack) + 2 - L BY <1>4, <1>5, <1>6
<1>8. /\ Len(stack) + 1 - L \in 1 .. Len(stack) - 1
      /\ m \in 1 .. Len(stack) + 1 - L
      /\ L + 1 \in 2 .. Len(stack) + 1
  <2> HIDE DEF L
  <2>1. Len(stack) \in Nat /\ L \in 2 .. Len(stack) + 1 BY <1>2, <1>3
  <2>2. m <= Len(stack) + 1 - L BY <1>7, <2>1
  <2> QED BY <2>1, <2>2
<1>9. parent[cur] = stack[Len(stack) + 1 - L]
  <2>1. (Len(stack) + 1 - L) + 1 = Len(stack) + 2 - L BY <1>2, <1>3
  <2> QED BY <1>1, <1>5, <1>8, <2>1 DEF StackInv
<1>10. parent[cur] \in Nodes \cup {0} BY <1>1, <1>3, <1>8, <1>9, Calls
<1> HIDE DEF L, cur
<1>11. /\ path' \in Seq(Nodes \cup {0})
       /\ Len(path') = L + 1
       /\ path'[L + 1] = parent[cur]
       /\ \A k \in 1 .. L : path'[k] = path[k]
  BY <1>3, <1>4, <1>10, Appended DEF L
<1>12. TypeOK' BY <1>1, <1>11 DEF TypeOK, WalkBack
<1>13. DeclareInv' /\ DoneInv' /\ ReportsACycle' BY ErrorKept DEF WalkBack
<1>14. StackInv' BY <1>1 DEF StackInv, WalkBack
<1>15. PassedInv' BY DEF IInv, PassedInv, WalkBack
<1>16. BlackInv' BY DEF IInv, BlackInv, Black, WalkBack
<1>17. WalkInv'
  <2>1. path'[1] = path[1] /\ path'[2] = path[2] BY <1>2, <1>3, <1>11
  <2>2. ASSUME NEW k \in 2 .. L + 1 PROVE path'[k] = stack[Len(stack) + 2 - k]
    <3>1. CASE k = L + 1
      <4>1. Len(stack) + 2 - k = Len(stack) + 1 - L BY <1>2, <1>3, <3>1
      <4> QED BY <1>9, <1>11, <3>1, <4>1
    <3>2. CASE k # L + 1
      <4>1. k \in 2 .. L /\ k \in 1 .. L BY <1>2, <1>3, <3>2
      <4> QED BY <1>2, <1>11, <4>1
    <3> QED BY <3>1, <3>2
  <2>3. Len(stack) + 2 - (L + 1) = Len(stack) + 1 - L BY <1>2, <1>3
  <2>4. m \in 1 .. Len(stack) + 2 - Len(path') BY <1>8, <1>11, <2>3
  <2>5. stack' = stack /\ deps' = deps BY DEF WalkBack
  <2> QED BY <1>2, <1>6, <1>8, <1>11, <2>1, <2>2, <2>4, <2>5 DEF WalkInv
<1> QED BY <1>12, <1>13, <1>14, <1>15, <1>16, <1>17 DEF IInv

\* The walk, reversed, follows declared dependencies from the neighbour back to it.
LEMMA ReportStep ==
  ASSUME IInv, Report
  PROVE  IInv'
<1> DEFINE L == Len(path)
<1>1. TypeOK /\ StackInv /\ WalkInv BY DEF IInv
<1>2. /\ L \in 2 .. Len(stack) + 1
      /\ <<path[2], path[1]>> \in ToSet(deps)
      /\ \A k \in 2 .. L : path[k] = stack[Len(stack) + 2 - k]
      /\ path[L] = path[1]
  BY <1>1 DEF WalkInv, Report
<1>3. path \in Seq(Nodes \cup {0}) /\ Len(stack) \in Nat BY <1>1, Calls DEF TypeOK
<1>4. cycle' = Reverse(path) BY DEF Report
<1> HIDE DEF L
<1>5. /\ cycle' \in Seq(Nodes \cup {0})
      /\ Len(cycle') = L
      /\ \A k \in 1 .. L : cycle'[k] = path[L - k + 1]
  BY <1>3, <1>4, Reversed DEF L
<1>6. cycle' # <<>> BY <1>2, <1>5
<1>7. TypeOK' BY <1>1, <1>5 DEF TypeOK, Report
<1>8. ReportsACycle'
  <2>1. Len(cycle') > 1 BY <1>2, <1>3, <1>5
  <2>2. cycle'[1] = path[L] /\ cycle'[L] = path[1]
    <3>1. 1 \in 1 .. L /\ L \in 1 .. L /\ L - 1 + 1 = L /\ L - L + 1 = 1
      BY <1>2, <1>3
    <3> QED BY <1>5, <3>1
  <2>3. ASSUME NEW i \in 1 .. L - 1
        PROVE  <<cycle'[i], cycle'[i + 1]>> \in ToSet(deps)
    <3>1. /\ i \in 1 .. L /\ i + 1 \in 1 .. L
          /\ L - (i + 1) + 1 = L - i
          /\ L - i + 1 \in 2 .. L
      BY <1>2, <1>3
    <3>2. cycle'[i] = path[L - i + 1] /\ cycle'[i + 1] = path[L - i] BY <1>5, <3>1
    <3>3. CASE i = L - 1
      <4>1. L - i = 1 /\ L - i + 1 = 2 BY <1>2, <1>3, <3>3
      <4> QED BY <1>2, <3>2, <4>1
    <3>4. CASE i # L - 1
      <4> DEFINE q == Len(stack) + 1 - L + i
      <4>1. /\ q \in 1 .. Len(stack) - 1
            /\ Len(stack) + 2 - (L - i + 1) = q
            /\ Len(stack) + 2 - (L - i) = q + 1
            /\ L - i \in 2 .. L
        BY <1>2, <1>3, <3>4
      <4> HIDE DEF q
      <4>2. cycle'[i] = stack[q] /\ cycle'[i + 1] = stack[q + 1]
        BY <1>2, <3>1, <3>2, <4>1
      <4>3. /\ at[stack[q]] \in 1 .. Len(deps)
            /\ deps[at[stack[q]]] = <<stack[q], stack[q + 1]>>
        BY <1>1, <4>1 DEF StackInv
      <4> QED BY <1>1, <4>2, <4>3, Edge
    <3> QED BY <3>3, <3>4
  <2>4. deps' = deps BY DEF Report
  <2> QED BY <1>2, <1>5, <2>1, <2>2, <2>3, <2>4 DEF ReportsACycle
<1>9. DeclareInv' /\ WalkInv' /\ DoneInv' BY <1>6 DEF DeclareInv, WalkInv, DoneInv, Report
<1>10. StackInv' BY <1>1 DEF StackInv, Report
<1>11. PassedInv' BY DEF IInv, PassedInv, Report
<1>12. BlackInv' BY DEF IInv, BlackInv, Black, Report
<1> QED BY <1>7, <1>8, <1>9, <1>10, <1>11, <1>12 DEF IInv

LEMMA AcceptStep ==
  ASSUME IInv, Accept
  PROVE  IInv'
<1>1. TypeOK /\ StackInv BY DEF IInv
<1>2. \A n \in names : n \in Nodes BY <1>1, Edge DEF names
<1>3. \A n \in Nodes : color[n] # "gray" BY <1>1 DEF StackInv, Accept, ToSet
<1>4. \A n \in names : color[n] = "black" BY <1>1, <1>2, <1>3 DEF TypeOK, Accept
<1>5. TypeOK' BY <1>1 DEF TypeOK, Accept
<1>6. DeclareInv' /\ WalkInv' BY DEF DeclareInv, WalkInv, Accept
<1>7. DoneInv' BY <1>4 DEF DoneInv, Accept, names
<1>8. StackInv' BY <1>1 DEF StackInv, Accept
<1>9. PassedInv' BY DEF IInv, PassedInv, Accept
<1>10. BlackInv' BY DEF IInv, BlackInv, Black, Accept
<1>11. ReportsACycle' BY DEF IInv, ReportsACycle, Accept
<1> QED BY <1>5, <1>6, <1>7, <1>8, <1>9, <1>10, <1>11 DEF IInv

LEMMA StepInv == IInv /\ [Next]_vars => IInv'
<1> SUFFICES ASSUME IInv, [Next]_vars PROVE IInv' OBVIOUS
<1>1. CASE UNCHANGED vars
  <2>1. (TypeOK /\ DeclareInv)' BY <1>1 DEF vars, IInv, TypeOK, DeclareInv
  <2>2. StackInv' BY <1>1 DEF vars, IInv, StackInv
  <2>3. PassedInv' BY <1>1 DEF vars, IInv, PassedInv, Top
  <2>4. BlackInv' BY <1>1 DEF vars, IInv, BlackInv, Black
  <2>5. (WalkInv /\ DoneInv)' BY <1>1 DEF vars, IInv, WalkInv, DoneInv, names
  <2>6. ReportsACycle' BY <1>1 DEF vars, IInv, ReportsACycle
  <2> QED BY <2>1, <2>2, <2>3, <2>4, <2>5, <2>6 DEF IInv
<1>2. CASE \E d \in Nodes \X Nodes : Declare(d) BY <1>2, DeclareStep
<1>3. CASE Validate BY <1>3, ValidateStep
<1>4. CASE \E n \in names : Visit(n) BY <1>4, VisitStep
<1>5. CASE \E i \in 1 .. Len(deps) : Descend(i) \/ Skip(i) \/ Close(i)
  BY <1>5, DescendStep, SkipStep, CloseStep
<1>6. CASE Leave BY <1>6, LeaveStep
<1>7. CASE WalkBack BY <1>7, WalkBackStep
<1>8. CASE Report BY <1>8, ReportStep
<1>9. CASE Accept BY <1>9, AcceptStep
<1> QED BY <1>1, <1>2, <1>3, <1>4, <1>5, <1>6, <1>7, <1>8, <1>9 DEF Next, Search

\* The inductive invariant of the cycle search of ValidateDependencies, for any
\* names and any list of dependencies.
THEOREM Inductive == Spec => []IInv
BY InitInv, StepInv, PTL DEF Spec

--------------------------------------------------------------------------------
(* What the search decides *)

\* The names of a reported cycle depend on each other in a circle.
LEMMA CycleIsCircular ==
  ASSUME IInv, cycle # <<>>
  PROVE  Graph!Circular(AsPairs)
<1>1. TypeOK /\ ReportsACycle BY DEF IInv
<1>2. /\ Len(cycle) > 1 /\ cycle[1] = cycle[Len(cycle)]
      /\ \A i \in 1 .. Len(cycle) - 1 : <<cycle[i], cycle[i + 1]>> \in ToSet(deps)
  BY <1>1 DEF ReportsACycle
<1>3. Len(cycle) \in Nat BY <1>1 DEF TypeOK
<1> DEFINE S == {cycle[i] : i \in 1 .. Len(cycle) - 1}
<1>4. \A i \in 1 .. Len(cycle) - 1 :
        [dependent |-> cycle[i], dependency |-> cycle[i + 1]] \in AsPairs
  <2>1. TAKE i \in 1 .. Len(cycle) - 1
  <2> DEFINE d == <<cycle[i], cycle[i + 1]>>
  <2>2. d \in ToSet(deps) /\ d[1] = cycle[i] /\ d[2] = cycle[i + 1] BY <1>2
  <2> QED BY <2>2 DEF AsPairs
<1>5. \A i \in 1 .. Len(cycle) - 1 : cycle[i + 1] \in S
  <2>1. TAKE i \in 1 .. Len(cycle) - 1
  <2>2. CASE i + 1 = Len(cycle)
    <3>1. 1 \in 1 .. Len(cycle) - 1 BY <1>2, <1>3
    <3> QED BY <1>2, <2>2, <3>1
  <2>3. CASE i + 1 # Len(cycle)
    <3>1. i + 1 \in 1 .. Len(cycle) - 1 BY <1>3, <2>3
    <3> QED BY <3>1
  <2> QED BY <2>2, <2>3
<1>6. S \subseteq {d.dependent : d \in AsPairs}
  <2>1. ASSUME NEW i \in 1 .. Len(cycle) - 1
        PROVE  cycle[i] \in {d.dependent : d \in AsPairs}
    <3> DEFINE p == [dependent |-> cycle[i], dependency |-> cycle[i + 1]]
    <3>1. p \in AsPairs /\ p.dependent = cycle[i] BY <1>4
    <3> QED BY <3>1
  <2> QED BY <2>1
<1>7. S # {}
  <2>1. 1 \in 1 .. Len(cycle) - 1 BY <1>2, <1>3
  <2> QED BY <2>1
<1>8. ASSUME NEW n \in S
      PROVE  \E d \in AsPairs : d.dependent = n /\ d.dependency \in S
  <2>1. PICK i \in 1 .. Len(cycle) - 1 : n = cycle[i] OBVIOUS
  <2> HIDE DEF S
  <2>2. cycle[i + 1] \in S BY <1>5
  <2> DEFINE d == [dependent |-> cycle[i], dependency |-> cycle[i + 1]]
  <2>3. d \in AsPairs /\ d.dependent = n /\ d.dependency \in S BY <1>4, <2>1, <2>2
  <2> QED BY <2>3
<1> HIDE DEF S
<1> QED BY <1>6, <1>7, <1>8 DEF Graph!Circular

\* Names that are all black hold no circle.
LEMMA BlackIsAcyclic ==
  ASSUME IInv, \A n \in names : color[n] = "black"
  PROVE  ~Graph!Circular(AsPairs)
<1>1. TypeOK /\ BlackInv BY DEF IInv
<1> SUFFICES ASSUME NEW S \in SUBSET {d.dependent : d \in AsPairs},
                    S # {},
                    \A n \in S : \E d \in AsPairs : d.dependent = n /\ d.dependency \in S
             PROVE  FALSE
  BY DEF Graph!Circular
<1>2. ASSUME NEW n \in S PROVE \E e \in ToSet(deps) : e[1] = n /\ e[2] \in S
  <2>1. PICK d \in AsPairs : d.dependent = n /\ d.dependency \in S OBVIOUS
  <2>2. PICK e \in ToSet(deps) : d = [dependent |-> e[1], dependency |-> e[2]]
    BY <2>1 DEF AsPairs
  <2> QED BY <2>1, <2>2
<1>3. S \in SUBSET Black
  <2>1. ASSUME NEW n \in S PROVE n \in Black
    <3>1. PICK e \in ToSet(deps) : e[1] = n BY <1>2
    <3>2. n \in names BY <3>1 DEF names
    <3>3. n \in Nodes BY <1>1, <3>1, Edge
    <3> QED BY <3>2, <3>3 DEF Black
  <2> QED BY <2>1
<1>4. PICK n \in S : \A d \in ToSet(deps) : d[1] = n => d[2] \notin S
  BY <1>1, <1>3 DEF BlackInv
<1> QED BY <1>2, <1>4

\* Whatever the names and the order of the dependencies, ValidateDependencies
\* reports a cycle exactly when the dependencies are circular.
THEOREM CyclesFound == Spec => []FindsCycles
<1>1. ASSUME IInv PROVE FindsCycles
  <2>1. cycle # <<>> => Graph!Circular(AsPairs) BY <1>1, CycleIsCircular
  <2>2. pc = "done" /\ cycle = <<>> => ~Graph!Circular(AsPairs)
    BY <1>1, BlackIsAcyclic DEF IInv, DoneInv
  <2> QED BY <2>1, <2>2 DEF FindsCycles
<1> QED BY <1>1, Inductive, PTL

\* The cycle in the error of ValidateDependencies is one the script declared.
THEOREM CyclesReported == Spec => []ReportsACycle
<1>1. IInv => ReportsACycle BY DEF IInv
<1> QED BY <1>1, Inductive, PTL
==================================================================================
