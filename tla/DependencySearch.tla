---------------------------- MODULE DependencySearch ----------------------------
(***************************************************************************)
(* The cycle search of ValidateDependencies (builtins/usage.go), a depth   *)
(* first search with three colours, one step per iteration of its loops.   *)
(* DependencyGraph says what it is meant to decide.  Dependencies are      *)
(* <<dependent, dependency>> pairs in the order of the script.  Names are  *)
(* numbers in the order sort.Strings gives them, 0 the empty string, which *)
(* is also what Go's parent map answers for a name it does not hold.       *)
(***************************************************************************)
EXTENDS Naturals, Sequences, SequencesExt

CONSTANTS Nodes,   \* resource names, as numbers
          MaxDeps  \* bound on the number of dependencies

ASSUME NodesOK == Nodes \subseteq Nat
ASSUME MaxDepsOK == MaxDeps \in Nat

VARIABLES deps,    \* the dependencies of the script
          pc,      \* "declare", "search", "walk" (back along parent), "done"
          color,   \* the three colours
          parent,  \* the node whose neighbour list led to a node
          stack,   \* the calls of dfs in progress, the outermost first
          at,      \* position in deps of the neighbour a call has come to
          path,    \* the slice the walk back collects
          cycle    \* the cycle the returned error names, <<>> for no error

vars == <<deps, pc, color, parent, stack, at, path, cycle>>

names == {d[1] : d \in ToSet(deps)} \cup {d[2] : d \in ToSet(deps)}
Top == stack[Len(stack)]
Pop == SubSeq(stack, 1, Len(stack) - 1)

\* adj[node] lists deps in order: i is the next of node's entries.
NextNeighbor(node, i) ==
  /\ at[node] < i
  /\ deps[i][1] = node
  /\ \A j \in 1 .. i - 1 : at[node] < j => deps[j][1] # node

\* node's entries are all behind it.
Exhausted(node) == \A i \in 1 .. Len(deps) : at[node] < i => deps[i][1] # node

Init == /\ deps = <<>>
        /\ pc = "declare"
        /\ color = [n \in Nodes |-> "white"]
        /\ parent = [n \in Nodes \cup {0} |-> 0]
        /\ stack = <<>>
        /\ at = [n \in Nodes |-> 0]
        /\ path = <<>>
        /\ cycle = <<>>

\* The script declares one more dependency.
Declare(d) ==
  /\ pc = "declare"
  /\ Len(deps) < MaxDeps
  /\ deps' = Append(deps, d)
  /\ UNCHANGED <<pc, color, parent, stack, at, path, cycle>>

\* RunFunction validates only when there are dependencies.
Validate ==
  /\ pc = "declare"
  /\ deps # <<>>
  /\ pc' = "search"
  /\ UNCHANGED <<deps, color, parent, stack, at, path, cycle>>

\* dfs(node) begins.
Enter(node) ==
  /\ color' = [color EXCEPT ![node] = "gray"]
  /\ stack' = Append(stack, node)

\* The loop over the sorted names calls dfs for the next one still white.  No
\* node turns white again, so that is the least white one.
Visit(node) ==
  /\ pc = "search"
  /\ stack = <<>>
  /\ color[node] = "white"
  /\ \A n \in names : n < node => color[n] # "white"
  /\ Enter(node)
  /\ UNCHANGED <<deps, pc, parent, at, path, cycle>>

\* The next neighbour is white: dfs calls itself.
Descend(i) ==
  /\ pc = "search"
  /\ stack # <<>>
  /\ NextNeighbor(Top, i)
  /\ color[deps[i][2]] = "white"
  /\ at' = [at EXCEPT ![Top] = i]
  /\ parent' = [parent EXCEPT ![deps[i][2]] = Top]
  /\ Enter(deps[i][2])
  /\ UNCHANGED <<deps, pc, path, cycle>>

\* The next neighbour is black: nothing to do.
Skip(i) ==
  /\ pc = "search"
  /\ stack # <<>>
  /\ NextNeighbor(Top, i)
  /\ color[deps[i][2]] = "black"
  /\ at' = [at EXCEPT ![Top] = i]
  /\ UNCHANGED <<deps, pc, color, parent, stack, path, cycle>>

\* The next neighbour is gray: a cycle, and the walk back to it begins.
Close(i) ==
  /\ pc = "search"
  /\ stack # <<>>
  /\ NextNeighbor(Top, i)
  /\ color[deps[i][2]] = "gray"
  /\ at' = [at EXCEPT ![Top] = i]
  /\ path' = <<deps[i][2], Top>>
  /\ pc' = "walk"
  /\ UNCHANGED <<deps, color, parent, stack, cycle>>

\* Mutant of Leave: a node is done after its first neighbour.
LeaveEarly ==
  /\ pc = "search"
  /\ stack # <<>>
  /\ Exhausted(Top) \/ at[Top] > 0
  /\ color' = [color EXCEPT ![Top] = "black"]
  /\ stack' = Pop
  /\ UNCHANGED <<deps, pc, parent, at, path, cycle>>

\* dfs returns nil.
Leave ==
  /\ pc = "search"
  /\ stack # <<>>
  /\ Exhausted(Top)
  /\ color' = [color EXCEPT ![Top] = "black"]
  /\ stack' = Pop
  /\ UNCHANGED <<deps, pc, parent, at, path, cycle>>

\* Mutant of WalkBack: the parent of node, again and again, instead of cur's (the
\* slice that grows for ever with it is kept at the first of them).
WalkBackStale ==
  /\ pc = "walk"
  /\ path[Len(path)] # path[1]
  /\ path' = <<path[1], path[2], parent[path[2]]>>
  /\ UNCHANGED <<deps, pc, color, parent, stack, at, cycle>>

\* cur, the end of the path, is not yet the neighbour the cycle closes at.
WalkBack ==
  LET cur == path[Len(path)]
  IN /\ pc = "walk"
     /\ cur # path[1]
     /\ path' = Append(path, parent[cur])
     /\ UNCHANGED <<deps, pc, color, parent, stack, at, cycle>>

\* Mutant of Report: the neighbour is left out of the walk back.
ReportShort ==
  /\ pc = "walk"
  /\ path[Len(path)] = path[1]
  /\ cycle' = Reverse(SubSeq(path, 1, Len(path) - 1))
  /\ pc' = "done"
  /\ UNCHANGED <<deps, color, parent, stack, at, path>>

\* The walk has come round: the path, reversed, is the error every call returns.
Report ==
  /\ pc = "walk"
  /\ path[Len(path)] = path[1]
  /\ cycle' = Reverse(path)
  /\ pc' = "done"
  /\ UNCHANGED <<deps, color, parent, stack, at, path>>

\* The loop over the sorted names ends without an error.
Accept ==
  /\ pc = "search"
  /\ stack = <<>>
  /\ \A n \in names : color[n] # "white"
  /\ pc' = "done"
  /\ UNCHANGED <<deps, color, parent, stack, at, path, cycle>>

Search == \/ \E n \in names : Visit(n)
          \/ \E i \in 1 .. Len(deps) : Descend(i) \/ Skip(i) \/ Close(i)
          \/ Leave \/ WalkBack \/ Report \/ Accept

Next == \/ \E d \in Nodes \X Nodes : Declare(d)
        \/ Validate
        \/ Search

\* The search is ordinary code of one goroutine: nothing suspends it.
Spec == Init /\ [][Next]_vars /\ WF_vars(Search)

--------------------------------------------------------------------------------
(* Properties *)

Graph == INSTANCE DependencyGraph
AsPairs == {[dependent |-> d[1], dependency |-> d[2]] : d \in ToSet(deps)}

\* The search rejects a script exactly when some names depend on each other in
\* a circle, whatever the order in which the dependencies were declared.
FindsCycles == pc = "done" => (cycle # <<>> <=> Graph!Circular(AsPairs))

\* The path in the error is a cycle of the script: it ends where it starts and
\* every step of it is a declared dependency.
ReportsACycle ==
  cycle # <<>> =>
    /\ Len(cycle) > 1
    /\ cycle[1] = cycle[Len(cycle)]
    /\ \A i \in 1 .. Len(cycle) - 1 : <<cycle[i], cycle[i + 1]>> \in ToSet(deps)

\* ValidateDependencies returns: the recursion ends, and the walk back along
\* parent, a loop with no other exit, always meets the neighbour it is after.
Returns == pc = "search" ~> pc = "done"

--------------------------------------------------------------------------------
(* The inductive invariant *)

TypeOK ==
  /\ deps \in Seq(Nodes \X Nodes)
  /\ pc \in {"declare", "search", "walk", "done"}
  /\ color \in [Nodes -> {"white", "gray", "black"}]
  /\ parent \in [Nodes \cup {0} -> Nodes \cup {0}]
  /\ stack \in Seq(Nodes)
  /\ at \in [Nodes -> Nat]
  /\ path \in Seq(Nodes \cup {0})
  /\ cycle \in Seq(Nodes \cup {0})

\* Before the search no node has been touched.
DeclareInv ==
  pc = "declare" => stack = <<>> /\ \A n \in Nodes : color[n] = "white"

\* The gray nodes are the calls in progress, each called by the one before it
\* for a declared dependency it has come to.
StackInv ==
  /\ \A n \in Nodes : color[n] = "gray" <=> n \in ToSet(stack)
  /\ \A j, k \in 1 .. Len(stack) : stack[j] = stack[k] => j = k
  /\ \A k \in 1 .. Len(stack) - 1 :
       /\ parent[stack[k + 1]] = stack[k]
       /\ at[stack[k]] \in 1 .. Len(deps)
       /\ deps[at[stack[k]]] = <<stack[k], stack[k + 1]>>

\* What a call has gone past is black, but for the neighbour it is waiting for.
PassedInv ==
  /\ \A n \in Nodes : color[n] = "white" => at[n] = 0
  /\ \A n \in Nodes : \A i \in 1 .. Len(deps) :
       /\ pc \in {"declare", "search"}
       /\ deps[i][1] = n
       /\ i <= at[n]
       => \/ color[deps[i][2]] = "black"
          \/ i = at[n] /\ color[n] = "gray" /\ n # Top

Black == {n \in Nodes : color[n] = "black"}

\* Black nodes lead to black nodes only, and no set of them holds a cycle.
BlackInv ==
  /\ \A d \in ToSet(deps) : d[1] \in Black => d[2] \in Black
  /\ \A S \in SUBSET Black :
       S # {} => \E n \in S : \A d \in ToSet(deps) : d[1] = n => d[2] \notin S

\* The walk retraces the stack from its top, and the neighbour is further down.
WalkInv ==
  pc = "walk" =>
    /\ Len(path) \in 2 .. Len(stack) + 1
    /\ <<path[2], path[1]>> \in ToSet(deps)
    /\ \A k \in 2 .. Len(path) : path[k] = stack[Len(stack) + 2 - k]
    /\ \E m \in 1 .. Len(stack) + 2 - Len(path) : path[1] = stack[m]

\* Without an error the search has blackened every name.
DoneInv ==
  /\ pc # "done" => cycle = <<>>
  /\ pc = "done" /\ cycle = <<>> => \A n \in names : color[n] = "black"

IInv == /\ TypeOK
        /\ DeclareInv
        /\ StackInv
        /\ PassedInv
        /\ BlackInv
        /\ WalkInv
        /\ DoneInv
        /\ ReportsACycle
================================================================================
