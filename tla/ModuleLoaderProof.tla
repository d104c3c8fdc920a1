--------------------------- MODULE ModuleLoaderProof ---------------------------
(***************************************************************************)
(* Proofs for ModuleLoader: for any files and any program, an execution    *)
(* that ends has succeeded exactly when all it needed is sound and without *)
(* a load cycle, load() has executed no module twice, and no mark of a     *)
(* load or an expansion outlives the call that set it.                     *)
(***************************************************************************)
EXTENDS ModuleLoader, TLAPS

--------------------------------------------------------------------------------
(* Stacks: replacing, pushing and popping the innermost frame *)

LEMMA PopFrame ==
  ASSUME NEW s \in Seq(Frames), s # <<>>
  PROVE  /\ Head(s) = s[1] /\ s[1] \in Frames
         /\ Tail(s) \in Seq(Frames)
         /\ Len(s) \in Nat \ {0}
         /\ Len(Tail(s)) = Len(s) - 1
         /\ DOMAIN Tail(s) = 1 .. Len(s) - 1
         /\ \A k \in 1 .. Len(s) - 1 : Tail(s)[k] = s[k + 1]
  OBVIOUS

LEMMA ReplaceFrame ==
  ASSUME NEW s \in Seq(Frames), s # <<>>, NEW f \in Frames,
         NEW t, t = <<f>> \o Tail(s)
  PROVE  /\ t \in Seq(Frames) /\ t # <<>>
         /\ Len(t) = Len(s)
         /\ DOMAIN t = 1 .. Len(s)
         /\ t[1] = f
         /\ \A k \in 2 .. Len(s) : t[k] = s[k]
  BY PopFrame

LEMMA PushFrame ==
  ASSUME NEW s \in Seq(Frames), s # <<>>, NEW f \in Frames, NEW g \in Frames,
         NEW t, t = <<g, f>> \o Tail(s)
  PROVE  /\ t \in Seq(Frames) /\ t # <<>>
         /\ Len(t) = Len(s) + 1
         /\ DOMAIN t = 1 .. Len(s) + 1
         /\ t[1] = g /\ t[2] = f
         /\ \A k \in 3 .. Len(s) + 1 : t[k] = s[k - 1]
  BY PopFrame

--------------------------------------------------------------------------------
(* Programs *)

LEMMA ProgramTypes ==
  ASSUME TypeOK
  PROVE  /\ loads \in [Files -> Seq(LoadStmts)]
         /\ kind \in [Files -> Kinds]
         /\ kind[Script] # "missing"
         /\ \A f \in Files : DOMAIN loads[f] = 1 .. Len(loads[f]) /\ Len(loads[f]) \in Nat
         /\ \A f \in Files : \A j \in DOMAIN loads[f] :
              /\ loads[f][j].mod \in Modules
              /\ loads[f][j].mod \in Files
              /\ loads[f][j].star \in BOOLEAN
<1>1. /\ loads \in [Files -> Seq(LoadStmts)]
      /\ kind \in [Files -> Kinds]
      /\ kind[Script] # "missing"
  BY ProgramsOK DEF TypeOK, Program, loads, kind
<1>2. \A f \in Files : loads[f] \in Seq(LoadStmts)
  BY <1>1
<1>3. \A f \in Files : DOMAIN loads[f] = 1 .. Len(loads[f]) /\ Len(loads[f]) \in Nat
  BY <1>2
<1>4. \A f \in Files : \A j \in DOMAIN loads[f] : loads[f][j] \in LoadStmts
  BY <1>2, <1>3
<1> QED BY <1>1, <1>3, <1>4 DEF LoadStmts, Files

LEMMA FrameTypes ==
  ASSUME TypeOK, NEW file \in Files, NEW how \in {"script", "load", "scan"}
  PROVE  frameOf(file, how) \in Frames
<1>1. expands(file) \in BOOLEAN BY DEF expands
<1>2. Len(loads[file]) \in Nat BY ProgramTypes
<1> QED BY <1>1, <1>2 DEF frameOf, Frames

LEMMA FrameOf ==
  ASSUME NEW file, NEW how
  PROVE  LET f == frameOf(file, how) IN
         /\ f.file = file /\ f.how = how /\ f.expanded = expands(file)
         /\ f.stage = IF expands(file) THEN "expand" ELSE "run"
         /\ f.i = IF expands(file) THEN Len(loads[file]) ELSE 1
BY DEF frameOf

\* What a file needs when it is executed.
LEMMA NeedsOf ==
  ASSUME TypeOK, NEW f \in Files, kind[f] \notin {"unparsable", "missing"},
         NEW j \in DOMAIN loads[f]
  PROVE  loads[f][j].mod \in needs(f)
BY DEF needs

LEMMA NeedsAreModules == ASSUME TypeOK, NEW f \in Files PROVE needs(f) \subseteq Modules
BY ProgramTypes DEF needs

\* The needed modules are closed under need.
LEMMA NeededClosed ==
  ASSUME TypeOK
  PROVE  /\ needs(Script) \subseteq needed
         /\ \A f \in needed : needs(f) \subseteq needed
<1>1. needs(Script) \subseteq needed
  BY NeedsAreModules DEF needed, Files
<1>2. ASSUME NEW f \in needed, NEW m \in needs(f) PROVE m \in needed
  <2>1. m \in Modules BY NeedsAreModules DEF needed, Files
  <2>2. ASSUME NEW S \in SUBSET Modules,
               needs(Script) \cup UNION {needs(g) : g \in S} \subseteq S
        PROVE  m \in S
    <3>1. f \in S BY <2>2 DEF needed
    <3> QED BY <2>2, <3>1
  <2> QED BY <2>1, <2>2 DEF needed
<1> QED BY <1>1, <1>2

\* They are the least such set.
LEMMA NeededLeast ==
  ASSUME NEW D \in SUBSET Modules, needs(Script) \subseteq D,
         \A f \in D : needs(f) \subseteq D
  PROVE  needed \subseteq D
BY DEF needed

--------------------------------------------------------------------------------
(* The innermost frame and its statement *)

LEMMA SameProgram ==
  ASSUME program' = program
  PROVE  /\ loads' = loads /\ kind' = kind
         /\ \A f : needs(f)' = needs(f)
         /\ needed' = needed /\ (sound <=> sound') /\ (cyclic <=> cyclic')
<1>1. loads' = loads /\ kind' = kind BY DEF loads, kind
<1>2. \A f : needs(f)' = needs(f) BY <1>1 DEF needs
<1>3. needed' = needed BY <1>2 DEF needed
<1> QED BY <1>1, <1>2, <1>3 DEF sound, cyclic

LEMMA TopFrame ==
  ASSUME TypeOK, stack # <<>>
  PROVE  /\ top = stack[1] /\ top \in Frames /\ top.file \in Files
         /\ 1 \in DOMAIN stack
         /\ DOMAIN stack = 1 .. Len(stack)
         /\ Len(stack) \in Nat \ {0}
<1>1. stack \in Seq(Frames) BY DEF TypeOK
<1>2. Head(stack) = stack[1] /\ stack[1] \in Frames /\ Len(stack) \in Nat \ {0}
  BY <1>1, PopFrame
<1>3. \A f \in Frames : f.file \in Files BY DEF Frames
<1>4. DOMAIN stack = 1 .. Len(stack) BY <1>1
<1> QED BY <1>2, <1>3, <1>4 DEF top

LEMMA FrameFields ==
  ASSUME NEW f \in Frames
  PROVE  /\ f.file \in Files /\ f.i \in Nat /\ f.expanded \in BOOLEAN
         /\ f.stage \in {"expand", "run"} /\ f.how \in {"script", "load", "scan"}
BY DEF Frames

\* A frame that has moved to another statement, or has been expanded.
LEMMA MovedFrame ==
  ASSUME NEW f \in Frames, NEW n \in Nat, NEW g, g = [f EXCEPT !.i = n]
  PROVE  /\ g \in Frames /\ g.i = n
         /\ g.file = f.file /\ g.how = f.how /\ g.stage = f.stage
         /\ g.expanded = f.expanded
BY DEF Frames

LEMMA ExpandedFrame ==
  ASSUME NEW f \in Frames, NEW g, g = [f EXCEPT !.stage = "run", !.i = 1]
  PROVE  /\ g \in Frames /\ g.i = 1
         /\ g.file = f.file /\ g.how = f.how /\ g.stage = "run"
         /\ g.expanded = f.expanded
BY DEF Frames

\* The statement a running file is at.
LEMMA AtStmt ==
  ASSUME TypeOK, StackInv, AtLoad
  PROVE  /\ stack # <<>>
         /\ top.i \in Nat
         /\ stmt.mod \in Modules /\ stmt.mod \in Files
         /\ top.i \in DOMAIN loads[top.file]
         /\ stmt.mod \in needs(top.file)
<1>1. stack # <<>> /\ top.stage = "run" /\ kind[top.file] # "unparsable"
      /\ top.i <= Len(loads[top.file])
  BY DEF AtLoad, Running
<1>2. top \in Frames /\ top.file \in Files /\ top = stack[1] /\ 1 \in DOMAIN stack
  BY <1>1, TopFrame
<1>3. top.i \in Nat BY <1>2, FrameFields
<1>4. top.i > 0 /\ kind[top.file] # "missing" BY <1>1, <1>2 DEF StackInv, frameInv
<1>5. top.i \in DOMAIN loads[top.file] BY <1>1, <1>2, <1>3, <1>4, ProgramTypes
<1>6. stmt.mod \in needs(top.file)
  BY <1>1, <1>2, <1>4, <1>5, NeedsOf DEF stmt
<1> QED BY <1>1, <1>2, <1>3, <1>5, <1>6, ProgramTypes DEF stmt

--------------------------------------------------------------------------------
(* The four things a step does to the stack *)

\* An error is raised; load() may have cached it.
RaiseStep ==
  /\ status = "running" /\ status' = "failing"
  /\ stack # <<>>
  /\ UNCHANGED <<program, stack, expanding, inits>>
  /\ \/ cache' = cache
     \/ \E m \in Modules : cache' = [cache EXCEPT ![m] = "err"]

\* The innermost frame moves on to its next statement, or from expanding to running.
MoveStep(f) ==
  /\ status = "running"
  /\ stack # <<>>
  /\ f \in Frames
  /\ f.file = top.file /\ f.how = top.how /\ f.expanded = top.expanded /\ f.stage = "run"
  /\ stack' = <<f>> \o Tail(stack)
  /\ \/ top.stage = "run" /\ f.i = top.i + 1 /\ expanding' = expanding
     \/ top.stage = "expand" /\ f.i = 1 /\ expanding' = expanding \ {top.file}
  /\ UNCHANGED <<program, status, cache, inits>>

\* A module is loaded or scanned for the innermost frame.
PushStep(f, m, how) ==
  /\ status = "running"
  /\ stack # <<>>
  /\ f \in Frames
  /\ f.file = top.file /\ f.how = top.how /\ f.expanded = top.expanded
  /\ f.stage = top.stage
  /\ f.i <= top.i
  /\ f.stage = "run" => f.i = top.i
  /\ m \in needs(top.file) /\ m \in Modules
  /\ kind[m] # "missing"
  /\ stack' = <<frameOf(m, how), f>> \o Tail(stack)
  /\ expanding' = IF expands(m) THEN expanding \cup {m} ELSE expanding
  /\ \/ /\ how = "load"
        /\ cache[m] = "absent"
        /\ cache' = [cache EXCEPT ![m] = "loading"]
        /\ inits' = [inits EXCEPT ![m] = @ + 1]
     \/ /\ how = "scan"
        /\ UNCHANGED <<cache, inits>>
  /\ UNCHANGED <<program, status>>

\* The innermost frame returns.
PopStep ==
  /\ stack # <<>>
  /\ stack' = Tail(stack)
  /\ \/ status = "running" /\ status' = IF top.how = "script" THEN "ok" ELSE status
     \/ status = "failing" /\ status' = IF Tail(stack) = <<>> THEN "error" ELSE status
  /\ \E r \in {"ok", "err"} :
       /\ status = "running" <=> r = "ok"
       /\ cache' = IF top.how = "load" THEN [cache EXCEPT ![top.file] = r] ELSE cache
  /\ \/ top.stage = "run" /\ expanding' = expanding
     \/ top.stage = "expand" /\ expanding' = expanding \ {top.file}
  /\ UNCHANGED <<program, inits>>

StackStep == \/ RaiseStep
             \/ \E f : MoveStep(f)
             \/ \E f, m, how : PushStep(f, m, how)
             \/ PopStep

\* The star import that is expanded next.
LEMMA AtStar ==
  ASSUME TypeOK, StackInv, Expanding, NEW j \in pendingStars
  PROVE  /\ stack # <<>> /\ top \in Frames /\ top.stage = "expand"
         /\ j \in Nat \ {0} /\ j <= top.i /\ top.i \in Nat /\ j - 1 \in Nat
         /\ j \in DOMAIN loads[top.file] /\ loads[top.file][j].star
         /\ loads[top.file][j].mod \in Modules
         /\ loads[top.file][j].mod \in needs(top.file)
<1>1. stack # <<>> /\ top \in Frames /\ top.file \in Files /\ top.stage = "expand"
      /\ top = stack[1] /\ 1 \in DOMAIN stack
  BY TopFrame DEF Expanding
<1>2. top.i \in Nat BY <1>1, FrameFields
<1>3. top.expanded /\ top.i <= Len(loads[top.file]) /\ kind[top.file] \notin {"unparsable", "missing"}
  BY <1>1 DEF StackInv, frameInv
<1>4. j \in Nat \ {0} /\ j <= top.i /\ loads[top.file][j].star
  BY <1>2 DEF pendingStars
<1>5. j \in DOMAIN loads[top.file] BY <1>1, <1>2, <1>3, <1>4, ProgramTypes
<1>6. loads[top.file][j].mod \in needs(top.file) BY <1>1, <1>3, <1>5, NeedsOf
<1> QED BY <1>1, <1>2, <1>4, <1>5, <1>6, ProgramTypes

LEMMA StackSteps ==
  ASSUME TypeOK, StackInv, Next
  PROVE  StackStep
<1>1. CASE Scan
  <2>1. PICK j \in pendingStars :
          LET m == loads[top.file][j].mod IN
          \/ kind[m] = "missing" /\ Raise /\ UNCHANGED expanding
          \/ /\ kind[m] # "missing"
             /\ call([top EXCEPT !.i = j - 1], m, "scan")
             /\ UNCHANGED status
    BY <1>1 DEF Scan
  <2> DEFINE m == loads[top.file][j].mod
             f == [top EXCEPT !.i = j - 1]
  <2>2. Expanding /\ status = "running" BY <1>1 DEF Scan, Expanding
  <2>3. UNCHANGED <<program, cache, inits>> BY <1>1 DEF Scan
  <2>4. CASE kind[m] = "missing" /\ Raise /\ UNCHANGED expanding
    <3>1. RaiseStep BY <2>2, <2>3, <2>4, AtStar DEF RaiseStep, Raise
    <3> QED BY <3>1 DEF StackStep
  <2>5. CASE kind[m] # "missing" /\ call(f, m, "scan") /\ UNCHANGED status
    <3>1. /\ f \in Frames /\ f.file = top.file /\ f.how = top.how
          /\ f.expanded = top.expanded /\ f.stage = "expand" /\ top.stage = "expand"
          /\ f.i <= top.i
      <4>1. /\ top \in Frames /\ top.i \in Nat /\ j \in Nat /\ j <= top.i /\ j - 1 \in Nat
            /\ top.stage = "expand"
        BY <2>2, AtStar
      <4> QED BY <4>1, MovedFrame
    <3>2. m \in needs(top.file) /\ m \in Modules /\ stack # <<>> BY <2>2, AtStar
    <3>3. PushStep(f, m, "scan")
      BY <2>2, <2>3, <2>5, <3>1, <3>2 DEF PushStep, call
    <3> QED BY <3>3 DEF StackStep
  <2> QED BY <2>1, <2>4, <2>5
<1>2. CASE Expanded
  <2> DEFINE f == [top EXCEPT !.stage = "run", !.i = 1]
  <2>1. stack # <<>> /\ top \in Frames /\ top.stage = "expand" /\ status = "running"
    BY <1>2, TopFrame DEF Expanded, Expanding
  <2>2. f \in Frames /\ f.file = top.file /\ f.how = top.how /\ f.stage = "run"
        /\ f.expanded = top.expanded /\ f.i = 1
    BY <2>1, ExpandedFrame
  <2>3. /\ stack' = <<f>> \o Tail(stack)
        /\ expanding' = expanding \ {top.file}
        /\ UNCHANGED <<program, status, cache, inits>>
    BY <1>2 DEF Expanded, replaceTop
  <2>4. MoveStep(f) BY <2>1, <2>2, <2>3 DEF MoveStep
  <2> QED BY <2>4 DEF StackStep
<1>3. CASE CompileError
  <2>1. RaiseStep BY <1>3 DEF CompileError, Running, Raise, RaiseStep
  <2> QED BY <2>1 DEF StackStep
<1>4. ASSUME AtLoad, replaceTop([top EXCEPT !.i = @ + 1]),
             UNCHANGED <<program, status, cache, expanding, inits>>
      PROVE  StackStep
  <2> DEFINE n == top.i + 1
             f == [top EXCEPT !.i = n]
  <2>1. stack # <<>> /\ top \in Frames /\ top.i \in Nat /\ top.stage = "run"
        /\ status = "running"
    BY <1>4, TopFrame, FrameFields DEF AtLoad, Running
  <2>2. n \in Nat BY <2>1
  <2>3. f \in Frames /\ f.file = top.file /\ f.how = top.how /\ f.stage = top.stage
        /\ f.expanded = top.expanded /\ f.i = n
    BY <2>1, <2>2, MovedFrame
  <2>4. stack' = <<f>> \o Tail(stack) BY <1>4, <2>1 DEF replaceTop
  <2>5. MoveStep(f) BY <1>4, <2>1, <2>3, <2>4 DEF MoveStep
  <2> QED BY <2>5 DEF StackStep
<1>5. CASE SkipRemoved BY <1>4, <1>5 DEF SkipRemoved
<1>6. ASSUME AtLoad, Raise, UNCHANGED <<program, cache, expanding, inits>>
      PROVE  StackStep
  BY <1>6 DEF AtLoad, Running, Raise, RaiseStep, StackStep
<1>7. CASE LoadCached BY <1>4, <1>6, <1>7 DEF LoadCached
<1>8. CASE LoadRefused BY <1>6, <1>8 DEF LoadRefused
<1>9. CASE LoadModule
  <2>1. /\ stack # <<>> /\ top \in Frames /\ status = "running"
        /\ stmt.mod \in needs(top.file) /\ stmt.mod \in Modules
        /\ UNCHANGED program
        /\ cache[stmt.mod] = "absent"
    BY <1>9, AtStmt, TopFrame DEF LoadModule, AtLoad, Running
  <2>2. CASE kind[stmt.mod] = "missing"
    <3>1. RaiseStep BY <1>9, <2>1, <2>2 DEF LoadModule, Raise, RaiseStep
    <3> QED BY <3>1 DEF StackStep
  <2>3. CASE kind[stmt.mod] # "missing"
    <3>1. top.i <= top.i BY <2>1, FrameFields
    <3>2. PushStep(top, stmt.mod, "load") BY <1>9, <2>1, <2>3, <3>1 DEF LoadModule, call, PushStep
    <3> QED BY <3>2 DEF StackStep
  <2> QED BY <2>2, <2>3
<1>10. CASE RunFails
  <2>1. RaiseStep BY <1>10 DEF RunFails, AtEnd, Running, Raise, RaiseStep
  <2> QED BY <2>1 DEF StackStep
<1>11. CASE Return
  <2>1. PopStep BY <1>11 DEF Return, AtEnd, Running, PopStep
  <2> QED BY <2>1 DEF StackStep
<1>12. CASE Unwind
  <2>1. top.stage \in {"expand", "run"} BY <1>12, TopFrame, FrameFields DEF Unwind
  <2>2. PopStep BY <1>12, <2>1 DEF Unwind, PopStep
  <2> QED BY <2>2 DEF StackStep
<1> QED BY <1>1, <1>2, <1>3, <1>5, <1>7, <1>8, <1>9, <1>10, <1>11, <1>12 DEF Next

--------------------------------------------------------------------------------
(* Types, marks, the shape of the stack and the count of executions are    *)
(* kept by each of the four.                                               *)

LEMMA TypeStep ==
  ASSUME TypeOK, StackInv, StackStep
  PROVE  TypeOK'
<1> USE DEF TypeOK
<1>1. CASE RaiseStep BY <1>1 DEF RaiseStep
<1>2. ASSUME NEW f, MoveStep(f) PROVE TypeOK'
  <2>1. stack' \in Seq(Frames) BY <1>2, ReplaceFrame DEF MoveStep
  <2> QED BY <1>2, <2>1 DEF MoveStep
<1>3. ASSUME NEW f, NEW m, NEW how, PushStep(f, m, how) PROVE TypeOK'
  <2>0. m \in Files /\ how \in {"script", "load", "scan"} BY <1>3 DEF PushStep, Files
  <2>1. m \in Files /\ frameOf(m, how) \in Frames BY <2>0, FrameTypes
  <2>2. stack' \in Seq(Frames) BY <1>3, <2>1, PushFrame DEF PushStep
  <2>3. inits' \in [Modules -> Nat] /\ cache' \in [Modules -> {"absent", "loading", "ok", "err"}]
    <3>1. CASE UNCHANGED <<cache, inits>> BY <3>1
    <3>2. CASE /\ cache' = [cache EXCEPT ![m] = "loading"]
               /\ inits' = [inits EXCEPT ![m] = @ + 1]
      <4>1. m \in Modules /\ inits[m] \in Nat BY <1>3 DEF PushStep
      <4>2. inits' = [inits EXCEPT ![m] = inits[m] + 1] BY <3>2
      <4> QED BY <3>2, <4>1, <4>2
    <3> QED BY <1>3, <3>1, <3>2 DEF PushStep
  <2>4. expanding' \subseteq Files BY <1>3, <2>1 DEF PushStep
  <2> QED BY <1>3, <2>2, <2>3, <2>4 DEF PushStep
<1>4. CASE PopStep
  <2>1. stack' \in Seq(Frames) BY <1>4, PopFrame DEF PopStep
  <2>2. cache' \in [Modules -> {"absent", "loading", "ok", "err"}] BY <1>4 DEF PopStep
  <2>3. status' \in {"running", "failing", "ok", "error"} BY <1>4 DEF PopStep
  <2> QED BY <1>4, <2>1, <2>2, <2>3 DEF PopStep
<1> QED BY <1>1, <1>2, <1>3, <1>4 DEF StackStep

\* The frames after a move and after a push, by position.
LEMMA MovedStack ==
  ASSUME TypeOK, NEW f, MoveStep(f)
  PROVE  /\ DOMAIN stack = 1 .. Len(stack) /\ Len(stack) \in Nat \ {0}
         /\ Len(stack') = Len(stack) /\ DOMAIN stack' = 1 .. Len(stack)
         /\ stack[1] = top /\ stack'[1] = f
         /\ \A k \in 2 .. Len(stack) : stack'[k] = stack[k]
         /\ \A k \in 1 .. Len(stack) : stack'[k].file = stack[k].file /\ stack'[k].how = stack[k].how
<1>1. stack \in Seq(Frames) /\ stack # <<>> /\ f \in Frames /\ stack' = <<f>> \o Tail(stack)
      /\ f.file = top.file /\ f.how = top.how
  BY DEF TypeOK, MoveStep
<1> QED BY <1>1, TopFrame, ReplaceFrame

LEMMA PushedStack ==
  ASSUME TypeOK, NEW f, NEW m, NEW how, PushStep(f, m, how)
  PROVE  /\ DOMAIN stack = 1 .. Len(stack) /\ Len(stack) \in Nat \ {0}
         /\ Len(stack') = Len(stack) + 1 /\ DOMAIN stack' = 1 .. Len(stack) + 1
         /\ stack[1] = top /\ stack'[1] = frameOf(m, how) /\ stack'[2] = f
         /\ \A k \in 2 .. Len(stack) : stack'[k + 1] = stack[k]
         /\ \A k \in 1 .. Len(stack) : /\ stack'[k + 1].file = stack[k].file
                                       /\ stack'[k + 1].how = stack[k].how
                                       /\ stack'[k + 1].stage = stack[k].stage
                                       /\ stack'[k + 1].expanded = stack[k].expanded
         /\ how \in {"load", "scan"}
         /\ frameOf(m, how) \in Frames
<1>1. stack \in Seq(Frames) /\ stack # <<>> /\ f \in Frames
      /\ stack' = <<frameOf(m, how), f>> \o Tail(stack)
      /\ f.file = top.file /\ f.how = top.how /\ f.stage = top.stage
      /\ f.expanded = top.expanded
      /\ how \in {"load", "scan"} /\ m \in Files
  BY DEF TypeOK, PushStep, Files
<1>2. frameOf(m, how) \in Frames BY <1>1, FrameTypes
<1>3. /\ Len(stack') = Len(stack) + 1 /\ DOMAIN stack' = 1 .. Len(stack) + 1
      /\ stack'[1] = frameOf(m, how) /\ stack'[2] = f
      /\ \A k \in 3 .. Len(stack) + 1 : stack'[k] = stack[k - 1]
  BY <1>1, <1>2, PushFrame
<1>4. stack[1] = top /\ DOMAIN stack = 1 .. Len(stack) /\ Len(stack) \in Nat \ {0}
  BY <1>1, TopFrame
<1>5. \A k \in 2 .. Len(stack) : stack'[k + 1] = stack[k] BY <1>3, <1>4
<1> QED BY <1>1, <1>2, <1>3, <1>4, <1>5

LEMMA PoppedStack ==
  ASSUME TypeOK, PopStep
  PROVE  /\ DOMAIN stack = 1 .. Len(stack) /\ Len(stack) \in Nat \ {0}
         /\ Len(stack') = Len(stack) - 1 /\ DOMAIN stack' = 1 .. Len(stack) - 1
         /\ stack[1] = top
         /\ \A k \in 1 .. Len(stack) - 1 : stack'[k] = stack[k + 1]
         /\ stack' = <<>> <=> Len(stack) = 1
<1>1. stack \in Seq(Frames) /\ stack # <<>> /\ stack' = Tail(stack) BY DEF PopStep, TypeOK
<1>2. stack[1] = top /\ DOMAIN stack = 1 .. Len(stack) BY <1>1, TopFrame
<1>3. /\ Len(stack) \in Nat \ {0}
      /\ Len(stack') = Len(stack) - 1 /\ DOMAIN stack' = 1 .. Len(stack) - 1
      /\ \A k \in 1 .. Len(stack) - 1 : stack'[k] = stack[k + 1]
      /\ stack' \in Seq(Frames)
  BY <1>1, PopFrame
<1>4. stack' = <<>> <=> Len(stack') = 0 BY <1>3
<1> QED BY <1>2, <1>3, <1>4

LEMMA SettledStep ==
  ASSUME TypeOK, Settled, StackStep
  PROVE  Settled'
<1>1. CASE RaiseStep BY <1>1 DEF RaiseStep, Settled, TypeOK
<1>2. ASSUME NEW f, MoveStep(f) PROVE Settled'
  <2>1. ASSUME NEW m \in Modules, cache'[m] = "loading"
        PROVE  \E k \in DOMAIN stack' : stack'[k].how = "load" /\ stack'[k].file = m
    <3>1. cache[m] = "loading" BY <1>2, <2>1 DEF MoveStep
    <3>2. PICK k \in DOMAIN stack : stack[k].how = "load" /\ stack[k].file = m
      BY <3>1 DEF Settled
    <3> QED BY <1>2, <3>2, MovedStack
  <2>2. ASSUME NEW g \in expanding'
        PROVE  \E k \in DOMAIN stack' : stack'[k].stage = "expand" /\ stack'[k].file = g
    <3>1. PICK k \in DOMAIN stack : stack[k].stage = "expand" /\ stack[k].file = g
      BY <1>2 DEF Settled, MoveStep
    <3>2. k # 1 BY <1>2, <3>1, MovedStack DEF MoveStep
    <3>3. k \in 2 .. Len(stack) BY <1>2, <3>1, <3>2, MovedStack
    <3> QED BY <1>2, <3>1, <3>3, MovedStack
  <2> QED BY <2>1, <2>2 DEF Settled
<1>3. ASSUME NEW f, NEW m, NEW how, PushStep(f, m, how) PROVE Settled'
  <2>1. 1 \in DOMAIN stack' /\ \A k \in DOMAIN stack : k + 1 \in DOMAIN stack'
    BY <1>3, PushedStack
  <2>2. ASSUME NEW l \in Modules, cache'[l] = "loading"
        PROVE  \E k \in DOMAIN stack' : stack'[k].how = "load" /\ stack'[k].file = l
    <3>1. CASE cache[l] = "loading"
      <4>1. PICK k \in DOMAIN stack : stack[k].how = "load" /\ stack[k].file = l
        BY <3>1 DEF Settled
      <4> QED BY <1>3, <2>1, <4>1, PushedStack
    <3>2. CASE cache[l] # "loading"
      <4>1. l = m /\ how = "load" BY <1>3, <2>2, <3>2 DEF PushStep, TypeOK
      <4>2. stack'[1].how = "load" /\ stack'[1].file = m
        BY <1>3, <4>1, PushedStack, FrameOf
      <4> QED BY <2>1, <4>1, <4>2
    <3> QED BY <3>1, <3>2
  <2>3. ASSUME NEW g \in expanding'
        PROVE  \E k \in DOMAIN stack' : stack'[k].stage = "expand" /\ stack'[k].file = g
    <3>1. CASE g \in expanding
      <4>1. PICK k \in DOMAIN stack : stack[k].stage = "expand" /\ stack[k].file = g
        BY <3>1 DEF Settled
      <4> QED BY <1>3, <2>1, <4>1, PushedStack
    <3>2. CASE g \notin expanding
      <4>1. g = m /\ expands(m) BY <1>3, <3>2 DEF PushStep
      <4>2. stack'[1].stage = "expand" /\ stack'[1].file = m
        BY <1>3, <4>1, PushedStack, FrameOf
      <4> QED BY <2>1, <4>1, <4>2
    <3> QED BY <3>1, <3>2
  <2> QED BY <2>2, <2>3 DEF Settled
<1>4. CASE PopStep
  <2>1. ASSUME NEW m \in Modules, cache'[m] = "loading"
        PROVE  \E k \in DOMAIN stack' : stack'[k].how = "load" /\ stack'[k].file = m
    <3>1. cache[m] = "loading" /\ (top.how # "load" \/ top.file # m)
      BY <1>4, <2>1 DEF PopStep, TypeOK
    <3>2. PICK k \in DOMAIN stack : stack[k].how = "load" /\ stack[k].file = m
      BY <3>1 DEF Settled
    <3>3. k # 1 BY <1>4, <3>1, <3>2, PoppedStack
    <3>4. k - 1 \in 1 .. Len(stack) - 1 /\ (k - 1) + 1 = k BY <1>4, <3>2, <3>3, PoppedStack
    <3> QED BY <1>4, <3>2, <3>4, PoppedStack
  <2>2. ASSUME NEW g \in expanding'
        PROVE  \E k \in DOMAIN stack' : stack'[k].stage = "expand" /\ stack'[k].file = g
    <3>1. g \in expanding /\ (top.stage = "expand" => top.file # g)
      BY <1>4 DEF PopStep
    <3>2. PICK k \in DOMAIN stack : stack[k].stage = "expand" /\ stack[k].file = g
      BY <3>1 DEF Settled
    <3>3. k # 1 BY <1>4, <3>1, <3>2, PoppedStack
    <3>4. k - 1 \in 1 .. Len(stack) - 1 /\ (k - 1) + 1 = k BY <1>4, <3>2, <3>3, PoppedStack
    <3> QED BY <1>4, <3>2, <3>4, PoppedStack
  <2> QED BY <2>1, <2>2 DEF Settled
<1> QED BY <1>1, <1>2, <1>3, <1>4 DEF StackStep

LEMMA CountStep ==
  ASSUME TypeOK, CountInv, StackStep
  PROVE  CountInv'
<1>1. CASE RaiseStep BY <1>1 DEF RaiseStep, CountInv, TypeOK
<1>2. ASSUME NEW f, MoveStep(f) PROVE CountInv' BY <1>2 DEF MoveStep, CountInv
<1>3. ASSUME NEW f, NEW m, NEW how, PushStep(f, m, how) PROVE CountInv'
  BY <1>3 DEF PushStep, CountInv, TypeOK
<1>4. CASE PopStep BY <1>4 DEF PopStep, CountInv, TypeOK
<1> QED BY <1>1, <1>2, <1>3, <1>4 DEF StackStep

LEMMA StackInvStep ==
  ASSUME TypeOK, Settled, StackInv, StackStep
  PROVE  StackInv'
<1>1. /\ program' = program /\ loads' = loads /\ kind' = kind
      /\ needed' = needed /\ \A f : needs(f)' = needs(f)
  BY SameProgram DEF StackStep, RaiseStep, MoveStep, PushStep, PopStep
<1>2. CASE RaiseStep BY <1>1, <1>2 DEF RaiseStep, StackInv, frameInv
<1>3. ASSUME NEW f, MoveStep(f) PROVE StackInv'
  <2>1. status = "running" /\ status' = status /\ stack # <<>> /\ stack' # <<>>
    BY <1>3, ReplaceFrame DEF MoveStep, TypeOK
  <2>2. /\ f.stage = "run" /\ f.i > 0
        /\ f.expanded = top.expanded
    BY <1>3, TopFrame, FrameFields DEF MoveStep
  <2>3. ASSUME NEW k \in DOMAIN stack' PROVE frameInv(k)'
    <3>1. k \in DOMAIN stack /\ Len(stack') = Len(stack) /\ frameInv(k)
      BY <1>3, MovedStack DEF StackInv
    <3>2. stack'[k].file = stack[k].file /\ stack'[k].how = stack[k].how
      BY <1>3, <3>1, MovedStack
    <3>3. /\ stack'[k].expanded = stack[k].expanded
          /\ stack'[k] = stack[k] \/ (stack'[k].stage = "run" /\ stack'[k].i > 0)
      <4>1. CASE k = 1 BY <1>3, <2>2, <4>1, MovedStack
      <4>2. CASE k # 1 BY <1>3, <3>1, <4>2, MovedStack
      <4> QED BY <4>1, <4>2
    <3>4. \A l \in 1 .. Len(stack) : stack'[l].file = stack[l].file BY <1>3, MovedStack
    <3>5. k > 1 => k - 1 \in 1 .. Len(stack) BY <1>3, <3>1, MovedStack
    <3>6. \A l \in k + 1 .. Len(stack) : l \in 1 .. Len(stack) BY <1>3, <3>1, MovedStack
    <3> QED BY <1>1, <3>1, <3>2, <3>3, <3>4, <3>5, <3>6 DEF frameInv
  <2> QED BY <2>1, <2>3 DEF StackInv
<1>4. ASSUME NEW f, NEW m, NEW how, PushStep(f, m, how) PROVE StackInv'
  <2>1. status = "running" /\ status' = status /\ stack # <<>> /\ m \in Modules
        /\ m \in needs(top.file) /\ kind[m] # "missing"
    BY <1>4 DEF PushStep
  <2>2. 1 \in DOMAIN stack' /\ stack' # <<>> BY <1>4, PushedStack
  <2>3. frameInv(1)'
    <3>0. m \in needed
      <4>1. frameInv(1) /\ stack[1] = top BY <1>4, PushedStack DEF StackInv
      <4>2. top.file \in needed \cup {Script} BY <4>1 DEF frameInv
      <4> QED BY <2>1, <4>2, NeededClosed
    <3>1. /\ stack'[1].file = m /\ stack'[1].how = how /\ stack'[1].expanded = expands(m)
          /\ stack'[1].stage = IF expands(m) THEN "expand" ELSE "run"
          /\ stack'[1].i = IF expands(m) THEN Len(loads[m]) ELSE 1
      BY <1>4, PushedStack, FrameOf
    <3>2. 1 # Len(stack') /\ how # "script" BY <1>4, PushedStack
    <3>3. m # Script BY <2>1, ScriptIsNoModule
    <3>4. Len(loads[m]) \in Nat BY <2>1, ProgramTypes DEF Files
    <3>5. expands(m) => kind[m] # "unparsable" BY DEF expands
    <3>6. ASSUME ~expands(m), kind[m] # "unparsable"
          PROVE  \E l \in 1 + 1 .. Len(stack') : stack'[l].file = m
      <4>1. PICK k \in DOMAIN stack : stack[k].file = m BY <3>6 DEF expands, Settled
      <4>2. k + 1 \in 1 + 1 .. Len(stack') /\ stack'[k + 1].file = m BY <1>4, <4>1, PushedStack
      <4> QED BY <4>2
    <3> QED BY <1>1, <2>1, <3>0, <3>1, <3>2, <3>3, <3>4, <3>5, <3>6 DEF frameInv
  <2>4. ASSUME NEW k \in DOMAIN stack PROVE frameInv(k + 1)'
    <3>1. frameInv(k) /\ k \in 1 .. Len(stack) /\ Len(stack') = Len(stack) + 1
          /\ Len(stack) \in Nat
      BY <1>4, PushedStack DEF StackInv
    <3>2. /\ stack'[k + 1].file = stack[k].file /\ stack'[k + 1].how = stack[k].how
          /\ stack'[k + 1].stage = stack[k].stage
          /\ stack'[k + 1].expanded = stack[k].expanded
      BY <1>4, <3>1, PushedStack
    <3>3. IF stack[k].stage = "expand" THEN stack'[k + 1].i <= Len(loads[stack[k].file])
                                       ELSE stack'[k + 1].i > 0
      <4>1. CASE k = 1
        <5>1. stack'[k + 1] = f /\ stack[k] = top BY <1>4, <4>1, PushedStack
        <5>2. f.i \in Nat /\ top.i \in Nat /\ top.file \in Files /\ f.stage \in {"expand", "run"}
          BY <1>4, TopFrame, FrameFields DEF PushStep
        <5>3. Len(loads[top.file]) \in Nat BY <5>2, ProgramTypes
        <5> QED BY <1>4, <3>1, <5>1, <5>2, <5>3 DEF PushStep, frameInv
      <4>2. CASE k # 1 BY <1>4, <3>1, <4>2, PushedStack DEF frameInv
      <4> QED BY <4>1, <4>2
    <3>4. stack'[k].file \in needs(stack[k].file)
      <4>1. CASE k = 1 BY <1>4, <2>1, <4>1, PushedStack, FrameOf
      <4>2. CASE k # 1
        <5>1. k - 1 \in 1 .. Len(stack) /\ (k - 1) + 1 = k /\ k > 1 BY <3>1, <4>2
        <5>2. stack'[k].file = stack[k - 1].file BY <1>4, <5>1, PushedStack
        <5> QED BY <3>1, <5>1, <5>2 DEF frameInv
      <4> QED BY <4>1, <4>2
    <3>5. ASSUME NEW l \in k + 1 .. Len(stack)
          PROVE  /\ l + 1 \in (k + 1) + 1 .. Len(stack')
                 /\ stack'[l + 1].file = stack[l].file
      BY <1>4, <3>1, PushedStack
    <3>6. (k + 1) - 1 = k /\ (k + 1 = Len(stack') <=> k = Len(stack)) BY <3>1
    <3> QED BY <1>1, <3>1, <3>2, <3>3, <3>4, <3>5, <3>6 DEF frameInv
  <2>5. ASSUME NEW k \in DOMAIN stack' PROVE frameInv(k)'
    <3>1. CASE k = 1 BY <2>3, <3>1
    <3>2. CASE k # 1
      <4>1. k - 1 \in DOMAIN stack /\ (k - 1) + 1 = k BY <1>4, <3>2, PushedStack
      <4>2. frameInv((k - 1) + 1)' BY <2>4, <4>1
      <4> QED BY <4>1, <4>2
    <3> QED BY <3>1, <3>2
  <2> QED BY <2>1, <2>2, <2>5 DEF StackInv
<1>5. CASE PopStep
  <2>1. stack' = <<>> <=> status' \in {"ok", "error"}
    <3>1. frameInv(1) /\ stack[1] = top BY <1>5, PoppedStack DEF StackInv
    <3>2. top.how = "script" <=> Len(stack) = 1 BY <3>1 DEF frameInv
    <3>3. stack' = <<>> <=> Len(stack) = 1 BY <1>5, PoppedStack
    <3> QED BY <1>5, <3>2, <3>3 DEF PopStep
  <2>2. ASSUME NEW k \in DOMAIN stack' PROVE frameInv(k)'
    <3>1. /\ k + 1 \in DOMAIN stack /\ k \in 1 .. Len(stack) - 1 /\ Len(stack) \in Nat
          /\ Len(stack') = Len(stack) - 1
          /\ stack'[k] = stack[k + 1] /\ frameInv(k + 1)
      <4>1. /\ k \in 1 .. Len(stack) - 1 /\ Len(stack) \in Nat /\ Len(stack') = Len(stack) - 1
            /\ DOMAIN stack = 1 .. Len(stack)
        BY <1>5, PoppedStack
      <4>2. k + 1 \in DOMAIN stack BY <4>1
      <4>3. stack'[k] = stack[k + 1] BY <1>5, <4>1, PoppedStack
      <4> QED BY <4>1, <4>2, <4>3 DEF StackInv
    <3>2. k > 1 => stack'[k - 1] = stack[(k + 1) - 1]
      <4>1. SUFFICES ASSUME k > 1 PROVE stack'[k - 1] = stack[(k + 1) - 1] OBVIOUS
      <4>2. k - 1 \in 1 .. Len(stack) - 1 /\ (k - 1) + 1 = (k + 1) - 1 BY <3>1, <4>1
      <4> QED BY <1>5, <4>2, PoppedStack
    <3>3. ASSUME NEW l \in (k + 1) + 1 .. Len(stack)
          PROVE  l - 1 \in k + 1 .. Len(stack') /\ stack'[l - 1] = stack[l]
      <4>1. l - 1 \in 1 .. Len(stack) - 1 /\ (l - 1) + 1 = l /\ l - 1 \in k + 1 .. Len(stack')
        BY <3>1
      <4> QED BY <1>5, <4>1, PoppedStack
    <3>4. (k = Len(stack') <=> k + 1 = Len(stack)) /\ (k > 1 => k + 1 > 1) BY <3>1
    <3> QED BY <1>1, <3>1, <3>2, <3>3, <3>4 DEF frameInv
  <2> QED BY <2>1, <2>2 DEF StackInv
<1> QED BY <1>2, <1>3, <1>4, <1>5 DEF StackStep

--------------------------------------------------------------------------------
(* An error has a cause *)

\* The files of the innermost l frames form a load cycle if the innermost one
\* needs one of them.
LEMMA CycleOnStack ==
  ASSUME TypeOK, StackInv, NEW l \in DOMAIN stack, l # Len(stack),
         NEW k \in 1 .. l, stack[k].file \in needs(stack[1].file)
  PROVE  cyclic
<1>0. stack \in Seq(Frames) BY DEF TypeOK
<1>1. DOMAIN stack = 1 .. Len(stack) /\ Len(stack) \in Nat
  <2>1. DOMAIN stack = 1 .. Len(stack) BY <1>0
  <2>2. Len(stack) \in Nat BY <1>0
  <2> QED BY <2>1, <2>2
<1> DEFINE S == {stack[j].file : j \in 1 .. l}
<1>2. S \subseteq needed
  <2>1. ASSUME NEW j \in 1 .. l PROVE stack[j].file \in needed
    <3>1. PICK n \in Nat : n = Len(stack) BY <1>1
    <3>2. l \in 1 .. n /\ l # n BY <1>1, <3>1
    <3>3. j \in 1 .. n /\ j # n BY <3>2
    <3> QED BY <1>1, <3>1, <3>3 DEF StackInv, frameInv
  <2> QED BY <2>1
<1>3. S # {} BY <1>1
<1>4. ASSUME NEW f \in S PROVE needs(f) \cap S # {}
  <2>1. PICK j \in 1 .. l : f = stack[j].file OBVIOUS
  <2>2. CASE j = 1 BY <2>1, <2>2
  <2>3. CASE j # 1
    <3>1. j \in DOMAIN stack /\ j > 1 /\ j - 1 \in 1 .. l BY <1>1, <2>3
    <3>2. stack[j - 1].file \in needs(f) BY <2>1, <3>1 DEF StackInv, frameInv
    <3> QED BY <3>1, <3>2
  <2> QED BY <2>2, <2>3
<1> QED BY <1>2, <1>3, <1>4 DEF cyclic

\* A file on the stack that is not sound, or a module the innermost one needs.
LEMMA Unsound ==
  ASSUME TypeOK, StackInv, stack # <<>>,
         NEW f, f = top.file \/ f \in needs(top.file), kind[f] \notin {"ok", "empty"}
  PROVE  ~sound
<1>1. top.file \in needed \cup {Script}
  <2>1. 1 \in DOMAIN stack /\ top = stack[1] BY TopFrame
  <2> QED BY <2>1 DEF StackInv, frameInv
<1>2. f \in needed \cup {Script} BY <1>1, NeededClosed
<1> QED BY <1>2 DEF sound

LEMMA Blame ==
  ASSUME TypeOK, Settled, StackInv, ErrorInv, Next,
         status = "running", status' = "failing"
  PROVE  ~sound \/ cyclic
<1>1. CASE Scan
  <2>1. PICK j \in pendingStars : kind[loads[top.file][j].mod] = "missing"
    BY <1>1 DEF Scan
  <2>2. stack # <<>> /\ loads[top.file][j].mod \in needs(top.file)
    BY <1>1, AtStar DEF Scan
  <2> QED BY <2>1, <2>2, Unsound
<1>2. CASE CompileError
  <2>1. stack # <<>> /\ kind[top.file] = "unparsable" BY <1>2 DEF CompileError, Running
  <2> QED BY <2>1, Unsound
<1>3. CASE LoadCached
  <2>1. AtLoad /\ ~top.expanded BY <1>3 DEF LoadCached
  <2>2. stack # <<>> /\ kind[top.file] # "unparsable" BY <2>1 DEF AtLoad, Running
  <2>3. top = stack[1] /\ 1 \in DOMAIN stack /\ DOMAIN stack = 1 .. Len(stack)
        /\ Len(stack) \in Nat
    BY <2>2, TopFrame
  <2>4. PICK l \in 1 + 1 .. Len(stack) : stack[l].file = top.file
    BY <2>1, <2>2, <2>3 DEF StackInv, frameInv
  <2>5. l \in DOMAIN stack /\ l > 1 /\ l - 1 \in 1 .. l /\ Len(stack) # 1 BY <2>3, <2>4
  <2>6. stack[l - 1].file \in needs(stack[1].file)
    BY <2>3, <2>4, <2>5 DEF StackInv, frameInv
  <2>7. l # Len(stack) BY <2>3, <2>4, <2>5 DEF StackInv, frameInv
  <2> QED BY <2>5, <2>6, <2>7, CycleOnStack
<1>4. CASE LoadRefused
  <2>1. AtLoad /\ cache[stmt.mod] \in {"err", "loading"} BY <1>4 DEF LoadRefused
  <2>2. stack # <<>> /\ stmt.mod \in Modules /\ stmt.mod \in needs(top.file) BY <2>1, AtStmt
  <2>3. cache[stmt.mod] = "loading" BY <2>1, <2>2 DEF ErrorInv
  <2>4. PICK k \in DOMAIN stack : stack[k].how = "load" /\ stack[k].file = stmt.mod
    BY <2>2, <2>3 DEF Settled
  <2>5. k # Len(stack) BY <2>4 DEF StackInv, frameInv
  <2>6. k \in 1 .. k /\ top = stack[1] BY <2>2, <2>4, TopFrame
  <2> QED BY <2>2, <2>4, <2>5, <2>6, CycleOnStack
<1>5. CASE LoadModule
  <2>1. AtLoad /\ kind[stmt.mod] = "missing" BY <1>5 DEF LoadModule
  <2>2. stack # <<>> /\ stmt.mod \in needs(top.file) BY <2>1, AtStmt
  <2> QED BY <2>1, <2>2, Unsound
<1>6. CASE RunFails
  <2>1. stack # <<>> /\ kind[top.file] = "fails" BY <1>6 DEF RunFails, AtEnd, Running
  <2> QED BY <2>1, Unsound
<1>7. CASE Expanded BY <1>7 DEF Expanded
<1>8. CASE SkipRemoved BY <1>8 DEF SkipRemoved
<1>9. CASE Return BY <1>9 DEF Return
<1>10. CASE Unwind BY <1>10 DEF Unwind
<1> QED BY <1>1, <1>2, <1>3, <1>4, <1>5, <1>6, <1>7, <1>8, <1>9, <1>10 DEF Next

LEMMA ErrorStep ==
  ASSUME TypeOK, Settled, StackInv, ErrorInv, Next, StackStep
  PROVE  ErrorInv'
<1>1. (sound <=> sound') /\ (cyclic <=> cyclic')
  BY SameProgram DEF StackStep, RaiseStep, MoveStep, PushStep, PopStep
<1>2. ASSUME status' \in {"failing", "error"} PROVE ~sound' \/ cyclic'
  <2>1. CASE status \in {"failing", "error"} BY <1>1, <2>1 DEF ErrorInv
  <2>2. CASE status \notin {"failing", "error"}
    <3>1. status = "running" /\ status' = "failing"
      BY <1>2, <2>2 DEF StackStep, RaiseStep, MoveStep, PushStep, PopStep
    <3> QED BY <1>1, <3>1, Blame
  <2> QED BY <2>1, <2>2
<1>3. ASSUME status' \in {"running", "ok"}, NEW m \in Modules PROVE cache'[m] # "err"
  <2>1. CASE RaiseStep BY <1>3, <2>1 DEF RaiseStep
  <2>2. ASSUME NEW f, MoveStep(f) PROVE cache'[m] # "err" BY <2>2 DEF MoveStep, ErrorInv
  <2>3. ASSUME NEW f, NEW n, NEW how, PushStep(f, n, how) PROVE cache'[m] # "err"
    BY <2>3 DEF PushStep, ErrorInv, TypeOK
  <2>4. CASE PopStep BY <1>3, <2>4 DEF PopStep, ErrorInv, TypeOK
  <2> QED BY <2>1, <2>2, <2>3, <2>4 DEF StackStep
<1> QED BY <1>2, <1>3 DEF ErrorInv

--------------------------------------------------------------------------------
(* What has run to its end *)

LEMMA CompleteAdd ==
  ASSUME NEW D \in SUBSET Modules, complete(D), NEW f \in Modules,
         kind[f] \in {"ok", "empty"}, needs(f) \subseteq D
  PROVE  complete(D \cup {f})
<1>1. \A g \in D \cup {f} : kind[g] \in {"ok", "empty"} /\ needs(g) \subseteq D
  BY DEF complete
<1>2. ASSUME NEW S \in SUBSET (D \cup {f}), S # {}
      PROVE  \E g \in S : needs(g) \cap S = {}
  <2>1. CASE f \in D \/ f \notin S
    <3>1. S \in SUBSET D BY <2>1
    <3> QED BY <1>2, <3>1 DEF complete
  <2>2. CASE f \notin D /\ f \in S
    <3>1. CASE S \ {f} = {} BY <1>1, <2>2, <3>1
    <3>2. CASE S \ {f} # {}
      <4>1. S \ {f} \in SUBSET D OBVIOUS
      <4>2. PICK g \in S \ {f} : needs(g) \cap (S \ {f}) = {} BY <3>2, <4>1 DEF complete
      <4>3. f \notin needs(g) BY <1>1, <2>2, <4>1
      <4> QED BY <4>2, <4>3
    <3> QED BY <3>1, <3>2
  <2> QED BY <2>1, <2>2
<1> QED BY <1>1, <1>2 DEF complete

\* What ProgressInv says of a set of modules.
Progress(D) ==
  /\ complete(D)
  /\ \A m \in Modules : cache[m] = "ok" => m \in D
  /\ \A k \in DOMAIN stack : passed(k, D)
  /\ status = "ok" => kind[Script] \in {"ok", "empty"} /\ needs(Script) \subseteq D

\* A push disturbs nobody's progress: the frame it puts on top has none yet.
LEMMA ProgressPush ==
  ASSUME TypeOK, NEW D \in SUBSET Modules, Progress(D),
         NEW f, NEW m, NEW how, PushStep(f, m, how),
         f = top \/ (/\ how = "scan" /\ f.stage = "expand"
                     /\ \A j \in DOMAIN loads[top.file] :
                          j > f.i /\ loads[top.file][j].star =>
                            \/ loads[top.file][j].mod \in D
                            \/ loads[top.file][j].mod = m)
  PROVE  Progress(D)'
<1>1. /\ loads' = loads /\ kind' = kind /\ \A g : needs(g)' = needs(g)
      /\ status' = status /\ status = "running"
  BY SameProgram DEF PushStep
<1>2. complete(D)' BY <1>1 DEF complete, Progress
<1>3. \A l \in Modules : cache'[l] = "ok" => l \in D BY DEF PushStep, Progress, TypeOK
<1>4. m \in Files /\ Len(loads[m]) \in Nat /\ DOMAIN loads[m] = 1 .. Len(loads[m])
  BY ProgramTypes DEF PushStep, Files
<1>5. passed(1, D)'
  <2>1. /\ stack'[1].file = m /\ stack'[1].expanded = expands(m)
        /\ stack'[1].stage = IF expands(m) THEN "expand" ELSE "run"
        /\ stack'[1].i = IF expands(m) THEN Len(loads[m]) ELSE 1
    BY PushedStack, FrameOf
  <2> QED BY <1>1, <1>4, <2>1 DEF passed
<1>6. ASSUME NEW k \in DOMAIN stack PROVE passed(k + 1, D)'
  <2>1. /\ passed(k, D) /\ k \in 1 .. Len(stack) /\ Len(stack) \in Nat
        /\ (k + 1) - 1 = k /\ k + 1 > 1
    BY PushedStack DEF Progress
  <2>2. CASE k = 1
    <3>1. stack'[k + 1] = f /\ stack[k] = top /\ f.file = top.file
          /\ stack'[k].file = m /\ stack'[k].how = how
      <4>1. f.file = top.file BY DEF PushStep
      <4>2. stack'[2] = f /\ stack[1] = top /\ stack'[1] = frameOf(m, how) BY PushedStack
      <4> QED BY <2>2, <4>1, <4>2, FrameOf
    <3>2. CASE f = top BY <1>1, <2>1, <2>2, <3>1, <3>2 DEF passed
    <3>3. CASE f # top BY <1>1, <2>1, <2>2, <3>1, <3>3 DEF passed
    <3> QED BY <3>2, <3>3
  <2>3. CASE k # 1
    <3>1. k \in 2 .. Len(stack) /\ k - 1 \in 1 .. Len(stack) /\ (k - 1) + 1 = k BY <2>1, <2>3
    <3>2. /\ stack'[k + 1] = stack[k]
          /\ stack'[k].how = stack[k - 1].how /\ stack'[k].file = stack[k - 1].file
      BY <3>1, PushedStack
    <3> QED BY <1>1, <2>1, <3>2 DEF passed
  <2> QED BY <2>2, <2>3
<1>7. ASSUME NEW k \in DOMAIN stack' PROVE passed(k, D)'
  <2>1. CASE k = 1 BY <1>5, <2>1
  <2>2. CASE k # 1
    <3>1. k - 1 \in DOMAIN stack /\ (k - 1) + 1 = k BY <2>2, PushedStack
    <3>2. passed((k - 1) + 1, D)' BY <1>6, <3>1
    <3> QED BY <3>1, <3>2
  <2> QED BY <2>1, <2>2
<1> QED BY <1>1, <1>2, <1>3, <1>7 DEF Progress

\* A move keeps progress if the innermost frame has got through what it claims.
LEMMA ProgressMove ==
  ASSUME TypeOK, NEW D \in SUBSET Modules, Progress(D), NEW f, MoveStep(f),
         \A j \in DOMAIN loads[top.file] :
           j < f.i \/ (top.expanded /\ loads[top.file][j].star) => loads[top.file][j].mod \in D
  PROVE  Progress(D)'
<1>1. /\ loads' = loads /\ kind' = kind /\ \A g : needs(g)' = needs(g)
      /\ status' = status /\ cache' = cache
  BY SameProgram DEF MoveStep
<1>2. complete(D)' BY <1>1 DEF complete, Progress
<1>3. ASSUME NEW k \in DOMAIN stack' PROVE passed(k, D)'
  <2>1. k \in DOMAIN stack /\ k \in 1 .. Len(stack) /\ passed(k, D) BY MovedStack DEF Progress
  <2>2. CASE k = 1
    <3>1. stack'[k] = f /\ f.file = top.file /\ f.stage = "run" /\ f.expanded = top.expanded
      BY <2>2, MovedStack DEF MoveStep
    <3> QED BY <1>1, <3>1 DEF passed
  <2>3. CASE k # 1
    <3>1. k \in 2 .. Len(stack) /\ k - 1 \in 1 .. Len(stack) BY <2>1, <2>3, MovedStack
    <3>2. /\ stack'[k] = stack[k] /\ stack'[k - 1].how = stack[k - 1].how
          /\ stack'[k - 1].file = stack[k - 1].file
      BY <3>1, MovedStack
    <3> QED BY <1>1, <2>1, <3>2 DEF passed
  <2> QED BY <2>2, <2>3
<1> QED BY <1>1, <1>2, <1>3 DEF Progress

\* A frame that returns has run to its end, and so has its file.
LEMMA ProgressPop ==
  ASSUME TypeOK, StackInv, NEW D \in SUBSET Modules, Progress(D), Return, PopStep
  PROVE  \E E \in SUBSET Modules : Progress(E)'
<1>1. /\ loads' = loads /\ kind' = kind /\ \A g : needs(g)' = needs(g)
  BY SameProgram DEF PopStep
<1>2. /\ stack # <<>> /\ status = "running" /\ top.stage = "run"
      /\ kind[top.file] \notin {"unparsable", "fails"}
      /\ top.i > Len(loads[top.file])
      /\ cache' = IF top.how = "load" THEN [cache EXCEPT ![top.file] = "ok"] ELSE cache
      /\ status' = IF top.how = "script" THEN "ok" ELSE status
  BY DEF Return, AtEnd, Running
<1>3. /\ top = stack[1] /\ top.file \in Files /\ top \in Frames /\ frameInv(1) /\ passed(1, D)
      /\ top.i \in Nat /\ Len(loads[top.file]) \in Nat
      /\ DOMAIN loads[top.file] = 1 .. Len(loads[top.file])
  BY <1>2, TopFrame, FrameFields, ProgramTypes DEF StackInv, Progress
<1>4. kind[top.file] \in {"ok", "empty"}
  BY <1>2, <1>3, ProgramTypes DEF frameInv, Kinds
<1>5. needs(top.file) \subseteq D
  <2>1. \A j \in DOMAIN loads[top.file] : j < top.i BY <1>2, <1>3
  <2>2. \A j \in DOMAIN loads[top.file] : loads[top.file][j].mod \in D
    BY <1>2, <1>3, <2>1 DEF passed
  <2> QED BY <2>2 DEF needs
<1>6. CASE top.how = "script"
  <2>1. top.file = Script /\ Len(stack) = 1 BY <1>3, <1>6 DEF frameInv
  <2>2. DOMAIN stack' = {} BY <2>1, PoppedStack
  <2>3. complete(D)' BY <1>1 DEF complete, Progress
  <2>4. \A m \in Modules : cache'[m] = "ok" => m \in D BY <1>2, <1>6 DEF Progress
  <2>5. Progress(D)' BY <1>1, <1>4, <1>5, <2>1, <2>2, <2>3, <2>4 DEF Progress
  <2> QED BY <2>5
<1>7. CASE top.how # "script"
  <2>0. PICK x : x = top.file OBVIOUS
  <2> DEFINE E == D \cup {x}
  <2>1. x \in Modules
    <3>1. top.file # Script BY <1>3, <1>7 DEF frameInv
    <3> QED BY <1>3, <2>0, <3>1 DEF Files
  <2>2. complete(E)
    <3>1. complete(D) BY DEF Progress
    <3> QED BY <1>4, <1>5, <2>0, <2>1, <3>1, CompleteAdd
  <2>3. complete(E)' BY <1>1, <2>2 DEF complete
  <2>4. \A m \in Modules : cache'[m] = "ok" => m \in E BY <1>2, <2>0 DEF Progress, TypeOK
  <2>5. ASSUME NEW k \in DOMAIN stack' PROVE passed(k, E)'
    <3>1. /\ k \in 1 .. Len(stack) - 1 /\ Len(stack) \in Nat
          /\ DOMAIN stack = 1 .. Len(stack)
      BY PoppedStack
    <3>2. k + 1 \in DOMAIN stack /\ (k + 1) - 1 = k /\ k \in 1 .. Len(stack) BY <3>1
    <3>3. stack'[k] = stack[k + 1] BY <3>1, PoppedStack
    <3>4. passed(k + 1, D) BY <3>2 DEF Progress
    <3>5. CASE k = 1 BY <1>1, <1>3, <2>0, <3>2, <3>3, <3>4, <3>5 DEF passed
    <3>6. CASE k # 1
      <4>1. k > 1 /\ k - 1 \in 1 .. Len(stack) - 1 /\ (k - 1) + 1 = k BY <3>1, <3>6
      <4>2. stack'[k - 1] = stack[k] BY <4>1, PoppedStack
      <4> QED BY <1>1, <3>2, <3>3, <3>4, <4>1, <4>2 DEF passed
    <3> QED BY <3>5, <3>6
  <2>6. Progress(E)' BY <1>2, <1>7, <2>3, <2>4, <2>5 DEF Progress
  <2> QED BY <2>1, <2>6
<1> QED BY <1>6, <1>7

LEMMA ProgressStep ==
  ASSUME TypeOK, StackInv, ProgressInv, Next, StackStep
  PROVE  ProgressInv'
<1>1. SUFFICES ASSUME status' \in {"running", "ok"}
               PROVE  \E E \in SUBSET Modules : Progress(E)'
  BY DEF ProgressInv, Progress
<1>2. status = "running"
  BY <1>1 DEF StackStep, RaiseStep, MoveStep, PushStep, PopStep
<1>3. PICK D \in SUBSET Modules : Progress(D) BY <1>2 DEF ProgressInv, Progress
<1>4. CASE Scan
  <2>1. PICK j \in pendingStars :
          /\ isNextStar(j)
          /\ kind[loads[top.file][j].mod] # "missing"
          /\ call([top EXCEPT !.i = j - 1], loads[top.file][j].mod, "scan")
          /\ UNCHANGED status
    BY <1>1, <1>4 DEF Scan, Raise
  <2> DEFINE m == loads[top.file][j].mod
             f == [top EXCEPT !.i = j - 1]
  <2>2. /\ stack # <<>> /\ top \in Frames /\ top.stage = "expand" /\ top.i \in Nat
        /\ j \in Nat \ {0} /\ j <= top.i /\ j - 1 \in Nat
        /\ m \in needs(top.file) /\ m \in Modules
    BY <1>4, AtStar DEF Scan
  <2>3. /\ f \in Frames /\ f.file = top.file /\ f.how = top.how
        /\ f.expanded = top.expanded /\ f.stage = "expand" /\ f.i = j - 1
    BY <2>2, MovedFrame
  <2>4. f.i <= top.i BY <2>2, <2>3
  <2>5. PushStep(f, m, "scan")
    BY <1>2, <1>4, <2>1, <2>2, <2>3, <2>4 DEF PushStep, call, Scan
  <2>6. ASSUME NEW h \in DOMAIN loads[top.file], h > f.i, loads[top.file][h].star
        PROVE  loads[top.file][h].mod \in D \/ loads[top.file][h].mod = m
    <3>1. top = stack[1] /\ 1 \in DOMAIN stack /\ top.file \in Files BY <2>2, TopFrame
    <3>2. h \in Nat /\ h >= j BY <2>2, <2>3, <2>6, <3>1, ProgramTypes
    <3>3. CASE h = j BY <3>3
    <3>4. CASE h # j
      <4>1. h \notin pendingStars BY <2>1, <2>2, <3>2, <3>4 DEF isNextStar
      <4>2. h > top.i BY <2>2, <2>6, <3>2, <4>1 DEF pendingStars
      <4>3. passed(1, D) BY <1>3, <3>1 DEF Progress
      <4> QED BY <2>2, <2>6, <3>1, <4>2, <4>3 DEF passed
    <3> QED BY <3>3, <3>4
  <2>7. Progress(D)' BY <1>3, <2>3, <2>5, <2>6, ProgressPush
  <2> QED BY <2>7
<1>5. CASE LoadModule
  <2>1. /\ AtLoad /\ kind[stmt.mod] # "missing" /\ call(top, stmt.mod, "load")
        /\ cache[stmt.mod] = "absent"
        /\ cache' = [cache EXCEPT ![stmt.mod] = "loading"]
        /\ inits' = [inits EXCEPT ![stmt.mod] = @ + 1]
        /\ UNCHANGED <<program, status>>
    BY <1>1, <1>5 DEF LoadModule, Raise
  <2>2. /\ stack # <<>> /\ top \in Frames /\ top.i \in Nat
        /\ stmt.mod \in needs(top.file) /\ stmt.mod \in Modules
    BY <2>1, AtStmt, TopFrame
  <2>3. PushStep(top, stmt.mod, "load") BY <1>2, <2>1, <2>2 DEF PushStep, call
  <2>4. Progress(D)' BY <1>3, <2>3, ProgressPush
  <2> QED BY <2>4
<1>6. CASE Expanded
  <2> DEFINE f == [top EXCEPT !.stage = "run", !.i = 1]
  <2>1. stack # <<>> /\ top.stage = "expand" /\ pendingStars = {}
    BY <1>6 DEF Expanded, Expanding
  <2>2. top \in Frames /\ top = stack[1] /\ 1 \in DOMAIN stack /\ top.file \in Files
        /\ top.i \in Nat
    BY <2>1, TopFrame, FrameFields
  <2>3. f \in Frames /\ f.file = top.file /\ f.how = top.how /\ f.stage = "run"
        /\ f.expanded = top.expanded /\ f.i = 1
    BY <2>2, ExpandedFrame
  <2>4. MoveStep(f) BY <1>2, <1>6, <2>1, <2>3 DEF MoveStep, Expanded, replaceTop
  <2>5. ASSUME NEW j \in DOMAIN loads[top.file],
               j < f.i \/ (top.expanded /\ loads[top.file][j].star)
        PROVE  loads[top.file][j].mod \in D
    <3>1. j \in Nat \ {0} BY <2>2, ProgramTypes
    <3>2. loads[top.file][j].star BY <2>3, <2>5, <3>1
    <3>3. j > top.i BY <2>1, <2>2, <3>1, <3>2 DEF pendingStars
    <3>4. passed(1, D) BY <1>3, <2>2 DEF Progress
    <3> QED BY <2>1, <2>2, <3>2, <3>3, <3>4 DEF passed
  <2>6. Progress(D)' BY <1>3, <2>4, <2>5, ProgressMove
  <2> QED BY <2>6
<1>7. ASSUME AtLoad, replaceTop([top EXCEPT !.i = @ + 1]),
             UNCHANGED <<program, status, cache, expanding, inits>>,
             stmt.mod \in D
      PROVE  Progress(D)'
  <2>1. stack # <<>> /\ top.stage = "run" BY <1>7 DEF AtLoad, Running
  <2>2. top \in Frames /\ top = stack[1] /\ 1 \in DOMAIN stack /\ top.file \in Files
        /\ top.i \in Nat
    BY <2>1, TopFrame, FrameFields
  <2> DEFINE n == top.i + 1
             f == [top EXCEPT !.i = n]
  <2>3. n \in Nat BY <2>2
  <2>4. f \in Frames /\ f.file = top.file /\ f.how = top.how /\ f.stage = top.stage
        /\ f.expanded = top.expanded /\ f.i = n
    BY <2>2, <2>3, MovedFrame
  <2>5. stack' = <<f>> \o Tail(stack) BY <1>7, <2>2 DEF replaceTop
  <2>6. MoveStep(f) BY <1>2, <1>7, <2>1, <2>4, <2>5 DEF MoveStep
  <2>7. ASSUME NEW j \in DOMAIN loads[top.file],
               j < f.i \/ (top.expanded /\ loads[top.file][j].star)
        PROVE  loads[top.file][j].mod \in D
    <3>1. passed(1, D) BY <1>3, <2>2 DEF Progress
    <3>2. j \in Nat BY <2>2, ProgramTypes
    <3>3. CASE j = top.i BY <1>7, <3>3 DEF stmt
    <3>4. CASE j # top.i
      <4>1. j < top.i \/ (top.expanded /\ loads[top.file][j].star) BY <2>2, <2>4, <2>7, <3>2, <3>4
      <4> QED BY <2>1, <2>2, <3>1, <4>1 DEF passed
    <3> QED BY <3>3, <3>4
  <2> QED BY <1>3, <2>6, <2>7, ProgressMove
<1>8. CASE SkipRemoved
  <2>1. AtLoad /\ stmt.star /\ top.expanded BY <1>8 DEF SkipRemoved, removed
  <2>2. stack # <<>> /\ top.stage = "run" BY <2>1 DEF AtLoad, Running
  <2>3. top = stack[1] /\ 1 \in DOMAIN stack BY <2>2, TopFrame
  <2>4. top.i \in DOMAIN loads[top.file] BY <2>1, AtStmt
  <2>5. passed(1, D) BY <1>3, <2>3 DEF Progress
  <2>6. stmt.mod \in D BY <2>1, <2>2, <2>3, <2>4, <2>5 DEF passed, stmt
  <2> QED BY <1>7, <1>8, <2>6 DEF SkipRemoved
<1>9. CASE LoadCached
  <2>1. AtLoad /\ cache[stmt.mod] = "ok" BY <1>9 DEF LoadCached
  <2>2. stmt.mod \in D BY <1>3, <2>1, AtStmt DEF Progress
  <2> QED BY <1>1, <1>7, <1>9, <2>2 DEF LoadCached, Raise
<1>12. CASE Return
  <2>1. PopStep BY <1>12 DEF Return, AtEnd, Running, PopStep
  <2> QED BY <1>3, <1>12, <2>1, ProgressPop
<1>10. CASE CompileError \/ LoadRefused \/ RunFails BY <1>1, <1>10 DEF CompileError, LoadRefused, RunFails, Raise
<1>11. CASE Unwind BY <1>2, <1>11 DEF Unwind
<1> QED BY <1>4, <1>5, <1>6, <1>8, <1>9, <1>10, <1>11, <1>12 DEF Next

--------------------------------------------------------------------------------
(* The theorems *)

LEMMA InitInv == Init => IInv
<1> SUFFICES ASSUME Init PROVE IInv OBVIOUS
<1>1. PICK e \in BOOLEAN :
        /\ e <=> kind[Script] # "unparsable"
        /\ stack = <<[file |-> Script, how |-> "script", expanded |-> e,
                      stage |-> IF e THEN "expand" ELSE "run",
                      i |-> IF e THEN Len(loads[Script]) ELSE 1]>>
        /\ expanding = IF e THEN {Script} ELSE {}
  <2>1. CASE kind[Script] = "unparsable" BY <2>1 DEF Init
  <2>2. CASE kind[Script] # "unparsable" BY <2>2 DEF Init
  <2> QED BY <2>1, <2>2
<1> DEFINE f == [file |-> Script, how |-> "script", expanded |-> e,
                 stage |-> IF e THEN "expand" ELSE "run",
                 i |-> IF e THEN Len(loads[Script]) ELSE 1]
<1>2. program \in Programs /\ status = "running"
      /\ cache = [m \in Modules |-> "absent"] /\ inits = [m \in Modules |-> 0]
  BY DEF Init
<1>3. loads[Script] \in Seq(LoadStmts) /\ kind[Script] # "missing"
  BY <1>2, ProgramsOK DEF Program, loads, kind, Files
<1>4. Len(loads[Script]) \in Nat /\ DOMAIN loads[Script] = 1 .. Len(loads[Script])
  BY <1>3
<1>5. f \in Frames /\ f.file = Script /\ f.how = "script"
      /\ f.stage = (IF e THEN "expand" ELSE "run") /\ f.expanded = e
      /\ f.i = (IF e THEN Len(loads[Script]) ELSE 1)
  BY <1>4 DEF Frames, Files
<1> HIDE DEF f
<1>6. stack \in Seq(Frames) /\ stack # <<>> /\ Len(stack) = 1 /\ DOMAIN stack = {1}
      /\ stack[1] = f
  BY <1>1, <1>5 DEF f
<1>7. TypeOK BY <1>1, <1>2, <1>6 DEF TypeOK, Files
<1>8. Settled BY <1>1, <1>2, <1>5, <1>6 DEF Settled
<1>9. StackInv BY <1>1, <1>2, <1>3, <1>4, <1>5, <1>6 DEF StackInv, frameInv
<1>10. CountInv /\ ErrorInv BY <1>2 DEF CountInv, ErrorInv
<1>11. ProgressInv
  <2>1. complete({}) BY DEF complete
  <2>2. passed(1, {}) BY <1>4, <1>5, <1>6 DEF passed
  <2>3. {} \in SUBSET Modules OBVIOUS
  <2> QED BY <1>2, <1>6, <2>1, <2>2, <2>3 DEF ProgressInv
<1> QED BY <1>7, <1>8, <1>9, <1>10, <1>11 DEF IInv

LEMMA StepInv == IInv /\ [Next]_vars => IInv'
<1>1. ASSUME IInv, Next PROVE IInv'
  <2>1. StackStep BY <1>1, StackSteps DEF IInv
  <2> QED BY <1>1, <2>1, TypeStep, SettledStep, StackInvStep, CountStep, ErrorStep, ProgressStep DEF IInv
<1>2. ASSUME IInv, UNCHANGED vars PROVE IInv'
  <2>1. /\ loads' = loads /\ kind' = kind /\ needed' = needed
        /\ \A f : needs(f)' = needs(f)
        /\ (sound <=> sound') /\ (cyclic <=> cyclic')
    BY <1>2, SameProgram DEF vars
  <2>2. stack' = stack /\ status' = status /\ cache' = cache BY <1>2 DEF vars
  <2>3. \A k : frameInv(k) <=> frameInv(k)' BY <2>1, <2>2 DEF frameInv
  <2>4. \A D : complete(D) <=> complete(D)' BY <2>1 DEF complete
  <2>5. \A k, D : passed(k, D) <=> passed(k, D)' BY <2>1, <2>2 DEF passed
  <2>6. TypeOK' /\ Settled' /\ CountInv'
    BY <1>2 DEF vars, IInv, TypeOK, Settled, CountInv
  <2>7. StackInv' BY <1>2, <2>2, <2>3 DEF IInv, StackInv
  <2>8. ErrorInv' BY <1>2, <2>1, <2>2 DEF IInv, ErrorInv
  <2>9. ProgressInv' BY <1>2, <2>1, <2>2, <2>4, <2>5 DEF IInv, ProgressInv
  <2> QED BY <2>6, <2>7, <2>8, <2>9 DEF IInv
<1> QED BY <1>1, <1>2

\* The inductive invariant of the loader holds for any files and programs.
THEOREM Inductive == Spec => []IInv
BY InitInv, StepInv, PTL DEF Spec

LEMMA OutcomeFromInv == IInv => OutcomeExact
<1> SUFFICES ASSUME IInv PROVE OutcomeExact OBVIOUS
<1>1. status = "error" => ~sound \/ cyclic BY DEF IInv, ErrorInv
<1>2. ASSUME status = "ok" PROVE sound /\ ~cyclic
  <2>1. PICK D \in SUBSET Modules :
          /\ complete(D)
          /\ kind[Script] \in {"ok", "empty"} /\ needs(Script) \subseteq D
    BY <1>2 DEF IInv, ProgressInv
  <2>2. needed \subseteq D BY <2>1, NeededLeast DEF complete
  <2>3. sound BY <2>1, <2>2 DEF sound, complete
  <2>4. ~cyclic BY <2>1, <2>2 DEF cyclic, complete
  <2> QED BY <2>3, <2>4
<1> QED BY <1>1, <1>2 DEF OutcomeExact

\* Whatever the files hold, a script that ends has run to its end exactly when
\* all it needs is sound and without a load cycle.
THEOREM OutcomesExact == Spec => []OutcomeExact
BY Inductive, OutcomeFromInv, PTL

\* load() executes no module twice, however often and wherever it is loaded.
THEOREM ModulesLoadedOnce == Spec => []LoadedOnce
<1>1. ASSUME IInv, NEW m \in Modules PROVE inits[m] <= 1
  <2>1. inits[m] \in Nat BY <1>1 DEF IInv, TypeOK
  <2> QED BY <1>1, <2>1 DEF IInv, CountInv
<1>2. IInv => LoadedOnce BY <1>1 DEF LoadedOnce
<1> QED BY <1>2, Inductive, PTL

\* No mark of a load or of an expansion outlives the call that set it.
THEOREM MarksSettled == Spec => []Settled
<1>1. IInv => Settled BY DEF IInv
<1> QED BY <1>1, Inductive, PTL
================================================================================
