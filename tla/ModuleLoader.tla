------------------------------ MODULE ModuleLoader ------------------------------
(***************************************************************************)
(* Execution of a script and of the modules it loads, within one request:  *)
(* star-import expansion (ResolveStarImports, getModuleExports) and load() *)
(* with its cache and cycle detection (runtime/loader.go).                 *)
(*                                                                         *)
(* The Go call stack is a sequence of frames, the innermost one first.  A  *)
(* frame is a call of ResolveStarImports followed by the execution of what *)
(* it returns: of the script, of a module load() loads, or of a module     *)
(* getModuleExports scans for its public names.  Modules go by the name    *)
(* load() uses as its cache key.                                           *)
(***************************************************************************)
EXTENDS Integers, Sequences, FiniteSets

CONSTANTS Modules,  \* names of loadable modules
          Script,   \* the main script's file name
          Programs  \* what the files may hold, see Program

ASSUME ScriptIsNoModule == Script \notin Modules

Files == Modules \cup {Script}

\* A load statement, of some names or ("*") of all public names of a module,
\* the module given by the name or path its target expands to.
LoadStmts == [mod : Modules, star : BOOLEAN]

\* The kinds of file: defining some public names or none; failing at run time
\* after its loads; syntactically wrong; not to be found.
Kinds == {"ok", "empty", "fails", "unparsable", "missing"}

Program == [loads : [Files -> Seq(LoadStmts)], kind : [Files -> Kinds]]
ASSUME ProgramsOK == /\ Programs \subseteq Program
                     /\ \A p \in Programs : p.kind[Script] # "missing"

VARIABLES
  program,   \* the contents of all files
  status,    \* "running", "failing" (an error is being returned), "ok", "error"
  stack,     \* the frames, innermost first
  cache,     \* ModuleLoader.cache: "absent", "loading" (nil entry), "ok", "err"
  expanding, \* ModuleLoader.expanding
  inits      \* inits[m]: how often load() executed m (history)

vars == <<program, status, stack, cache, expanding, inits>>

loads == program.loads
kind == program.kind

Frames == [file : Files,
           how : {"script", "load", "scan"},
           stage : {"expand", "run"},
           expanded : BOOLEAN, \* star imports were rewritten
           i : Nat]            \* the load statement to deal with

TypeOK ==
  /\ program \in Programs
  /\ status \in {"running", "failing", "ok", "error"}
  /\ stack \in Seq(Frames)
  /\ cache \in [Modules -> {"absent", "loading", "ok", "err"}]
  /\ expanding \subseteq Files
  /\ inits \in [Modules -> Nat]

--------------------------------------------------------------------------------
(* Frames *)

top == Head(stack)
replaceTop(f) == stack' = <<f>> \o Tail(stack)

\* Whether ResolveStarImports goes to work on a file: not while it is already
\* doing so further out, and not when it cannot parse it.
expands(file) == file \notin expanding /\ kind[file] # "unparsable"

\* ResolveStarImports is called for a file that is then executed.
frameOf(file, how) ==
  [file |-> file, how |-> how, expanded |-> expands(file),
   stage |-> IF expands(file) THEN "expand" ELSE "run",
   i |-> IF expands(file) THEN Len(loads[file]) ELSE 1]

\* The frame of a call, on top of the calling frame.
call(caller, file, how) ==
  /\ stack' = <<frameOf(file, how), caller>> \o Tail(stack)
  /\ expanding' = IF expands(file) THEN expanding \cup {file} ELSE expanding

Init ==
  /\ program \in Programs
  /\ status = "running"
  /\ cache = [m \in Modules |-> "absent"]
  /\ inits = [m \in Modules |-> 0]
  /\ IF kind[Script] = "unparsable"
     THEN /\ stack = <<[file |-> Script, how |-> "script", expanded |-> FALSE,
                        stage |-> "run", i |-> 1]>>
          /\ expanding = {}
     ELSE /\ stack = <<[file |-> Script, how |-> "script", expanded |-> TRUE,
                        stage |-> "expand", i |-> Len(loads[Script])]>>
          /\ expanding = {Script}

\* An error is returned: every frame of the stack returns it.
Raise == status' = "failing" /\ UNCHANGED stack

--------------------------------------------------------------------------------
(* ResolveStarImports, from the last star import to the first *)

Expanding == status = "running" /\ stack # <<>> /\ top.stage = "expand"

\* The star imports not yet rewritten, and the last of them.
pendingStars == {j \in 1 .. top.i : loads[top.file][j].star}
isNextStar(j) == \A k \in pendingStars : k <= j

\* Mutant of Scan: the star import is not ticked off.
ScanAgain ==
  /\ Expanding
  /\ \E j \in pendingStars :
       /\ isNextStar(j)
       /\ LET m == loads[top.file][j].mod IN
          \/ kind[m] = "missing" /\ Raise /\ UNCHANGED expanding
          \/ /\ kind[m] # "missing"
             /\ call([top EXCEPT !.i = j], m, "scan")
             /\ UNCHANGED status
  /\ UNCHANGED <<program, cache, inits>>

\* getModuleExports: the module is read, expanded and executed for its names,
\* whatever the cache says.
Scan ==
  /\ Expanding
  /\ \E j \in pendingStars :
       /\ isNextStar(j)
       /\ LET m == loads[top.file][j].mod IN
          \/ kind[m] = "missing" /\ Raise /\ UNCHANGED expanding
          \/ /\ kind[m] # "missing"
             /\ call([top EXCEPT !.i = j - 1], m, "scan")
             /\ UNCHANGED status
  /\ UNCHANGED <<program, cache, inits>>

\* All rewritten: the file is compiled and runs.
Expanded ==
  /\ Expanding
  /\ pendingStars = {}
  /\ replaceTop([top EXCEPT !.stage = "run", !.i = 1])
  /\ expanding' = expanding \ {top.file}
  /\ UNCHANGED <<program, status, cache, inits>>

--------------------------------------------------------------------------------
(* Execution of a file *)

Running == status = "running" /\ stack # <<>> /\ top.stage = "run"
CompileError == Running /\ kind[top.file] = "unparsable" /\ Raise
                /\ UNCHANGED <<program, cache, expanding, inits>>

AtLoad == /\ Running
          /\ kind[top.file] # "unparsable"
          /\ top.i <= Len(loads[top.file])
stmt == loads[top.file][top.i]

\* A rewritten star import that imports no name at all has been removed.
removed == stmt.star /\ top.expanded /\ kind[stmt.mod] = "empty"

SkipRemoved ==
  /\ AtLoad
  /\ removed
  /\ replaceTop([top EXCEPT !.i = @ + 1])
  /\ UNCHANGED <<program, status, cache, expanding, inits>>

\* load() has the module: its names are bound; "*" is not one of them.
LoadCached ==
  /\ AtLoad
  /\ ~removed
  /\ cache[stmt.mod] = "ok"
  /\ \/ stmt.star /\ ~top.expanded /\ Raise
     \/ /\ ~(stmt.star /\ ~top.expanded)
        /\ replaceTop([top EXCEPT !.i = @ + 1])
        /\ UNCHANGED status
  /\ UNCHANGED <<program, cache, expanding, inits>>

\* Mutant of LoadRefused: a module that is being loaded passes for loaded.
LoadRefusedLate ==
  /\ AtLoad
  /\ ~removed
  /\ cache[stmt.mod] \in {"err", "loading"}
  /\ \/ cache[stmt.mod] = "err" /\ Raise
     \/ /\ cache[stmt.mod] = "loading"
        /\ replaceTop([top EXCEPT !.i = @ + 1])
        /\ UNCHANGED status
  /\ UNCHANGED <<program, cache, expanding, inits>>

\* load() returns the cached error, or finds the module being loaded: a cycle.
LoadRefused ==
  /\ AtLoad
  /\ ~removed
  /\ cache[stmt.mod] \in {"err", "loading"}
  /\ Raise
  /\ UNCHANGED <<program, cache, expanding, inits>>

\* load() marks the module as being loaded and executes it.  That a module is missing
\* is remembered of a flat name, and not of a relative path or an OCI target.
LoadModule ==
  /\ AtLoad
  /\ ~removed
  /\ cache[stmt.mod] = "absent"
  /\ \/ /\ kind[stmt.mod] = "missing"
        /\ cache' = [cache EXCEPT ![stmt.mod] = "err"] \/ UNCHANGED cache
        /\ Raise
        /\ UNCHANGED <<expanding, inits>>
     \/ /\ kind[stmt.mod] # "missing"
        /\ cache' = [cache EXCEPT ![stmt.mod] = "loading"]
        /\ call(top, stmt.mod, "load")
        /\ inits' = [inits EXCEPT ![stmt.mod] = @ + 1]
        /\ UNCHANGED status
  /\ UNCHANGED program

AtEnd == /\ Running
         /\ kind[top.file] # "unparsable"
         /\ top.i > Len(loads[top.file])

RunFails ==
  /\ AtEnd
  /\ kind[top.file] = "fails"
  /\ Raise
  /\ UNCHANGED <<program, cache, expanding, inits>>

\* Mutant of Return: load() clears its mark and forgets the module.
ReturnUncached ==
  /\ AtEnd
  /\ kind[top.file] # "fails"
  /\ stack' = Tail(stack)
  /\ cache' = IF top.how = "load" THEN [cache EXCEPT ![top.file] = "absent"] ELSE cache
  /\ status' = IF top.how = "script" THEN "ok" ELSE status
  /\ UNCHANGED <<program, expanding, inits>>

\* The file has run: load() caches its frozen globals, getModuleExports hands
\* their names to the expansion it was called for.
Return ==
  /\ AtEnd
  /\ kind[top.file] # "fails"
  /\ stack' = Tail(stack)
  /\ cache' = IF top.how = "load" THEN [cache EXCEPT ![top.file] = "ok"] ELSE cache
  /\ status' = IF top.how = "script" THEN "ok" ELSE status
  /\ UNCHANGED <<program, expanding, inits>>

\* Mutant of Unwind: load() returns an error without caching it.
UnwindUncached ==
  /\ status = "failing"
  /\ stack # <<>>
  /\ stack' = Tail(stack)
  /\ expanding' = IF top.stage = "expand" THEN expanding \ {top.file} ELSE expanding
  /\ status' = IF Tail(stack) = <<>> THEN "error" ELSE status
  /\ UNCHANGED <<program, cache, inits>>

\* A frame returns the error it was given: load() caches it, and the deferred
\* delete of ResolveStarImports ends the expansion.
Unwind ==
  /\ status = "failing"
  /\ stack # <<>>
  /\ stack' = Tail(stack)
  /\ cache' = IF top.how = "load" THEN [cache EXCEPT ![top.file] = "err"] ELSE cache
  /\ expanding' = IF top.stage = "expand" THEN expanding \ {top.file} ELSE expanding
  /\ status' = IF Tail(stack) = <<>> THEN "error" ELSE status
  /\ UNCHANGED <<program, inits>>

Next == \/ Scan \/ Expanded
        \/ CompileError \/ SkipRemoved \/ LoadCached \/ LoadRefused \/ LoadModule
        \/ RunFails \/ Return
        \/ Unwind

Spec == Init /\ [][Next]_vars

\* The code is sequential: it goes on until it returns.
FairSpec == Spec /\ WF_vars(Next)

--------------------------------------------------------------------------------
(* Properties *)

\* What a file loads if it is executed.
needs(f) == IF kind[f] \in {"unparsable", "missing"} THEN {}
            ELSE {loads[f][j].mod : j \in DOMAIN loads[f]}

\* The modules the script loads, directly or through others.
needed == {m \in Modules :
             \A S \in SUBSET Modules :
               needs(Script) \cup UNION {needs(f) : f \in S} \subseteq S => m \in S}

cyclic == \E S \in SUBSET needed : S # {} /\ \A f \in S : needs(f) \cap S # {}

sound == \A f \in needed \cup {Script} : kind[f] \in {"ok", "empty"}

\* A script runs to its end exactly when all it needs is sound and without a
\* load cycle, however cycles run through plain and star imports, and although
\* star imports execute modules behind the cache's back.
OutcomeExact ==
  /\ status = "ok" => sound /\ ~cyclic
  /\ status = "error" => ~sound \/ cyclic

\* Whoever loads a module gets the globals of its one execution by load().
LoadedOnce == \A m \in Modules : inits[m] <= 1

\* Neither a mark for a load in progress nor one for an expansion survives the
\* calls that set it, whichever way they return, to be taken for a cycle later.
Settled ==
  /\ \A m \in Modules : cache[m] = "loading" =>
       \E k \in DOMAIN stack : stack[k].how = "load" /\ stack[k].file = m
  /\ \A f \in expanding :
       \E k \in DOMAIN stack : stack[k].stage = "expand" /\ stack[k].file = f

\* Every execution ends, load cycles and repeated scans notwithstanding.
Terminates == <>(status \in {"ok", "error"})

--------------------------------------------------------------------------------
(* The inductive invariant behind the properties above. *)

\* Frame k: it is there because the script needs its file, only the outermost is
\* the script's own, a file that was not expanded is wrong or on the stack
\* already, and the next inner file is one it needs.
frameInv(k) ==
  LET f == stack[k] IN
  /\ f.file \in needed \cup {Script}
  /\ f.file = Script <=> k = Len(stack)
  /\ f.how = "script" <=> k = Len(stack)
  /\ kind[f.file] # "missing"
  /\ IF f.stage = "expand" THEN f.expanded /\ f.i <= Len(loads[f.file]) ELSE f.i > 0
  /\ f.expanded => kind[f.file] # "unparsable"
  /\ ~f.expanded => \/ kind[f.file] = "unparsable"
                    \/ \E l \in k + 1 .. Len(stack) : stack[l].file = f.file
  /\ k > 1 => stack[k - 1].file \in needs(f.file)

\* The stack is a path through the files from the script to the one at work.
StackInv == /\ stack = <<>> <=> status \in {"ok", "error"}
            /\ \A k \in DOMAIN stack : frameInv(k)

\* load() has executed what is in its cache once, and nothing else.
CountInv == \A m \in Modules : /\ inits[m] <= 1
                               /\ cache[m] = "absent" => inits[m] = 0

\* An error is cached or returned only when there is something wrong.
ErrorInv == /\ status \in {"failing", "error"} => ~sound \/ cyclic
            /\ status \in {"running", "ok"} => \A m \in Modules : cache[m] # "err"

\* Modules that may have run to their end: sound, with all they need, acyclic.
complete(D) ==
  /\ \A f \in D : kind[f] \in {"ok", "empty"} /\ needs(f) \subseteq D
  /\ \A S \in SUBSET D : S # {} => \E f \in S : needs(f) \cap S = {}

\* What frame k has got through: its loads so far, and the star imports it has
\* rewritten, except one that is being scanned for it.
passed(k, D) ==
  LET f == stack[k]
      stmts == loads[f.file] IN
  /\ f.stage = "run" => \A j \in DOMAIN stmts : j < f.i \/ (f.expanded /\ stmts[j].star)
                                               => stmts[j].mod \in D
  /\ f.stage = "expand" =>
       \A j \in DOMAIN stmts :
         j > f.i /\ stmts[j].star =>
           \/ stmts[j].mod \in D
           \/ k > 1 /\ stack[k - 1].how = "scan" /\ stack[k - 1].file = stmts[j].mod

\* All that was loaded or scanned successfully ran to its end.
ProgressInv ==
  status \in {"running", "ok"} =>
    \E D \in SUBSET Modules :
      /\ complete(D)
      /\ \A m \in Modules : cache[m] = "ok" => m \in D
      /\ \A k \in DOMAIN stack : passed(k, D)
      /\ status = "ok" => kind[Script] \in {"ok", "empty"} /\ needs(Script) \subseteq D

\* Together: what every reachable state of an execution satisfies.
IInv == /\ TypeOK
        /\ Settled
        /\ StackInv
        /\ CountInv
        /\ ErrorInv
        /\ ProgressInv
================================================================================
