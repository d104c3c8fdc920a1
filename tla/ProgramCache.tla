------------------------------ MODULE ProgramCache ------------------------------
(***************************************************************************)
(* The runtime shared by concurrent requests: the bytecode cache, filled   *)
(* between two critical sections of its lock, and the memo of the files    *)
(* without star imports.  A request expands the star imports of its script *)
(* (reading and executing the library for its names), compiles and         *)
(* executes the result, and in it loads the library, read again.           *)
(***************************************************************************)
EXTENDS ScriptText

CONSTANTS Requests,   \* concurrent requests
          Files,      \* names of script files; inline scripts share one
          Lib,        \* the library's file name
          Scripts,    \* texts of scripts
          Libraries   \* texts the library file may have

ASSUME TextsOK == /\ Scripts \subseteq Text
                  /\ Libraries \subseteq {t \in Text : t.loads = {}}

VARIABLES programs,  \* Runtime.cache: the entries, a key at most once
          noStar,    \* Runtime.noStarImports
          library,   \* the library file's text
          pc,        \* pc[r]: the next step of request r
          phase,     \* phase[r]: the execution under way: scan, script or load
          job,       \* job[r]: the script r is to run, or None
          cur,       \* cur[r]: the text being looked up, compiled and executed
          prog,      \* prog[r]: the program getOrCompile returns
          main,      \* main[r]: the script's program while its load() runs
          scanned,   \* scanned[r], loaded[r]: what the library read as
          loaded,
          answer     \* answer[r]: r's last outcome

shared == <<programs, noStar, library>>
vars == <<shared, pc, phase, job, cur, prog, main, scanned, loaded, answer>>

NoAnswer == [kind |-> "none", prog |-> None, lib |-> None]
Programs == [text : Text, file : Files \cup {Lib}]

ASSUME NoneIsNew == None \notin Text /\ None \notin Programs

TypeOK ==
  /\ programs \subseteq [key : Text \X (Files \cup {Lib}), prog : Programs]
  /\ noStar \subseteq Text \X (Files \cup {Lib})
  /\ library \in Libraries
  /\ pc \in [Requests -> {"idle", "star", "lookup", "store", "run"}]
  /\ phase \in [Requests -> {"scan", "script", "load"}]
  /\ job \in [Requests -> Programs \cup {None}]
  /\ cur \in [Requests -> Text \cup {None}]
  /\ prog \in [Requests -> Programs \cup {None}]
  /\ main \in [Requests -> Programs \cup {None}]
  /\ scanned \in [Requests -> Libraries \cup {None}]
  /\ loaded \in [Requests -> Libraries \cup {None}]
  /\ DOMAIN answer = Requests

Init ==
  /\ programs = {}
  /\ noStar = {}
  /\ library \in Libraries
  /\ pc = [r \in Requests |-> "idle"]
  /\ phase = [r \in Requests |-> "script"]
  /\ job = [r \in Requests |-> None]
  /\ cur = [r \in Requests |-> None]
  /\ prog = [r \in Requests |-> None]
  /\ main = [r \in Requests |-> None]
  /\ scanned = [r \in Requests |-> None]
  /\ loaded = [r \in Requests |-> None]
  /\ answer = [r \in Requests |-> NoAnswer]

--------------------------------------------------------------------------------
(* Keys *)

\* Mutant of key: without the file name.
keyOfText(t, f) == <<t, Lib>>

\* Mutant of starScanKey: without the text.
keyOfFile(t, f) == <<library, f>>

\* The programs are keyed by a digest of the text and the file name,
key(t, f) == <<t, f>>

\* and so is the memo of star imports.
starScanKey(t, f) == <<t, f>>

\* The name under which r's current text is compiled.
fileOf(r) == IF phase[r] = "script" THEN job[r].file ELSE Lib

--------------------------------------------------------------------------------
(* Steps of a request *)

\* A request arrives with the script it is to run.
Arrive(r, f, t) ==
  /\ pc[r] = "idle"
  /\ pc' = [pc EXCEPT ![r] = "star"]
  /\ job' = [job EXCEPT ![r] = Program(t, f)]
  /\ answer' = [answer EXCEPT ![r] = NoAnswer]
  /\ UNCHANGED <<shared, phase, cur, prog, main, scanned, loaded>>

\* r goes on to look up text t in an execution of the given kind.
compileNext(r, ph, t) ==
  /\ pc' = [pc EXCEPT ![r] = "lookup"]
  /\ phase' = [phase EXCEPT ![r] = ph]
  /\ cur' = [cur EXCEPT ![r] = t]
  /\ UNCHANGED <<job, prog, main, answer>>

\* r is answered, and its loader and threads are gone.
finish(r, a) ==
  /\ pc' = [pc EXCEPT ![r] = "idle"]
  /\ phase' = [phase EXCEPT ![r] = "script"]
  /\ job' = [job EXCEPT ![r] = None]
  /\ cur' = [cur EXCEPT ![r] = None]
  /\ prog' = [prog EXCEPT ![r] = None]
  /\ main' = [main EXCEPT ![r] = None]
  /\ scanned' = [scanned EXCEPT ![r] = None]
  /\ loaded' = [loaded EXCEPT ![r] = None]
  /\ answer' = [answer EXCEPT ![r] = a]

\* The memo entries a scan for star imports makes: those of a file that parses
\* and has none.
marks(t, f) == IF t.parses /\ ~hasStar(t) THEN {starScanKey(t, f)} ELSE {}

\* ResolveStarImports of the script finds no star import, by the memo or by
\* parsing the text, or cannot parse it.
NoStarImports(r) ==
  /\ pc[r] = "star"
  /\ starScanKey(job[r].text, job[r].file) \in noStar \/ ~hasStar(job[r].text)
  /\ noStar' = noStar \cup marks(job[r].text, job[r].file)
  /\ compileNext(r, "script", job[r].text)
  /\ UNCHANGED <<programs, library, scanned, loaded>>

\* It finds one: getModuleExports reads the library, and scans it in turn.
ScanLibrary(r) ==
  /\ pc[r] = "star"
  /\ starScanKey(job[r].text, job[r].file) \notin noStar /\ hasStar(job[r].text)
  /\ scanned' = [scanned EXCEPT ![r] = library]
  /\ noStar' = noStar \cup marks(library, Lib)
  /\ compileNext(r, "scan", library)
  /\ UNCHANGED <<programs, library, loaded>>

\* getOrCompile under the read lock finds a program.
Hit(r) ==
  /\ pc[r] = "lookup"
  /\ \E e \in programs :
       /\ e.key = key(cur[r], fileOf(r))
       /\ prog' = [prog EXCEPT ![r] = e.prog]
  /\ pc' = [pc EXCEPT ![r] = "run"]
  /\ UNCHANGED <<shared, phase, job, cur, main, scanned, loaded, answer>>

\* It finds none, and compiles the text, holding no lock.
Miss(r) ==
  /\ pc[r] = "lookup"
  /\ \A e \in programs : e.key # key(cur[r], fileOf(r))
  /\ compiles(cur[r])
  /\ prog' = [prog EXCEPT ![r] = Program(cur[r], fileOf(r))]
  /\ pc' = [pc EXCEPT ![r] = "store"]
  /\ UNCHANGED <<shared, phase, job, cur, main, scanned, loaded, answer>>

\* The text does not compile: nothing is cached and the request fails.
CompileError(r) ==
  /\ pc[r] = "lookup"
  /\ \A e \in programs : e.key # key(cur[r], fileOf(r))
  /\ ~compiles(cur[r])
  /\ finish(r, failed)
  /\ UNCHANGED shared

\* The compiled program is stored under the write lock, over the one another
\* request may have stored since the lookup.
StoreProgram(r) ==
  /\ pc[r] = "store"
  /\ LET k == key(cur[r], fileOf(r)) IN
       programs' = {e \in programs : e.key # k} \cup {[key |-> k, prog |-> prog[r]]}
  /\ pc' = [pc EXCEPT ![r] = "run"]
  /\ UNCHANGED <<noStar, library, phase, job, cur, prog, main, scanned, loaded, answer>>

\* The library, executed for the names it exports, gives the script's text.
RunScan(r) ==
  /\ pc[r] = "run" /\ phase[r] = "scan"
  /\ IF prog[r].text.halts
     THEN /\ compileNext(r, "script", expand(job[r].text, prog[r].text.exports))
          /\ UNCHANGED <<scanned, loaded>>
     ELSE finish(r, failed)
  /\ UNCHANGED shared

\* The script is executed: it first loads the library, reading it again.
RunScriptLoads(r) ==
  /\ pc[r] = "run" /\ phase[r] = "script"
  /\ prog[r].text.loads # {}
  /\ loaded' = [loaded EXCEPT ![r] = library]
  /\ noStar' = noStar \cup marks(library, Lib)
  /\ pc' = [pc EXCEPT ![r] = "lookup"]
  /\ phase' = [phase EXCEPT ![r] = "load"]
  /\ cur' = [cur EXCEPT ![r] = library]
  /\ main' = [main EXCEPT ![r] = prog[r]]
  /\ UNCHANGED <<programs, library, job, prog, scanned, answer>>

\* A script that loads nothing.
RunScript(r) ==
  /\ pc[r] = "run" /\ phase[r] = "script"
  /\ prog[r].text.loads = {}
  /\ finish(r, IF prog[r].text.halts THEN finished(prog[r], None) ELSE failed)
  /\ UNCHANGED shared

\* load() has executed the library: the script gets the names it asked for, or
\* fails for want of one, and goes on to its end.
RunLoad(r) ==
  /\ pc[r] = "run" /\ phase[r] = "load"
  /\ finish(r, IF /\ prog[r].text.halts
                  /\ main[r].text.loads \subseteq prog[r].text.exports
                  /\ main[r].text.halts
               THEN finished(main[r], prog[r].text) ELSE failed)
  /\ UNCHANGED shared

Step(r) == \/ NoStarImports(r) \/ ScanLibrary(r)
           \/ Hit(r) \/ Miss(r) \/ CompileError(r) \/ StoreProgram(r)
           \/ RunScan(r) \/ RunScriptLoads(r) \/ RunScript(r) \/ RunLoad(r)

\* The library file changes (an update of the ConfigMap it is mounted from).
WriteLibrary(t) ==
  /\ t # library
  /\ library' = t
  /\ UNCHANGED <<programs, noStar, pc, phase, job, cur, prog, main, scanned, loaded, answer>>

Next ==
  \/ \E r \in Requests : \/ \E f \in Files, t \in Scripts : Arrive(r, f, t)
                         \/ Step(r)
  \/ \E t \in Libraries : WriteLibrary(t)

Spec == Init /\ [][Next]_vars

--------------------------------------------------------------------------------
(* Properties *)

\* Every entry of the cache is the program of the text and the file name its key
\* stands for, and compiles: no lookup, however late, and no store, however
\* raced, gives a request another file's program.
CacheExact == \A e \in programs : /\ e.key = key(e.prog.text, e.prog.file)
                                  /\ compiles(e.prog.text)

\* What the steps of a request know of each other.
RequestInv(r) ==
  LET t == job[r].text
      e == expanded(t, scanned[r])
  IN
  /\ pc[r] = "idle" <=> job[r] = None
  /\ pc[r] # "idle" => job[r].file \in Files /\ t \in Text
  /\ pc[r] \in {"idle", "star"} => /\ phase[r] = "script"
                                   /\ scanned[r] = None
  /\ phase[r] # "load" => loaded[r] = None
  /\ phase[r] = "scan" => /\ hasStar(t)
                          /\ scanned[r] \in Libraries
                          /\ cur[r] = scanned[r]
  /\ pc[r] \in {"lookup", "store", "run"} /\ phase[r] # "scan" /\ hasStar(t) =>
       scanned[r] \in Libraries /\ compiles(scanned[r]) /\ scanned[r].halts
  /\ pc[r] \in {"lookup", "store", "run"} /\ phase[r] = "script" => cur[r] = e
  /\ phase[r] = "load" => /\ loaded[r] \in Libraries
                          /\ cur[r] = loaded[r]
                          /\ compiles(e) /\ e.loads # {}
                          /\ main[r] = Program(e, job[r].file)
  /\ pc[r] \in {"store", "run"} => /\ compiles(cur[r])
                                   /\ prog[r] = Program(cur[r], fileOf(r))

\* The memo names files without star imports only.
MemoExact == \A k \in noStar : ~hasStar(k[1])

\* The inductive invariant.
IInv == TypeOK /\ CacheExact /\ MemoExact /\ \A r \in Requests : RequestInv(r)

Evaluation == INSTANCE ScriptEvaluation

\* The caches cannot be seen from outside: a request gets what compiling and
\* executing its script afresh gives, with the library as it read at two
\* moments of the request.
ImplementsEvaluation == Evaluation!EvaluationSpec
================================================================================
