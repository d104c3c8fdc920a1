---------------------------- MODULE ProgramCacheProof ----------------------------
(* The caches of the runtime cannot be seen: proofs for ProgramCache. *)
EXTENDS ProgramCache, TLAPS

\* A rewritten text is a text, and parses when the original does.
LEMMA ExpandOK ==
  ASSUME NEW t \in Text, NEW x \in SUBSET Names
  PROVE  /\ expand(t, x) \in Text
         /\ expand(t, x).parses = t.parses
BY DEF expand, Text

\* The text a request compiles is a text.
LEMMA ExpandedOK ==
  ASSUME NEW t \in Text, NEW s \in Libraries \cup {None}, hasStar(t) => s \in Libraries
  PROVE  expanded(t, s) \in Text
<1>1. Libraries \subseteq Text
  BY TextsOK
<1>2. \A u \in Text : u.exports \in SUBSET Names
  BY DEF Text
<1> QED
  BY <1>1, <1>2, ExpandOK DEF expanded

\* A program of a typed text and file is a program.
LEMMA ProgramOK ==
  ASSUME NEW t \in Text, NEW f \in Files \cup {Lib}
  PROVE  /\ Program(t, f) \in Programs
         /\ Program(t, f).text = t
         /\ Program(t, f).file = f
         /\ Program(t, f) # None
BY NoneIsNew DEF Program, Programs

\* The memo entries of a scan are typed, and of files without star imports.
LEMMA MarksOK ==
  ASSUME NEW t \in Text, NEW f \in Files \cup {Lib}
  PROVE  /\ marks(t, f) \subseteq Text \X (Files \cup {Lib})
         /\ \A k \in marks(t, f) : ~hasStar(k[1])
BY DEF marks, starScanKey

\* Libraries are texts, and they load nothing.
LEMMA LibrariesOK == /\ Libraries \subseteq Text
                     /\ \A t \in Libraries : t.loads = {} /\ ~hasStar(t)
BY TextsOK DEF hasStar

\* A request that no step touches keeps its invariant.
LEMMA Untouched ==
  ASSUME IInv, NEW q \in Requests,
         pc'[q] = pc[q], phase'[q] = phase[q], job'[q] = job[q], cur'[q] = cur[q],
         prog'[q] = prog[q], main'[q] = main[q], scanned'[q] = scanned[q],
         loaded'[q] = loaded[q]
  PROVE  RequestInv(q)'
BY DEF IInv, RequestInv, fileOf

\* The invariant holds at first.
LEMMA InitOK == Init => IInv
BY LibrariesOK DEF Init, IInv, TypeOK, CacheExact, MemoExact, RequestInv

\* What a request knows when it is at work.
LEMMA AtWork ==
  ASSUME IInv, NEW r \in Requests, pc[r] # "idle"
  PROVE  /\ job[r] \in Programs /\ job[r].text \in Text
         /\ job[r].file \in Files /\ fileOf(r) \in Files \cup {Lib}
BY NoneIsNew DEF IInv, RequestInv, TypeOK, Programs, fileOf

\* What a request looks up, compiles and stores is a text.
LEMMA CurrentText ==
  ASSUME IInv, NEW r \in Requests, pc[r] \in {"lookup", "store", "run"}
  PROVE  cur[r] \in Text
<1>1. CASE phase[r] = "script"
  <2>1. /\ cur[r] = expanded(job[r].text, scanned[r])
        /\ scanned[r] \in Libraries \cup {None}
        /\ hasStar(job[r].text) => scanned[r] \in Libraries
    BY <1>1 DEF IInv, RequestInv, TypeOK
  <2> QED
    BY <2>1, AtWork, ExpandedOK
<1>2. CASE phase[r] # "script"
  BY <1>2, LibrariesOK DEF IInv, RequestInv, TypeOK
<1> QED
  BY <1>1, <1>2

\* The arrival of a request.
LEMMA ArriveOK ==
  ASSUME IInv, NEW r \in Requests, NEW f \in Files, NEW t \in Scripts, Arrive(r, f, t)
  PROVE  IInv'
<1> USE DEF IInv
<1>1. t \in Text
  BY TextsOK
<1>2. TypeOK'
  BY <1>1, ProgramOK DEF Arrive, TypeOK, shared
<1>3. CacheExact' /\ MemoExact'
  BY DEF Arrive, shared, CacheExact, MemoExact, key
<1>4. RequestInv(r)'
  BY <1>1, ProgramOK DEF Arrive, RequestInv, TypeOK
<1>5. ASSUME NEW q \in Requests, q # r PROVE RequestInv(q)'
  BY <1>5, Untouched DEF Arrive, TypeOK
<1> QED
  BY <1>2, <1>3, <1>4, <1>5

\* A request that finishes leaves nothing behind.
LEMMA FinishOK ==
  ASSUME IInv, NEW r \in Requests, NEW a, finish(r, a), UNCHANGED shared
  PROVE  IInv'
<1> USE DEF IInv
<1>1. TypeOK'
  BY DEF finish, TypeOK, shared
<1>2. CacheExact' /\ MemoExact'
  BY DEF shared, CacheExact, MemoExact, key
<1>3. RequestInv(r)'
  BY DEF finish, RequestInv, TypeOK
<1>4. ASSUME NEW q \in Requests, q # r PROVE RequestInv(q)'
  BY <1>4, Untouched DEF finish, TypeOK
<1> QED
  BY <1>1, <1>2, <1>3, <1>4

\* The scan for star imports, with or without one.
LEMMA NoStarImportsOK ==
  ASSUME IInv, NEW r \in Requests, NoStarImports(r)
  PROVE  IInv'
<1> USE DEF IInv
<1>0. job[r].text \in Text /\ job[r].file \in Files
  BY AtWork DEF NoStarImports
<1>a. ~hasStar(job[r].text)
  BY <1>0 DEF NoStarImports, MemoExact, starScanKey
<1>1. TypeOK'
  BY <1>0, MarksOK DEF NoStarImports, compileNext, TypeOK
<1>2. CacheExact' /\ MemoExact'
  BY <1>0, MarksOK DEF NoStarImports, CacheExact, MemoExact, key
<1>3. RequestInv(r)'
  BY <1>0, <1>a DEF NoStarImports, compileNext, RequestInv, TypeOK, expanded
<1>4. ASSUME NEW q \in Requests, q # r PROVE RequestInv(q)'
  BY <1>4, Untouched DEF NoStarImports, compileNext, TypeOK
<1> QED
  BY <1>1, <1>2, <1>3, <1>4

LEMMA ScanLibraryOK ==
  ASSUME IInv, NEW r \in Requests, ScanLibrary(r)
  PROVE  IInv'
<1> USE DEF IInv
<1>0. job[r].text \in Text /\ job[r].file \in Files
  BY AtWork DEF ScanLibrary
<1>1. library \in Text /\ library \in Libraries
  BY LibrariesOK DEF TypeOK
<1>2. TypeOK'
  BY <1>1, MarksOK DEF ScanLibrary, compileNext, TypeOK
<1>3. CacheExact' /\ MemoExact'
  BY <1>1, MarksOK DEF ScanLibrary, CacheExact, MemoExact, key
<1>4. RequestInv(r)'
  BY <1>0, <1>1 DEF ScanLibrary, compileNext, RequestInv, TypeOK
<1>5. ASSUME NEW q \in Requests, q # r PROVE RequestInv(q)'
  BY <1>5, Untouched DEF ScanLibrary, compileNext, TypeOK
<1> QED
  BY <1>2, <1>3, <1>4, <1>5

\* getOrCompile: a hit, a miss and the store after it.
LEMMA HitOK ==
  ASSUME IInv, NEW r \in Requests, Hit(r)
  PROVE  IInv'
<1> USE DEF IInv
<1>1. PICK e \in programs : /\ e.key = key(cur[r], fileOf(r))
                            /\ prog' = [prog EXCEPT ![r] = e.prog]
  BY DEF Hit
<1>2. /\ e.prog \in Programs /\ e.prog.text = cur[r] /\ e.prog.file = fileOf(r)
      /\ compiles(cur[r])
  BY <1>1 DEF CacheExact, key, TypeOK
<1>3. e.prog = Program(cur[r], fileOf(r))
  BY <1>2 DEF Program, Programs
<1>4. TypeOK'
  BY <1>1, <1>2 DEF Hit, TypeOK, shared
<1>5. CacheExact' /\ MemoExact'
  BY DEF Hit, shared, CacheExact, MemoExact, key
<1>6. RequestInv(r)'
  BY <1>1, <1>2, <1>3 DEF Hit, RequestInv, TypeOK, fileOf
<1>7. ASSUME NEW q \in Requests, q # r PROVE RequestInv(q)'
  BY <1>1, <1>7, Untouched DEF Hit, TypeOK
<1> QED
  BY <1>4, <1>5, <1>6, <1>7

LEMMA MissOK ==
  ASSUME IInv, NEW r \in Requests, Miss(r)
  PROVE  IInv'
<1> USE DEF IInv
<1>1. cur[r] \in Text /\ fileOf(r) \in Files \cup {Lib}
  BY AtWork, CurrentText DEF Miss
<1>2. TypeOK'
  BY <1>1, ProgramOK DEF Miss, TypeOK, shared
<1>3. CacheExact' /\ MemoExact'
  BY DEF Miss, shared, CacheExact, MemoExact, key
<1>4. RequestInv(r)'
  BY <1>1 DEF Miss, RequestInv, TypeOK, fileOf
<1>5. ASSUME NEW q \in Requests, q # r PROVE RequestInv(q)'
  BY <1>5, Untouched DEF Miss, TypeOK
<1> QED
  BY <1>2, <1>3, <1>4, <1>5

LEMMA StoreProgramOK ==
  ASSUME IInv, NEW r \in Requests, StoreProgram(r)
  PROVE  IInv'
<1> USE DEF IInv
<1> DEFINE entry == [key |-> key(cur[r], fileOf(r)), prog |-> prog[r]]
<1>1. /\ prog[r] \in Programs /\ prog[r].text = cur[r] /\ prog[r].file = fileOf(r)
      /\ compiles(cur[r]) /\ cur[r] \in Text /\ fileOf(r) \in Files \cup {Lib}
  <2>1. pc[r] = "store"
    BY DEF StoreProgram
  <2>2. cur[r] \in Text
    BY <2>1, CurrentText
  <2> QED
    BY <2>1, <2>2, AtWork, ProgramOK DEF RequestInv
<1>2. /\ entry \in [key : Text \X (Files \cup {Lib}), prog : Programs]
      /\ entry.key = key(entry.prog.text, entry.prog.file)
      /\ compiles(entry.prog.text)
  BY <1>1 DEF key
<1>3. \A e \in programs' : e \in programs \/ e = entry
  BY DEF StoreProgram
<1>4. TypeOK'
  BY <1>2, <1>3 DEF StoreProgram, TypeOK
<1>5. CacheExact' /\ MemoExact'
  <2>1. MemoExact'
    BY DEF StoreProgram, MemoExact
  <2>2. \A e \in programs' : /\ e.key = key(e.prog.text, e.prog.file)
                             /\ compiles(e.prog.text)
    BY <1>2, <1>3 DEF CacheExact
  <2> QED
    BY <2>1, <2>2 DEF CacheExact, key
<1>6. RequestInv(r)'
  BY <1>1 DEF StoreProgram, RequestInv, TypeOK, fileOf
<1>7. ASSUME NEW q \in Requests, q # r PROVE RequestInv(q)'
  BY <1>7, Untouched DEF StoreProgram, TypeOK
<1> QED
  BY <1>4, <1>5, <1>6, <1>7

\* The execution of the library for its names, and of the script up to its load.
LEMMA RunScanOK ==
  ASSUME IInv, NEW r \in Requests, RunScan(r)
  PROVE  IInv'
<1> USE DEF IInv
<1>1. CASE ~prog[r].text.halts
  BY <1>1, FinishOK DEF RunScan
<1>2. CASE prog[r].text.halts
  <2>1. /\ pc[r] = "run" /\ phase[r] = "scan" /\ scanned[r] \in Libraries
        /\ hasStar(job[r].text) /\ compiles(scanned[r])
        /\ prog[r].text = scanned[r]
    BY LibrariesOK, ProgramOK, AtWork DEF RunScan, RequestInv
  <2>2. job[r].text \in Text
    BY <2>1, AtWork
  <2> DEFINE e == expand(job[r].text, scanned[r].exports)
  <2>3. e = expanded(job[r].text, scanned[r]) /\ e \in Text
    BY <2>1, <2>2, ExpandedOK DEF expanded
  <2>4. compileNext(r, "script", e) /\ UNCHANGED <<shared, scanned, loaded>>
    BY <1>2, <2>1 DEF RunScan
  <2> HIDE DEF e
  <2>5. TypeOK'
    BY <2>3, <2>4 DEF compileNext, TypeOK, shared
  <2>6. CacheExact' /\ MemoExact'
    BY <2>4 DEF shared, CacheExact, MemoExact, key
  <2>7. RequestInv(r)'
    BY <1>2, <2>1, <2>2, <2>3, <2>4 DEF compileNext, RequestInv, TypeOK
  <2>8. ASSUME NEW q \in Requests, q # r PROVE RequestInv(q)'
    BY <2>4, <2>8, Untouched DEF compileNext, TypeOK
  <2> QED
    BY <2>5, <2>6, <2>7, <2>8
<1> QED
  BY <1>1, <1>2

LEMMA RunScriptLoadsOK ==
  ASSUME IInv, NEW r \in Requests, RunScriptLoads(r)
  PROVE  IInv'
<1> USE DEF IInv
<1> DEFINE e == expanded(job[r].text, scanned[r])
<1>1. /\ pc[r] = "run" /\ phase[r] = "script" /\ cur[r] = e
      /\ job[r].text \in Text /\ job[r].file \in Files
      /\ hasStar(job[r].text) => scanned[r] \in Libraries
  BY AtWork DEF RunScriptLoads, RequestInv
<1>2. e \in Text
  BY <1>1, ExpandedOK DEF TypeOK
<1>3. prog[r] = Program(e, job[r].file) /\ compiles(e) /\ e.loads # {} /\ prog[r] \in Programs
  BY <1>1, <1>2, ProgramOK DEF RunScriptLoads, RequestInv, fileOf
<1>4. library \in Text /\ library \in Libraries
  BY LibrariesOK DEF TypeOK
<1>5. TypeOK'
  BY <1>3, <1>4, MarksOK DEF RunScriptLoads, TypeOK
<1>6. CacheExact' /\ MemoExact'
  BY <1>4, MarksOK DEF RunScriptLoads, CacheExact, MemoExact, key
<1>7. RequestInv(r)'
  BY <1>1, <1>3, <1>4 DEF RunScriptLoads, RequestInv, TypeOK
<1>8. ASSUME NEW q \in Requests, q # r PROVE RequestInv(q)'
  BY <1>8, Untouched DEF RunScriptLoads, TypeOK
<1> QED
  BY <1>5, <1>6, <1>7, <1>8

\* Every step keeps the invariant.
LEMMA StepOK == IInv /\ [Next]_vars => IInv'
<1> SUFFICES ASSUME IInv, [Next]_vars PROVE IInv'
  OBVIOUS
<1>1. ASSUME NEW r \in Requests, Step(r) PROVE IInv'
  BY <1>1, NoStarImportsOK, ScanLibraryOK, HitOK, MissOK, StoreProgramOK, RunScanOK,
     RunScriptLoadsOK, FinishOK DEF Step, CompileError, RunScript, RunLoad
<1>2. ASSUME NEW t \in Libraries, WriteLibrary(t) PROVE IInv'
  <2>1. \A q \in Requests : RequestInv(q)'
    BY <1>2, Untouched DEF WriteLibrary
  <2> QED
    BY <1>2, <2>1 DEF WriteLibrary, IInv, TypeOK, CacheExact, MemoExact, key
<1>3. CASE UNCHANGED vars
  <2>1. \A q \in Requests : RequestInv(q)'
    BY <1>3, Untouched DEF vars
  <2> QED
    BY <1>3, <2>1 DEF vars, shared, IInv, TypeOK, CacheExact, MemoExact, key
<1> QED
  BY <1>1, <1>2, <1>3, ArriveOK DEF Next

\* At every moment the bytecode cache maps a key to the program of exactly the
\* text and file name it was made from (getOrCompile), and the star-import memo
\* names files without star imports only.
THEOREM Inductive == Spec => []IInv
BY InitOK, StepOK, PTL DEF Spec

\* Both specifications mean the same by a text and its evaluation.
LEMMA SameTexts ==
  ASSUME NEW t, NEW s
  PROVE  /\ Evaluation!hasStar(t) = hasStar(t)
         /\ Evaluation!expanded(t, s) = expanded(t, s)
         /\ Evaluation!ready(t, s) = ready(t, s)
BY DEF Evaluation!hasStar, hasStar, Evaluation!expanded, expanded, Evaluation!expand,
       expand, Evaluation!ready, ready, Evaluation!compiles, compiles

LEMMA SameEvaluation ==
  ASSUME NEW f, NEW t, NEW s, NEW l
  PROVE  Evaluation!Evaluate(f, t, s, l) = Evaluate(f, t, s, l)
BY SameTexts DEF Evaluation!Evaluate, Evaluate, Evaluation!compiles, compiles,
       Evaluation!finished, finished, Evaluation!failed, failed,
       Evaluation!Program, Program

\* What the evaluator answers, from what a request knows at its end.
LEMMA AnswerFailed ==
  ASSUME IInv, NEW r \in Requests, pc[r] # "idle",
         hasStar(job[r].text) => scanned[r] # None,
         \/ ~ready(job[r].text, scanned[r])
         \/ /\ expanded(job[r].text, scanned[r]).loads # {}
            /\ loaded[r] # None
            /\ ~(/\ compiles(loaded[r]) /\ loaded[r].halts
                 /\ expanded(job[r].text, scanned[r]).loads \subseteq loaded[r].exports)
         \/ /\ expanded(job[r].text, scanned[r]).loads # {} => loaded[r] # None
            /\ ~expanded(job[r].text, scanned[r]).halts,
         finish(r, failed), UNCHANGED shared
  PROVE  Evaluation!Answer(r)
<1>1. Evaluate(job[r].file, job[r].text, scanned[r], loaded[r]) = failed
  BY DEF Evaluate
<1>2. job[r] # None
  BY DEF IInv, RequestInv
<1>3. /\ Evaluation!hasStar(job[r].text) => scanned[r] # None
      /\ Evaluation!ready(job[r].text, scanned[r])
         /\ Evaluation!expanded(job[r].text, scanned[r]).loads # {} => loaded[r] # None
  BY SameTexts
<1>4. Evaluation!Evaluate(job[r].file, job[r].text, scanned[r], loaded[r]) = failed
  BY <1>1, SameEvaluation
<1> QED
  BY <1>2, <1>3, <1>4 DEF finish, shared, Evaluation!Answer

\* A request at its end is answered as the evaluator answers it.
LEMMA CompileErrorAnswers ==
  ASSUME IInv, NEW r \in Requests, CompileError(r)
  PROVE  Evaluation!Answer(r)
<1>1. pc[r] = "lookup" /\ ~compiles(cur[r])
  BY DEF CompileError
<1>2. hasStar(job[r].text) => scanned[r] # None
  BY <1>1, LibrariesOK, NoneIsNew DEF IInv, RequestInv, TypeOK
<1>3. phase[r] \in {"scan", "script", "load"}
  BY DEF IInv, TypeOK
<1>4. CASE phase[r] # "load"
  BY <1>1, <1>2, <1>3, <1>4, AnswerFailed DEF CompileError, IInv, RequestInv, ready
<1>5. CASE phase[r] = "load"
  BY <1>1, <1>2, <1>5, AnswerFailed, LibrariesOK, NoneIsNew
     DEF CompileError, IInv, RequestInv
<1> QED
  BY <1>4, <1>5

LEMMA RunScanAnswers ==
  ASSUME IInv, NEW r \in Requests, RunScan(r), ~prog[r].text.halts
  PROVE  Evaluation!Answer(r)
<1>1. /\ pc[r] = "run" /\ scanned[r] \in Libraries /\ hasStar(job[r].text)
      /\ prog[r].text = scanned[r]
  BY LibrariesOK, ProgramOK, AtWork DEF RunScan, IInv, RequestInv
<1> QED
  BY <1>1, AnswerFailed, LibrariesOK, NoneIsNew DEF RunScan, ready

\* What an executed script is.
LEMMA ScriptProgram ==
  ASSUME IInv, NEW r \in Requests, pc[r] = "run", phase[r] = "script"
  PROVE  LET e == expanded(job[r].text, scanned[r])
         IN  /\ prog[r] = Program(e, job[r].file) /\ prog[r].text = e
             /\ ready(job[r].text, scanned[r])
             /\ hasStar(job[r].text) => scanned[r] # None
<1>1. /\ cur[r] = expanded(job[r].text, scanned[r])
      /\ prog[r] = Program(cur[r], job[r].file)
      /\ compiles(cur[r])
      /\ hasStar(job[r].text) => /\ scanned[r] \in Libraries
                                 /\ compiles(scanned[r]) /\ scanned[r].halts
  BY DEF IInv, RequestInv, fileOf
<1> QED
  BY <1>1, LibrariesOK, NoneIsNew DEF ready, Program

LEMMA RunScriptAnswers ==
  ASSUME IInv, NEW r \in Requests, RunScript(r)
  PROVE  Evaluation!Answer(r)
<1> DEFINE e == expanded(job[r].text, scanned[r])
<1>1. /\ pc[r] = "run" /\ e.loads = {} /\ UNCHANGED shared
      /\ finish(r, IF e.halts THEN finished(prog[r], None) ELSE failed)
      /\ prog[r] = Program(e, job[r].file)
      /\ ready(job[r].text, scanned[r])
      /\ hasStar(job[r].text) => scanned[r] # None
  BY ScriptProgram DEF RunScript
<1>2. Evaluate(job[r].file, job[r].text, scanned[r], loaded[r])
        = IF e.halts THEN finished(prog[r], None) ELSE failed
  BY <1>1 DEF Evaluate
<1>3. job[r] # None
  BY <1>1 DEF IInv, RequestInv
<1>4. /\ Evaluation!hasStar(job[r].text) => scanned[r] # None
      /\ ~(Evaluation!expanded(job[r].text, scanned[r]).loads # {})
  BY <1>1, SameTexts
<1>5. Evaluation!Evaluate(job[r].file, job[r].text, scanned[r], loaded[r])
        = IF e.halts THEN finished(prog[r], None) ELSE failed
  BY <1>2, SameEvaluation
<1> QED
  BY <1>1, <1>3, <1>4, <1>5 DEF finish, shared, Evaluation!Answer

LEMMA RunLoadAnswers ==
  ASSUME IInv, NEW r \in Requests, RunLoad(r)
  PROVE  Evaluation!Answer(r)
<1> DEFINE e == expanded(job[r].text, scanned[r])
           l == loaded[r]
           out == IF l.halts /\ e.loads \subseteq l.exports /\ e.halts
                  THEN finished(Program(e, job[r].file), l) ELSE failed
<1>1. /\ pc[r] = "run" /\ phase[r] = "load" /\ l \in Libraries
      /\ cur[r] = l /\ compiles(l) /\ compiles(e) /\ e.loads # {}
      /\ main[r] = Program(e, job[r].file) /\ prog[r] = Program(l, Lib)
      /\ hasStar(job[r].text) => /\ scanned[r] \in Libraries
                                 /\ compiles(scanned[r]) /\ scanned[r].halts
  BY DEF RunLoad, IInv, RequestInv, fileOf
<1>2. prog[r].text = l /\ main[r].text = e
  BY <1>1 DEF Program
<1>3. finish(r, out) /\ UNCHANGED shared
  BY <1>1, <1>2 DEF RunLoad
<1>4. ready(job[r].text, scanned[r])
  BY <1>1 DEF ready
<1>5. Evaluate(job[r].file, job[r].text, scanned[r], l) = out
  BY <1>1, <1>4 DEF Evaluate
<1>6. l # None /\ (hasStar(job[r].text) => scanned[r] # None)
  BY <1>1, LibrariesOK, NoneIsNew
<1> QED
  BY <1>1, <1>3, <1>4, <1>5, <1>6, SameTexts, SameEvaluation
     DEF finish, shared, Evaluation!Answer, IInv, RequestInv

\* The caches of the runtime cannot be seen from outside: a request gets what
\* compiling and executing its script afresh gives, for any number of requests,
\* files and texts (Execute, getOrCompile, ResolveStarImports).
THEOREM Refinement == Spec => ImplementsEvaluation
<1>1. Init => Evaluation!EvaluationInit
  BY DEF Init, Evaluation!EvaluationInit, NoAnswer, Evaluation!NoAnswer
<1>2. IInv /\ [Next]_vars => [Evaluation!EvaluationNext]_(Evaluation!evaluationVars)
  <2> SUFFICES ASSUME IInv, [Next]_vars
               PROVE  [Evaluation!EvaluationNext]_(Evaluation!evaluationVars)
    OBVIOUS
  <2>1. ASSUME NEW r \in Requests, NEW f \in Files, NEW t \in Scripts, Arrive(r, f, t)
        PROVE  Evaluation!Ask(r, f, t)
    BY <2>1 DEF Arrive, shared, Evaluation!Ask, IInv, RequestInv, NoAnswer,
                Evaluation!NoAnswer, Program, Evaluation!Program
  <2>2. ASSUME NEW r \in Requests, ScanLibrary(r) PROVE Evaluation!ReadForScan(r)
    BY <2>2 DEF ScanLibrary, compileNext, Evaluation!ReadForScan, IInv, RequestInv
  <2>3. ASSUME NEW r \in Requests, RunScriptLoads(r) PROVE Evaluation!ReadForLoad(r)
    BY <2>3 DEF RunScriptLoads, Evaluation!ReadForLoad, IInv, RequestInv
  <2>4. ASSUME NEW r \in Requests,
               NoStarImports(r) \/ Hit(r) \/ Miss(r) \/ StoreProgram(r)
        PROVE  UNCHANGED Evaluation!evaluationVars
    BY <2>4 DEF NoStarImports, compileNext, Hit, Miss, StoreProgram, shared,
                Evaluation!evaluationVars
  <2>5. ASSUME NEW r \in Requests, RunScan(r), prog[r].text.halts
        PROVE  UNCHANGED Evaluation!evaluationVars
    BY <2>5 DEF RunScan, compileNext, shared, Evaluation!evaluationVars
  <2>6. ASSUME NEW r \in Requests, Step(r)
        PROVE  [Evaluation!EvaluationNext]_(Evaluation!evaluationVars)
    BY <2>2, <2>3, <2>4, <2>5, <2>6, CompileErrorAnswers, RunScanAnswers,
       RunScriptAnswers, RunLoadAnswers DEF Step, Evaluation!EvaluationNext
  <2>7. ASSUME NEW t \in Libraries, WriteLibrary(t) PROVE Evaluation!Write(t)
    BY <2>7 DEF WriteLibrary, Evaluation!Write
  <2>8. CASE UNCHANGED vars
    BY <2>8 DEF vars, shared, Evaluation!evaluationVars
  <2> QED
    BY <2>1, <2>6, <2>7, <2>8 DEF Next, Evaluation!EvaluationNext
<1> QED
  BY Inductive, <1>1, <1>2, PTL DEF Spec, ImplementsEvaluation, Evaluation!EvaluationSpec
================================================================================
