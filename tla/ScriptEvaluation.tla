---------------------------- MODULE ScriptEvaluation ----------------------------
(***************************************************************************)
(* What the runtime promises a request, without its caches: the script the *)
(* request names is compiled and executed afresh, and the library is read  *)
(* at two moments of the request.  ProgramCache implements this.           *)
(***************************************************************************)
EXTENDS ScriptText

CONSTANTS Requests, Files, Scripts, Libraries

VARIABLES library, job, scanned, loaded, answer

evaluationVars == <<library, job, scanned, loaded, answer>>

NoAnswer == [kind |-> "none", prog |-> None, lib |-> None]

EvaluationInit ==
  /\ library \in Libraries
  /\ job = [r \in Requests |-> None]
  /\ scanned = [r \in Requests |-> None]
  /\ loaded = [r \in Requests |-> None]
  /\ answer = [r \in Requests |-> NoAnswer]

Ask(r, f, t) ==
  /\ job[r] = None
  /\ job' = [job EXCEPT ![r] = Program(t, f)]
  /\ answer' = [answer EXCEPT ![r] = NoAnswer]
  /\ UNCHANGED <<library, scanned, loaded>>

Write(t) == library' = t /\ UNCHANGED <<job, scanned, loaded, answer>>

ReadForScan(r) ==
  /\ job[r] # None
  /\ scanned[r] = None
  /\ scanned' = [scanned EXCEPT ![r] = library]
  /\ UNCHANGED <<library, job, loaded, answer>>

ReadForLoad(r) ==
  /\ job[r] # None
  /\ loaded[r] = None
  /\ loaded' = [loaded EXCEPT ![r] = library]
  /\ UNCHANGED <<library, job, scanned, answer>>

Answer(r) ==
  /\ job[r] # None
  /\ hasStar(job[r].text) => scanned[r] # None
  /\ ready(job[r].text, scanned[r]) /\ expanded(job[r].text, scanned[r]).loads # {}
       => loaded[r] # None
  /\ answer' = [answer EXCEPT ![r] =
                  Evaluate(job[r].file, job[r].text, scanned[r], loaded[r])]
  /\ job' = [job EXCEPT ![r] = None]
  /\ scanned' = [scanned EXCEPT ![r] = None]
  /\ loaded' = [loaded EXCEPT ![r] = None]
  /\ UNCHANGED library

EvaluationNext ==
  \/ \E r \in Requests : \/ \E f \in Files, t \in Scripts : Ask(r, f, t)
                         \/ ReadForScan(r)
                         \/ ReadForLoad(r)
                         \/ Answer(r)
  \/ \E t \in Libraries : Write(t)

EvaluationSpec == EvaluationInit /\ [][EvaluationNext]_evaluationVars
================================================================================
