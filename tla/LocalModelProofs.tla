-------------------------- MODULE LocalModelProofs --------------------------
(***************************************************************************)
(* Proofs about LocalModel: its type invariant, and that only the model    *)
(* selected answers on the event loop, unless a load was going on while    *)
(* the settings were changed.                                              *)
(***************************************************************************)
EXTENDS LocalModel, TLAPS

USE ThreadsAssumption, ModelsAssumption, NoChangeAssumption, BoundsAssumption

\* Requests begin, are routed, load and are answered.
LEMMA TypeOfRequests ==
    ASSUME TypeOK, NEW t \in Threads, generate_reply(t) \/ Request(t)
    PROVE  TypeOK'
<1>1. CASE generate_reply(t)
  BY <1>1 DEF generate_reply, At, TypeOK, settings, ghosts
<1>2. CASE chat_completion(t)
  BY <1>2 DEF chat_completion, At, TypeOK, settings, counts, ghosts
<1>3. CASE OllamaAnswers(t)
  BY <1>3 DEF OllamaAnswers, At, TypeOK, settings, counts, ghosts
<1>4. CASE CacheHit(t)
  BY <1>4 DEF CacheHit, At, TypeOK, settings, counts, ghosts
<1>5. CASE CacheMiss(t)
  BY <1>5 DEF CacheMiss, At, TypeOK, settings, counts, pick_model, Result
<1>6. CASE \E got \in Result : _load_llama(t, got)
  BY <1>6 DEF _load_llama, At, TypeOK, settings, counts, ghosts, Result
<1>7. CASE Answer(t)
  BY <1>7 DEF Answer, At, TypeOK, settings, counts, ghosts, Result
<1> QED
  BY <1>1, <1>2, <1>3, <1>4, <1>5, <1>6, <1>7 DEF Request

\* The settings are changed, the runtime is dropped, the change is reported.
LEMMA TypeOfSelects ==
    ASSUME TypeOK, ChangeUnderWay, select_llm \/ Select
    PROVE  TypeOK'
<1> USE DEF Threads
<1>1. CASE select_llm
  BY <1>1 DEF select_llm, At, TypeOK, Change, Result
<1>2. CASE reset_llama_runtime
  BY <1>2 DEF reset_llama_runtime, At, TypeOK, settings, counts, ghosts
<1>3. CASE UnknownModel
  BY <1>3 DEF UnknownModel, At, TypeOK, settings, counts, ghosts
<1>4. CASE UseOllama
  BY <1>4 DEF UseOllama, At, TypeOK, settings, counts, ghosts
<1>5. CASE ForceModel
  BY <1>5 DEF ForceModel, At, TypeOK, counts, Result
<1>6. CASE Report
  <2>1. applied' \in Result
    <3>1. CASE llama[Loop] = None
      BY <1>6, <3>1 DEF Report, Result
    <3>2. CASE llama[Loop] # None
      BY <1>6, <3>2 DEF Report, ChangeUnderWay, Result
    <3> QED
      BY <3>1, <3>2
  <2> QED
    BY <1>6, <2>1 DEF Report, At, TypeOK, settings, counts, Result
<1> QED
  BY <1>1, <1>2, <1>3, <1>4, <1>5, <1>6 DEF Select

\* What a request of any thread leaves of the invariant: it changes neither the
\* settings nor a change of theirs.
LEMMA RequestsKeepSelected ==
    ASSUME SelectInv, NEW t \in Threads, generate_reply(t) \/ Request(t)
    PROVE  SelectInv'
<1> USE DEF SelectInv
<1>0. TypeOK'
  BY TypeOfRequests
<1>a. Loop \in Threads /\ \A w \in Workers : w \in Threads /\ w # Loop
  BY DEF Threads
<1>1. CASE generate_reply(t)
  BY <1>0, <1>1, <1>a DEF generate_reply, At, TypeOK, settings, ghosts,
     ChangeUnderWay, NothingElseLoads, LoadsSelected, QuietSelectServes
<1>2. CASE chat_completion(t)
  BY <1>0, <1>2, <1>a DEF chat_completion, At, TypeOK, settings, counts, ghosts,
     ChangeUnderWay, NothingElseLoads, LoadsSelected, QuietSelectServes
<1>3. CASE OllamaAnswers(t)
  BY <1>0, <1>3, <1>a DEF OllamaAnswers, At, TypeOK, settings, counts, ghosts,
     ChangeUnderWay, NothingElseLoads, LoadsSelected, QuietSelectServes
<1>4. CASE CacheHit(t)
  BY <1>0, <1>4, <1>a DEF CacheHit, At, TypeOK, settings, counts, ghosts,
     ChangeUnderWay, NothingElseLoads, LoadsSelected, QuietSelectServes
<1>5. CASE CacheMiss(t)
  BY <1>0, <1>5, <1>a DEF CacheMiss, At, TypeOK, settings, counts, pick_model, Threads,
     ChangeUnderWay, NothingElseLoads, LoadsSelected, QuietSelectServes
<1>6. CASE \E got \in Result : _load_llama(t, got)
  <2> PICK got \in Result : _load_llama(t, got)
    BY <1>6
  <2>1. ChangeUnderWay' /\ LoadsSelected'
    BY <1>a DEF _load_llama, At, TypeOK, settings, counts, ghosts, ChangeUnderWay, LoadsSelected
  <2>2. NothingElseLoads'
    BY <1>a DEF _load_llama, At, TypeOK, settings, counts, ghosts, Threads,
       ChangeUnderWay, NothingElseLoads
  <2>3. QuietSelectServes'
    BY <1>a DEF _load_llama, At, TypeOK, settings, counts, ghosts, LoadsSelected, QuietSelectServes
  <2> QED
    BY <1>0, <2>1, <2>2, <2>3
<1>7. CASE Answer(t)
  BY <1>0, <1>7, <1>a DEF Answer, At, TypeOK, settings, counts, ghosts,
     ChangeUnderWay, NothingElseLoads, LoadsSelected, QuietSelectServes
<1> QED
  BY <1>1, <1>2, <1>3, <1>4, <1>5, <1>6, <1>7 DEF Request

\* What a change of settings leaves of it, step by step.
LEMMA SelectsKeepSelected ==
    ASSUME SelectInv, select_llm \/ Select
    PROVE  SelectInv'
<1> USE DEF SelectInv
<1>0. TypeOK'
  BY TypeOfSelects
<1>a. Loop \in Threads /\ \A w \in Workers : w \in Threads /\ w # Loop
  BY DEF Threads
<1>1. CASE select_llm
  BY <1>0, <1>1, <1>a DEF select_llm, At, TypeOK,
     ChangeUnderWay, NothingElseLoads, LoadsSelected, QuietSelectServes
<1>2. CASE reset_llama_runtime
  BY <1>0, <1>2, <1>a DEF reset_llama_runtime, At, TypeOK, settings, counts, ghosts,
     ChangeUnderWay, NothingElseLoads, LoadsSelected, QuietSelectServes
<1>3. CASE UnknownModel
  BY <1>0, <1>3, <1>a DEF UnknownModel, At, TypeOK, settings, counts, ghosts,
     ChangeUnderWay, NothingElseLoads, LoadsSelected, QuietSelectServes
<1>4. CASE UseOllama
  BY <1>0, <1>4, <1>a DEF UseOllama, At, TypeOK, settings, counts, ghosts,
     ChangeUnderWay, NothingElseLoads, LoadsSelected, QuietSelectServes
<1>5. CASE ForceModel
  BY <1>0, <1>5, <1>a DEF ForceModel, At, TypeOK, counts, Threads,
     ChangeUnderWay, NothingElseLoads, LoadsSelected, QuietSelectServes
<1>6. CASE Report
  BY <1>0, <1>6, <1>a DEF Report, At, TypeOK, settings, counts, Threads,
     ChangeUnderWay, NothingElseLoads, LoadsSelected, QuietSelectServes
<1> QED
  BY <1>1, <1>2, <1>3, <1>4, <1>5, <1>6 DEF Select

\* Nothing is selected, loaded or cached when the host starts.
LEMMA SelectInvInit == Init => SelectInv
<1> SUFFICES ASSUME Init PROVE SelectInv
  OBVIOUS
<1>1. TypeOK
  <2>1. selects \in 0 .. MaxSelects /\ requests \in 0 .. MaxRequests
    BY DEF Init
  <2>2. change \in Change \cup {None} /\ applied \in Result /\ overtaken \in BOOLEAN
    BY DEF Init, Result
  <2>3. /\ pc \in [Threads -> {"idle", "asked", "load", "loading", "use", "ollama",
                             "reset", "force"}]
        /\ spec \in [Threads -> Result] /\ llama \in [Threads -> Result]
        /\ llm_backend \in Backends /\ forced \in Models \cup {None}
        /\ cache \in Result \cup {Empty}
    BY DEF Init, Result
  <2> QED
    BY <2>1, <2>2, <2>3 DEF TypeOK
<1>2. ChangeUnderWay /\ NothingElseLoads /\ LoadsSelected /\ QuietSelectServes
  BY DEF Init, Threads, ChangeUnderWay, NothingElseLoads, LoadsSelected, QuietSelectServes
<1> QED
  BY <1>1, <1>2 DEF SelectInv

LEMMA SelectInvStep == SelectInv /\ [Next]_vars => SelectInv'
<1> SUFFICES ASSUME SelectInv, [Next]_vars PROVE SelectInv'
  OBVIOUS
<1>1. CASE \E t \in Threads : generate_reply(t) \/ Request(t)
  BY <1>1, RequestsKeepSelected
<1>2. CASE select_llm \/ Select
  BY <1>2, SelectsKeepSelected
<1>3. CASE UNCHANGED vars
  BY <1>3 DEF vars, settings, counts, ghosts, SelectInv, TypeOK,
     ChangeUnderWay, NothingElseLoads, LoadsSelected, QuietSelectServes
<1> QED
  BY <1>1, <1>2, <1>3 DEF Next

LEMMA SelectInvHolds == Spec => []SelectInv
BY SelectInvInit, SelectInvStep, PTL DEF Spec

\* The settings, the cache, the threads and the change under way keep their types.
THEOREM ModelTypeCorrect == Spec => []TypeOK
<1>1. SelectInv => TypeOK
  BY DEF SelectInv
<1> QED
  BY <1>1, SelectInvHolds, PTL

\* Once the settings report an embedded model, the event loop answers with a
\* runtime of that model or with none, unless another thread was loading while
\* they were changed: whatever number of threads asks, loads and fails.  Another
\* thread that already uses the old runtime still answers with it.
THEOREM OnlySelectedServes == Spec => []QuietSelectServes
<1>1. SelectInv => QuietSelectServes
  BY DEF SelectInv
<1> QED
  BY <1>1, SelectInvHolds, PTL

=============================================================================
