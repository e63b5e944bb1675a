----------------------------- MODULE LocalModel ------------------------------
(***************************************************************************)
(* The language model behind every reply: one llama.cpp runtime, loaded on *)
(* first use and kept in a cache of one, or an Ollama server.  Requests    *)
(* come from the event loop, which serves chat and the settings one after  *)
(* the other, and from the threads that work on utterances; nothing locks  *)
(* the cache.  A load that another thread began, or that a change of       *)
(* settings overtook, goes on, and its result is cached if nothing else is.*)
(***************************************************************************)
EXTENDS Naturals, FiniteSets

CONSTANTS Loop,          \* the event loop's thread
          Workers,       \* threads that work on utterances
          Models,        \* embedded models this hardware can run
          DefaultModel,  \* the first of them by preference
          Unknown,       \* a name that is no embedded model here
          MaxSelects,    \* bound on the changes of settings
          MaxRequests,   \* bound on the requests
          None

ASSUME ThreadsAssumption == Loop \notin Workers
ASSUME ModelsAssumption == /\ DefaultModel \in Models
                           /\ Unknown \notin Models
                           /\ None \notin Models \cup {Unknown}
ASSUME BoundsAssumption == MaxSelects \in Nat /\ MaxRequests \in Nat

Threads == Workers \cup {Loop}
Backends == {"llama_cpp", "ollama_http"}

VARIABLES llm_backend,   \* settings: which backend answers
          forced,        \* settings: llm_force_logical_name
          cache,         \* the cached result of _load_llama
          pc,            \* what each thread is doing
          spec,          \* the model that each thread is loading
          llama,         \* the runtime that each thread got, None if it got none
          change,        \* the change of settings that the event loop is making
          selects, requests,
          applied,       \* the embedded model that the settings last reported
          overtaken      \* whether a load was going on while they were changed

settings == <<llm_backend, forced>>
counts == <<selects, requests>>
ghosts == <<applied, overtaken>>
vars == <<settings, cache, pc, spec, llama, change, counts, ghosts>>

\* A cached failure is a result as well.
Empty == "empty"
Result == Models \cup {None}

Change == [backend : Backends, model : Models \cup {Unknown}, load_now : BOOLEAN]

ASSUME NoChangeAssumption == None \notin Change

TypeOK ==
    /\ llm_backend \in Backends
    /\ forced \in Models \cup {None}
    /\ cache \in Result \cup {Empty}
    /\ pc \in [Threads -> {"idle", "asked", "load", "loading", "use", "ollama",
                           "reset", "force"}]
    /\ spec \in [Threads -> Result]
    /\ llama \in [Threads -> Result]
    /\ change \in Change \cup {None}
    /\ selects \in 0 .. MaxSelects /\ requests \in 0 .. MaxRequests
    /\ applied \in Result
    /\ overtaken \in BOOLEAN

Init ==
    /\ llm_backend \in Backends
    /\ forced \in Models \cup {None}
    /\ cache = Empty
    /\ pc = [t \in Threads |-> "idle"]
    /\ spec = [t \in Threads |-> None]
    /\ llama = [t \in Threads |-> None]
    /\ change = None
    /\ selects = 0 /\ requests = 0
    /\ applied = None
    /\ overtaken = FALSE

At(t, place) == pc' = [pc EXCEPT ![t] = place]

pick_model == IF forced # None THEN forced ELSE DefaultModel

-----------------------------------------------------------------------------
(* A request *)

generate_reply(t) ==
    /\ pc[t] = "idle"
    /\ requests < MaxRequests
    /\ requests' = requests + 1
    /\ At(t, "asked")
    /\ UNCHANGED <<settings, cache, spec, llama, change, selects, ghosts>>

\* The router reads the backend once.
chat_completion(t) ==
    /\ pc[t] = "asked"
    /\ At(t, IF llm_backend = "ollama_http" THEN "ollama" ELSE "load")
    /\ UNCHANGED <<settings, cache, spec, llama, change, counts, ghosts>>

\* The server's answer, or an empty one: then the reply is a stock phrase.
OllamaAnswers(t) ==
    /\ pc[t] = "ollama"
    /\ At(t, "idle")
    /\ UNCHANGED <<settings, cache, spec, llama, change, counts, ghosts>>

\* A cached runtime, or a cached failure, is returned at once.
CacheHit(t) ==
    /\ pc[t] = "load"
    /\ cache # Empty
    /\ llama' = [llama EXCEPT ![t] = cache]
    /\ At(t, "use")
    /\ UNCHANGED <<settings, cache, spec, change, counts, ghosts>>

CacheMiss(t) ==
    /\ pc[t] = "load"
    /\ cache = Empty
    /\ spec' = [spec EXCEPT ![t] = pick_model]
    /\ At(t, "loading")
    /\ overtaken' = (overtaken \/ (t # Loop /\ change # None))
    /\ UNCHANGED <<settings, cache, llama, change, counts, applied>>

\* The download, the import or the start of the runtime may fail.  Of two
\* results the cache keeps the first; each thread goes on with its own.
_load_llama(t, got) ==
    /\ pc[t] = "loading"
    /\ got \in {spec[t], None}
    /\ llama' = [llama EXCEPT ![t] = got]
    /\ spec' = [spec EXCEPT ![t] = None]
    /\ cache' = IF cache = Empty THEN got ELSE cache
    /\ At(t, "use")
    /\ UNCHANGED <<settings, change, counts, ghosts>>

\* Mutation: without a runtime there is no reply.
AnswerFromRuntime(t) ==
    /\ pc[t] = "use" /\ llama[t] # None
    /\ t = Loop => change = None
    /\ llama' = [llama EXCEPT ![t] = None]
    /\ At(t, "idle")
    /\ UNCHANGED <<settings, cache, spec, change, counts, ghosts>>

\* With a runtime or without one the caller gets a reply.
Answer(t) ==
    /\ pc[t] = "use"
    /\ t = Loop => change = None
    /\ llama' = [llama EXCEPT ![t] = None]
    /\ At(t, "idle")
    /\ UNCHANGED <<settings, cache, spec, change, counts, ghosts>>

-----------------------------------------------------------------------------
(* A change of settings, on the event loop *)

select_llm ==
    /\ pc[Loop] = "idle"
    /\ selects < MaxSelects
    /\ selects' = selects + 1
    /\ \E c \in Change : change' = c /\ llm_backend' = c.backend
    /\ At(Loop, "reset")
    /\ applied' = None
    /\ overtaken' = (\E t \in Workers : pc[t] = "loading")
    /\ UNCHANGED <<forced, cache, spec, llama, requests>>

\* Mutation: the runtime that is loaded is kept.
KeepRuntime ==
    /\ pc[Loop] = "reset"
    /\ UNCHANGED cache
    /\ At(Loop, "force")
    /\ UNCHANGED <<settings, spec, llama, change, counts, ghosts>>

reset_llama_runtime ==
    /\ pc[Loop] = "reset"
    /\ cache' = Empty
    /\ At(Loop, "force")
    /\ UNCHANGED <<settings, spec, llama, change, counts, ghosts>>

\* The backend is changed and the runtime dropped before the name is looked up.
UnknownModel ==
    /\ pc[Loop] = "force"
    /\ change.backend = "llama_cpp" /\ change.model = Unknown
    /\ change' = None
    /\ At(Loop, "idle")
    /\ UNCHANGED <<settings, cache, spec, llama, counts, ghosts>>

UseOllama ==
    /\ pc[Loop] = "force"
    /\ change.backend = "ollama_http"
    /\ change' = None
    /\ At(Loop, "idle")
    /\ UNCHANGED <<settings, cache, spec, llama, counts, ghosts>>

ForceModel ==
    /\ pc[Loop] = "force"
    /\ change.backend = "llama_cpp" /\ change.model \in Models
    /\ forced' = change.model
    /\ IF change.load_now
         THEN At(Loop, "load") /\ UNCHANGED <<change, applied>>
         ELSE At(Loop, "idle") /\ change' = None /\ applied' = change.model
    /\ UNCHANGED <<llm_backend, cache, spec, llama, counts, overtaken>>

\* "Using embedded model", or "Failed to load local model".
Report ==
    /\ pc[Loop] = "use"
    /\ change # None
    /\ applied' = IF llama[Loop] # None THEN change.model ELSE None
    /\ change' = None
    /\ llama' = [llama EXCEPT ![Loop] = None]
    /\ At(Loop, "idle")
    /\ UNCHANGED <<settings, cache, spec, counts, overtaken>>

Request(t) ==
    \/ chat_completion(t) \/ OllamaAnswers(t) \/ CacheHit(t) \/ CacheMiss(t)
    \/ \E got \in Result : _load_llama(t, got)
    \/ Answer(t)

Select == reset_llama_runtime \/ UnknownModel \/ UseOllama \/ ForceModel \/ Report

Next ==
    \/ \E t \in Threads : generate_reply(t) \/ Request(t)
    \/ select_llm \/ Select

Spec == Init /\ [][Next]_vars

\* A thread that works on a request goes on; downloads and the server time out.
FairSpec == Spec /\ (\A t \in Threads : WF_vars(Request(t))) /\ WF_vars(Select)

-----------------------------------------------------------------------------
\* Every request is answered, however loads fail and whatever is selected
\* meanwhile, and every change of settings is reported.
EveryRequestAnswered == \A t \in Threads : pc[t] # "idle" ~> pc[t] = "idle"

\* Once the settings report an embedded model, the event loop answers with a
\* runtime of that model, or with none: unless another thread was loading
\* while the settings were changed.
QuietSelectServes ==
    (applied # None /\ ~overtaken) => /\ cache \in {Empty, None, applied}
                                      /\ pc[Loop] = "use" => llama[Loop] \in {None, applied}
-----------------------------------------------------------------------------
(* Why QuietSelectServes holds *)

\* While the event loop changes the settings it has a change to make, and past
\* the lookup of the name the settings are that change.
ChangeUnderWay ==
    /\ pc[Loop] \in {"reset", "force"} => change # None
    /\ pc[Loop] \in {"idle", "asked", "ollama"} => change = None
    /\ change # None => applied = None
    /\ (change # None /\ pc[Loop] \in {"load", "loading", "use"}) =>
          forced = change.model /\ change.model \in Models

\* Before a change is reported, no other thread loads a model, so the cache
\* stays empty until the event loop itself loads the one selected.
NothingElseLoads ==
    (change # None /\ ~overtaken) =>
        /\ \A t \in Workers : pc[t] # "loading"
        /\ pc[Loop] = "force" => cache = Empty
        /\ pc[Loop] \in {"load", "loading", "use"} => cache \in {Empty, None, change.model}
        /\ pc[Loop] = "loading" => spec[Loop] = change.model

\* Afterwards every load is one of the model selected.
LoadsSelected ==
    applied # None =>
        /\ applied = forced
        /\ ~overtaken => \A t \in Threads : pc[t] = "loading" => spec[t] = applied

SelectInv ==
    TypeOK /\ ChangeUnderWay /\ NothingElseLoads /\ LoadsSelected /\ QuietSelectServes
=============================================================================
