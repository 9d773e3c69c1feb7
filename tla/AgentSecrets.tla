------------------------------ MODULE AgentSecrets ------------------------------
(***************************************************************************)
(* The provider settings of the agent chat (src/agent_chat.rs): one JSON   *)
(* file that requests read, patch and write back, each on a thread of its  *)
(* own and without a lock.                                                 *)
(*                                                                         *)
(* A key is named after the provider it was issued by, so that a key in    *)
(* the wrong place is one that differs from its place.  Models and base    *)
(* URLs are patched and written with the keys and are left out.            *)
(***************************************************************************)
EXTENDS Integers

CONSTANTS
  Provider,          \* ids of the catalog
  Free, Router,      \* nemotron_free and openrouter, which share their keys
  Custom, OpenAI,    \* custom, which without a key of its own may use that of openai
  Local,             \* ollama, for which any key will do
  None,              \* a field left out, a key not set, the empty provider
  Absent, Empty, Torn, \* a file that is not there, truncated, or broken off or mixed
  EnvKeys,           \* providers with a key of theirs in the environment
  Patcher,           \* requests that may be in flight
  Patches            \* bodies of POST /api/agent/config

ASSUME SecretsAssumption ==
  /\ Free \in Provider /\ Router \in Provider /\ None \notin Provider
  /\ {Custom, OpenAI, Local} \subseteq Provider /\ Custom # Free
  /\ EnvKeys \subseteq Provider \ {Free}

Patch == [active : Provider \cup {None}, provider : Provider \cup {None},
          key : {"given", "empty", "absent"}]
ASSUME PatchAssumption == Patches \subseteq Patch

VARIABLES
  file,              \* state/agent-secrets.json
  request,           \* what every request is doing
  \* history
  alone,             \* requests that no other one overlapped
  saved              \* providers whose key was acknowledged, and undisturbed since

vars == <<file, request, alone, saved>>

Secrets == [active : Provider \cup {None}, keys : [Provider -> Provider \cup {None}]]
NoKeys == [p \in Provider |-> None]

ASSUME FileAssumption ==
  /\ {Absent, Empty, Torn} \cap Secrets = {}
  /\ Absent \notin {Empty, Torn} /\ Empty # Torn

\* What load_secrets makes of a file: the free provider without one, nothing at all of
\* one that does not parse.
Load(content) ==
  CASE content = Absent            -> [active |-> Free, keys |-> NoKeys]
    [] content \in {Empty, Torn}   -> [active |-> None, keys |-> NoKeys]
    [] OTHER                       -> content

\* load_secrets: the file may also be there and not be seen, or not be readable, and
\* then passes for one that is not there, or that does not parse.
Loads(content) ==
  {Load(c) : c \in {content} \cup (IF content = Absent THEN {} ELSE {Absent, Empty})}

Shared == {Free, Router}
Partners(p) == IF p \in Shared THEN Shared ELSE {p}

\* MUTANT of Activated: no fallback to the free provider.
LeftEmpty(secrets, patch) ==
  IF patch.active # None THEN patch.active ELSE secrets.active

\* The provider the patch leaves active. (One that is not in the catalog is refused
\* before anything is changed, and is not in Patches.)
Activated(secrets, patch) ==
  IF patch.active # None THEN patch.active
  ELSE IF secrets.active = None THEN Free ELSE secrets.active

\* MUTANT of KeyProvider: the active provider from before the patch.
KeyProviderBefore(secrets, patch) ==
  IF patch.provider # None THEN patch.provider
  ELSE IF secrets.active = None THEN Free ELSE secrets.active

\* The provider a key belongs to, unless the patch says it: the one it makes active.
KeyProvider(secrets, patch) ==
  IF patch.provider # None THEN patch.provider ELSE Activated(secrets, patch)

\* The provider the sender of the patch issued the key for. A patch that names none
\* leaves it to the settings it meets.
Meant(secrets, patch) ==
  IF patch.provider # None THEN patch.provider
  ELSE IF patch.active # None THEN patch.active ELSE KeyProvider(secrets, patch)

\* MUTANT of PatchedKeys: the other keys are forgotten.
OnlyKey(secrets, patch) ==
  [p \in Provider |-> IF patch.key = "given" /\ p \in Partners(KeyProvider(secrets, patch))
                      THEN Meant(secrets, patch) ELSE None]

\* A key goes to its provider and to the partner it shares keys with; an empty one
\* is removed from its provider only.
PatchedKeys(secrets, patch) ==
  LET place == KeyProvider(secrets, patch) IN
  [p \in Provider |->
     CASE patch.key = "given" /\ p \in Partners(place) -> Meant(secrets, patch)
       [] patch.key = "empty" /\ p = place             -> None
       [] OTHER                                        -> secrets.keys[p]]

Patched(secrets, patch) ==
  [active |-> Activated(secrets, patch), keys |-> PatchedKeys(secrets, patch)]

\* The first environment variable of a provider that is set, by who issued its key.
EnvKey(p) ==
  CASE p = Free /\ Router \in EnvKeys                                  -> Router
    [] p # Free /\ p \in EnvKeys                                       -> p
    [] p = Custom /\ Custom \notin EnvKeys /\ OpenAI \in EnvKeys       -> OpenAI
    [] OTHER                                                           -> None

\* resolve_key: the saved key, the partner's saved key, the environment, and a word in
\* the place of a key for the provider that runs here.
ResolveKey(secrets, p) ==
  IF secrets.keys[p] # None THEN secrets.keys[p]
  ELSE IF p = Free /\ secrets.keys[Router] # None THEN secrets.keys[Router]
  ELSE IF EnvKey(p) # None THEN EnvKey(p)
  ELSE IF p = Local THEN Local ELSE None

Idle == [step |-> "idle"]
InFlight == {t \in Patcher : request[t] # Idle}

Init ==
  /\ file = Absent
  /\ request = [t \in Patcher |-> Idle]
  /\ alone = {}
  /\ saved = {}

\* apply_config_patch reads the file, as well as it can, and patches its copy.
Read(t, patch) ==
  /\ request[t] = Idle
  /\ \E s \in Loads(file) :
       request' = [request EXCEPT ![t] =
         [step |-> "patched", patch |-> patch, place |-> KeyProvider(s, patch),
          secrets |-> Patched(s, patch), read |-> s = Load(file)]]
  /\ alone' = IF InFlight = {} THEN {t} ELSE {}
  /\ saved' = IF InFlight = {} THEN saved ELSE {}
  /\ UNCHANGED file

\* save_secrets writes the file in place: it is empty before it is written.
Truncate(t) ==
  /\ request[t].step = "patched"
  /\ request' = [request EXCEPT ![t].step = "writing"]
  /\ file' = Empty
  /\ UNCHANGED <<alone, saved>>

\* Over a file that another request wrote meanwhile, a shorter text leaves a rest.
\* A request that did not read what was in the file leaves nothing of it.
Write(t) ==
  /\ request[t].step = "writing"
  /\ file' \in {request[t].secrets} \cup (IF file = Empty THEN {} ELSE {Torn})
  /\ request' = [request EXCEPT ![t] = Idle]
  /\ alone' = alone \ {t}
  /\ saved' =
       IF t \notin alone THEN {}
       ELSE LET kept == IF request[t].read THEN saved ELSE {} IN
            CASE request[t].patch.key = "given"  -> kept \cup {request[t].place}
              [] request[t].patch.key = "empty"  -> kept \ {request[t].place}
              [] request[t].patch.key = "absent" -> kept

\* The directory or the file cannot be written, or not to its end.
FailWrite(t) ==
  /\ request[t] # Idle
  /\ file' \in {file} \cup (IF request[t].step = "writing" THEN {Torn} ELSE {})
  /\ request' = [request EXCEPT ![t] = Idle]
  /\ alone' = alone \ {t}
  /\ saved' = IF request[t].step = "writing" THEN {} ELSE saved

\* The process ends and is started again: the file is as it was left.
Crash ==
  /\ file' \in {file} \cup (IF \E t \in InFlight : request[t].step = "writing" THEN {Torn} ELSE {})
  /\ request' = [t \in Patcher |-> Idle]
  /\ alone' = {}
  /\ saved' = IF \E t \in InFlight : request[t].step = "writing" THEN {} ELSE saved

Next ==
  \/ \E t \in Patcher :
       \/ \E patch \in Patches : Read(t, patch)
       \/ Truncate(t)
       \/ Write(t)
       \/ FailWrite(t)
  \/ Crash

Spec == Init /\ [][Next]_vars

--------------------------------------------------------------------------------
(* Properties. *)

Request ==
  {Idle} \cup [step : {"patched", "writing"}, patch : Patch, place : Provider, secrets : Secrets,
               read : BOOLEAN]  \* history: the file was read as it is

\* Every variable has its type.
TypeOK ==
  /\ file \in Secrets \cup {Absent, Empty, Torn}
  /\ request \in [Patcher -> Request]
  /\ alone \subseteq Patcher
  /\ saved \subseteq Provider

\* Whatever requests overlap, tear the file, cannot read it or crash: the key that a
\* chat resolves for a provider was issued for it or for the partner it shares keys
\* with. The one exception is in the environment, not in what is saved: custom, with
\* no key of its own in either, takes the one that is set for openai
\* (agent_chat.rs:208-224, 249-288, 366-411).
KeysKeepTheirProvider ==
  \A s \in Loads(file), p \in Provider :
    \/ ResolveKey(s, p) \in Partners(p) \cup {None}
    \/ /\ p = Custom /\ s.keys[Custom] = None /\ Custom \notin EnvKeys
       /\ ResolveKey(s, p) = OpenAI /\ OpenAI \in EnvKeys

\* A key that was acknowledged is in the file, across restarts and other patches,
\* until it is removed, or requests overlap, or a write of the file breaks off, or a
\* request saves without having been able to read the file. While another request is
\* writing the file is empty, and every chat goes without (agent_chat.rs:208-232).
SavedKeysStay ==
  (\A t \in Patcher : request[t] # Idle => request[t].step # "writing") =>
    \A p \in saved : Load(file).keys[p] # None
================================================================================
