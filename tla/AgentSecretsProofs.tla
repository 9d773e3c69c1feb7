-------------------------- MODULE AgentSecretsProofs --------------------------
(***************************************************************************)
(* Theorems about AgentSecrets, for every catalog of providers, every set  *)
(* of requests in flight and whatever they patch.                          *)
(***************************************************************************)
EXTENDS AgentSecrets, TLAPS

USE SecretsAssumption, PatchAssumption, FileAssumption

--------------------------------------------------------------------------------
(* Patches. *)

LEMMA LoadIsSecrets ==
  ASSUME NEW content \in Secrets \cup {Absent, Empty, Torn}
  PROVE  /\ Load(content) \in Secrets
         /\ content \in Secrets => Load(content) = content
<1>1. CASE content \in Secrets
  <2>1. Load(content) = content
    BY <1>1 DEF Load
  <2> QED
    BY <1>1, <2>1
<1>2. CASE content \notin Secrets
  <2>1. Load(content) \in {[active |-> Free, keys |-> NoKeys], [active |-> None, keys |-> NoKeys]}
    BY <1>2 DEF Load
  <2>2. NoKeys \in [Provider -> Provider \cup {None}]
    BY DEF NoKeys
  <2> QED
    BY <1>2, <2>1, <2>2 DEF Secrets
<1> QED
  BY <1>1, <1>2

LEMMA LoadsAreSecrets ==
  ASSUME NEW content \in Secrets \cup {Absent, Empty, Torn}, NEW s \in Loads(content)
  PROVE  /\ s \in Secrets
         /\ s \in {Load(content), Load(Absent), Load(Empty)}
<1>1. s \in {Load(content), Load(Absent), Load(Empty)}
  BY DEF Loads
<1> QED
  BY <1>1, LoadIsSecrets

\* Every patch leaves a provider active, has a place for its key and means that place.
LEMMA Placed ==
  ASSUME NEW s \in Secrets, NEW patch \in Patch
  PROVE  /\ Activated(s, patch) \in Provider
         /\ KeyProvider(s, patch) \in Provider
         /\ Meant(s, patch) = KeyProvider(s, patch)
<1>1. s.active \in Provider \cup {None} /\ patch.active \in Provider \cup {None}
      /\ patch.provider \in Provider \cup {None}
  BY DEF Secrets, Patch
<1>2. Activated(s, patch) \in Provider
  BY <1>1 DEF Activated
<1>3. KeyProvider(s, patch) \in Provider
  BY <1>1, <1>2 DEF KeyProvider
<1>4. Meant(s, patch) = KeyProvider(s, patch)
  BY DEF Meant, KeyProvider, Activated
<1> QED
  BY <1>2, <1>3, <1>4

LEMMA PatchedIsSecrets ==
  ASSUME NEW s \in Secrets, NEW patch \in Patch
  PROVE  Patched(s, patch) \in Secrets
<1>1. s.keys \in [Provider -> Provider \cup {None}] /\ patch.key \in {"given", "empty", "absent"}
  BY DEF Secrets, Patch
<1>2. PatchedKeys(s, patch) \in [Provider -> Provider \cup {None}]
  BY <1>1, Placed DEF PatchedKeys
<1> QED
  BY <1>2, Placed DEF Patched, Secrets

--------------------------------------------------------------------------------
(* Types. *)

LEMMA Steps ==
  ASSUME TypeOK, NEW t \in Patcher
  PROVE  /\ request[t] = Idle <=> request[t].step = "idle"
         /\ request[t].step \in {"idle", "patched", "writing"}
         /\ request[t] # Idle =>
              /\ request[t].patch \in Patch /\ request[t].place \in Provider
              /\ request[t].secrets \in Secrets /\ request[t].read \in BOOLEAN
  BY DEF TypeOK, Request, Idle

\* What a request has read and patched.
ReadOf(s, patch) ==
  [step |-> "patched", patch |-> patch, place |-> KeyProvider(s, patch),
   secrets |-> Patched(s, patch), read |-> s = Load(file)]

LEMMA ReadsSecrets ==
  ASSUME TypeOK, NEW t \in Patcher, NEW patch \in Patches, Read(t, patch)
  PROVE  /\ patch \in Patch
         /\ \E s \in Loads(file) :
              /\ s \in Secrets
              /\ s \in {Load(file), Load(Absent), Load(Empty)}
              /\ request' = [request EXCEPT ![t] = ReadOf(s, patch)]
<1>1. PICK s \in Loads(file) : request' = [request EXCEPT ![t] = ReadOf(s, patch)]
  BY DEF Read, ReadOf
<1>2. s \in Secrets /\ s \in {Load(file), Load(Absent), Load(Empty)}
  BY LoadsAreSecrets DEF TypeOK
<1> QED
  BY <1>1, <1>2

LEMMA TypeStep == TypeOK /\ [Next]_vars => TypeOK'
<1> SUFFICES ASSUME TypeOK, [Next]_vars PROVE TypeOK'
  OBVIOUS
<1>0. file \in Secrets \cup {Absent, Empty, Torn} /\ request \in [Patcher -> Request]
      /\ alone \subseteq Patcher /\ saved \subseteq Provider
  BY DEF TypeOK
<1>1. ASSUME NEW t \in Patcher, NEW patch \in Patches, Read(t, patch) PROVE TypeOK'
  <2>1. PICK s \in Secrets : patch \in Patch /\ request' = [request EXCEPT ![t] = ReadOf(s, patch)]
    BY <1>1, ReadsSecrets
  <2>2. ReadOf(s, patch) \in Request
    BY <2>1, Placed, PatchedIsSecrets DEF Request, ReadOf
  <2>4. request' \in [Patcher -> Request]
    BY <1>0, <2>1, <2>2
  <2> QED
    BY <1>0, <1>1, <2>4 DEF Read, TypeOK
<1>2. ASSUME NEW t \in Patcher, Truncate(t) PROVE TypeOK'
  <2>1. [request[t] EXCEPT !.step = "writing"] \in Request
    BY <1>2, Steps DEF Truncate, TypeOK, Request, Idle
  <2>2. request' = [request EXCEPT ![t] = [request[t] EXCEPT !.step = "writing"]]
    BY <1>2 DEF Truncate
  <2> QED
    BY <1>0, <1>2, <2>1, <2>2 DEF Truncate, TypeOK
<1>3. ASSUME NEW t \in Patcher, Write(t) PROVE TypeOK'
  <2>1. request[t].secrets \in Secrets /\ request[t].place \in Provider
        /\ request[t].patch.key \in {"given", "empty", "absent"}
    BY <1>3, Steps DEF Write, Patch
  <2>2. file' \in Secrets \cup {Absent, Empty, Torn}
    BY <1>3, <2>1 DEF Write
  <2>3. saved' \subseteq Provider
    BY <1>0, <1>3, <2>1 DEF Write
  <2> QED
    BY <1>0, <1>3, <2>2, <2>3 DEF Write, TypeOK, Request
<1>4. ASSUME NEW t \in Patcher, FailWrite(t) PROVE TypeOK'
  BY <1>0, <1>4 DEF FailWrite, TypeOK, Request
<1>5. CASE Crash
  BY <1>0, <1>5 DEF Crash, TypeOK, Request
<1>6. CASE UNCHANGED vars
  BY <1>6 DEF vars, TypeOK
<1> QED
  BY <1>1, <1>2, <1>3, <1>4, <1>5, <1>6 DEF Next

\* Type correctness: whatever requests read, patch and write, the file holds settings
\* of the catalog or does not parse, and a patched copy is one of settings.
THEOREM TypeCorrect == Spec => []TypeOK
<1>1. Init => TypeOK
  BY DEF Init, TypeOK, Request
<1> QED
  BY <1>1, TypeStep, PTL DEF Spec

--------------------------------------------------------------------------------
(* Keys do not move to another provider. *)

\* The keys of some settings are where they belong ...
InPlace(s) == \A p \in Provider : s.keys[p] \in Partners(p) \cup {None}

\* ... in the file and in every copy that may be written.
Placeable ==
  /\ InPlace(Load(file))
  /\ \A t \in Patcher : request[t] # Idle => InPlace(request[t].secrets)

LEMMA PartnersAreMutual ==
  ASSUME NEW p \in Provider, NEW q \in Provider
  PROVE  p \in Partners(p) /\ (p \in Partners(q) => q \in Partners(p))
  BY DEF Partners, Shared

LEMMA LoadInPlace ==
  ASSUME NEW content \in {Absent, Empty, Torn}
  PROVE  InPlace(Load(content))
<1>1. Load(content).keys = NoKeys
  BY DEF Load
<1> QED
  BY <1>1 DEF InPlace, NoKeys

LEMMA PatchedInPlace ==
  ASSUME NEW s \in Secrets, NEW patch \in Patch, InPlace(s)
  PROVE  InPlace(Patched(s, patch))
<1> SUFFICES ASSUME NEW p \in Provider
             PROVE  PatchedKeys(s, patch)[p] \in Partners(p) \cup {None}
  BY DEF InPlace, Patched
<1>1. Meant(s, patch) = KeyProvider(s, patch) /\ KeyProvider(s, patch) \in Provider
  BY Placed
<1>2. p \in Partners(KeyProvider(s, patch)) => KeyProvider(s, patch) \in Partners(p)
  BY <1>1, PartnersAreMutual
<1>3. s.keys[p] \in Partners(p) \cup {None}
  BY DEF InPlace
<1> QED
  BY <1>1, <1>2, <1>3 DEF PatchedKeys

LEMMA PlaceableStep == TypeOK /\ Placeable /\ [Next]_vars => Placeable'
<1> SUFFICES ASSUME TypeOK, Placeable, [Next]_vars PROVE Placeable'
  OBVIOUS
<1>0. file \in Secrets \cup {Absent, Empty, Torn} /\ request \in [Patcher -> Request]
  BY DEF TypeOK
<1>1. ASSUME NEW t \in Patcher, NEW patch \in Patches, Read(t, patch) PROVE Placeable'
  <2>0. PICK s \in Secrets :
          /\ patch \in Patch
          /\ s \in {Load(file), Load(Absent), Load(Empty)}
          /\ request' = [request EXCEPT ![t] = ReadOf(s, patch)]
    BY <1>1, ReadsSecrets
  <2>1. InPlace(Patched(s, patch))
    BY <2>0, LoadInPlace, PatchedInPlace DEF Placeable
  <2>2. /\ request'[t].secrets = Patched(s, patch)
        /\ \A u \in Patcher \ {t} : request'[u] = request[u]
    BY <1>0, <2>0 DEF ReadOf
  <2> QED
    BY <1>1, <2>1, <2>2 DEF Placeable, Read
<1>2. ASSUME NEW t \in Patcher, Truncate(t) PROVE Placeable'
  <2>1. /\ request[t] # Idle /\ request'[t].secrets = request[t].secrets
        /\ \A u \in Patcher \ {t} : request'[u] = request[u]
    BY <1>0, <1>2, Steps DEF Truncate, Idle, TypeOK, Request
  <2>2. InPlace(Load(file'))
    BY <1>2, LoadInPlace DEF Truncate
  <2> QED
    BY <2>1, <2>2 DEF Placeable
<1>3. ASSUME NEW t \in Patcher, Write(t) \/ FailWrite(t) PROVE Placeable'
  <2>1. \A u \in Patcher : request'[u] # Idle => request'[u] = request[u]
    BY <1>0, <1>3 DEF Write, FailWrite
  <2>2. request[t] # Idle
    BY <1>3, Steps DEF Write, FailWrite
  <2>3. file' \in {file, Torn, request[t].secrets}
    BY <1>3 DEF Write, FailWrite
  <2>4. Load(request[t].secrets) = request[t].secrets
    BY <2>2, Steps, LoadIsSecrets
  <2>5. InPlace(Load(file'))
    BY <2>2, <2>3, <2>4, LoadInPlace DEF Placeable
  <2> QED
    BY <2>1, <2>5 DEF Placeable
<1>4. CASE Crash
  <2>1. file' \in {file, Torn} /\ \A u \in Patcher : request'[u] = Idle
    BY <1>4 DEF Crash
  <2> QED
    BY <2>1, LoadInPlace DEF Placeable
<1>5. CASE UNCHANGED vars
  BY <1>5 DEF vars, Placeable
<1> QED
  BY <1>1, <1>2, <1>3, <1>4, <1>5 DEF Next

\* Through overlapping requests, torn files, failed reads and crashes, the key that a
\* chat resolves for a provider was issued for it or for its partner, or is openai's
\* from the environment and the provider custom (agent_chat.rs:249-288, 366-411).
THEOREM KeysArePlaced == Spec => []KeysKeepTheirProvider
<1>1. Init => Placeable
  BY LoadInPlace DEF Init, Placeable
<1>2. Placeable => KeysKeepTheirProvider
  <2> SUFFICES ASSUME Placeable, NEW s \in Loads(file), NEW p \in Provider
               PROVE  \/ ResolveKey(s, p) \in Partners(p) \cup {None}
                      \/ /\ p = Custom /\ s.keys[Custom] = None /\ Custom \notin EnvKeys
                         /\ ResolveKey(s, p) = OpenAI /\ OpenAI \in EnvKeys
    BY DEF KeysKeepTheirProvider
  <2>1. s.keys[p] \in Partners(p) \cup {None} /\ s.keys[Router] \in Partners(Router) \cup {None}
    <3>1. s \in {Load(file), Load(Absent), Load(Empty)}
      BY DEF Loads
    <3> QED
      BY <3>1, LoadInPlace DEF Placeable, InPlace
  <2>2. Partners(Router) = Partners(Free) /\ Router \in Partners(Free) /\ p \in Partners(p)
    BY DEF Partners, Shared
  <2>3. \/ EnvKey(p) \in Partners(p) \cup {None}
        \/ p = Custom /\ Custom \notin EnvKeys /\ EnvKey(p) = OpenAI /\ OpenAI \in EnvKeys
    BY <2>2 DEF EnvKey
  <2> QED
    BY <2>1, <2>2, <2>3 DEF ResolveKey
<1> QED
  BY <1>1, <1>2, PlaceableStep, TypeCorrect, PTL DEF Spec

--------------------------------------------------------------------------------
(* A key that was acknowledged stays. *)

\* A request that nobody overlapped is the only one, found the file as the last one
\* left it and has it to itself while it writes; its copy, if it was read from the file,
\* holds every saved key but the one it removes, and the one it sets. Nothing is saved
\* while others are in flight.
Undisturbed(t) ==
  /\ InFlight = {t}
  /\ request[t].step = "writing" => file = Empty
  /\ request[t].read =>
       \A p \in saved : request[t].secrets.keys[p] # None
                          \/ (request[t].patch.key = "empty" /\ request[t].place = p)
  /\ request[t].patch.key = "given" => request[t].secrets.keys[request[t].place] # None
Lasting ==
  /\ \A t \in alone : Undisturbed(t)
  /\ InFlight # {} /\ alone = {} => saved = {}
  /\ SavedKeysStay

\* A patch removes no key but an empty one's, and sets the one it gives.
LEMMA PatchKeeps ==
  ASSUME NEW s \in Secrets, NEW patch \in Patch
  PROVE  /\ \A p \in Provider : s.keys[p] # None =>
              Patched(s, patch).keys[p] # None \/ (patch.key = "empty" /\ KeyProvider(s, patch) = p)
         /\ patch.key = "given" => Patched(s, patch).keys[KeyProvider(s, patch)] # None
<1>1. KeyProvider(s, patch) \in Provider /\ Meant(s, patch) = KeyProvider(s, patch)
      /\ KeyProvider(s, patch) \in Partners(KeyProvider(s, patch))
  BY Placed, PartnersAreMutual
<1>2. Patched(s, patch).keys = PatchedKeys(s, patch)
  BY DEF Patched
<1> QED
  BY <1>1, <1>2 DEF PatchedKeys

LEMMA LastingStep == TypeOK /\ Lasting /\ [Next]_vars => Lasting'
<1> SUFFICES ASSUME TypeOK, Lasting, [Next]_vars PROVE Lasting'
  OBVIOUS
<1>0. file \in Secrets \cup {Absent, Empty, Torn} /\ request \in [Patcher -> Request]
      /\ alone \subseteq Patcher /\ saved \subseteq Provider
  BY DEF TypeOK
<1>1. ASSUME NEW t \in Patcher, NEW patch \in Patches, Read(t, patch) PROVE Lasting'
  <2>1. PICK s \in Secrets : patch \in Patch /\ request' = [request EXCEPT ![t] = ReadOf(s, patch)]
    BY <1>1, ReadsSecrets
  <2>2. /\ request'[t] = ReadOf(s, patch)
        /\ \A u \in Patcher \ {t} : request'[u] = request[u]
    BY <1>0, <2>1
  <2>3. InFlight' = InFlight \cup {t}
    BY <2>2 DEF InFlight, Idle, ReadOf
  <2>4. CASE InFlight = {}
    <3>1. \A p \in saved : Load(file).keys[p] # None
      BY <1>0, <2>4 DEF Lasting, SavedKeysStay, InFlight
    <3>2. Undisturbed(t)'
      <4>1. /\ request'[t].step = "patched" /\ request'[t].patch = patch
            /\ request'[t].place = KeyProvider(s, patch) /\ request'[t].secrets = Patched(s, patch)
            /\ request'[t].read => s = Load(file)
        <5> DEFINE r == ReadOf(s, patch)
        <5>1. /\ r.step = "patched" /\ r.patch = patch /\ r.place = KeyProvider(s, patch)
              /\ r.secrets = Patched(s, patch) /\ r.read = (s = Load(file))
          BY DEF ReadOf
        <5>2. request'[t] = r
          BY <2>2
        <5> HIDE DEF r
        <5> QED
          BY <5>1, <5>2
      <4>2. saved' = saved /\ InFlight' = {t}
        BY <1>1, <2>3, <2>4 DEF Read
      <4>3. request'[t].read =>
              \A p \in saved' : request'[t].secrets.keys[p] # None
                                  \/ (request'[t].patch.key = "empty" /\ request'[t].place = p)
        BY <1>0, <2>1, <3>1, <4>1, <4>2, PatchKeeps
      <4> QED
        BY <2>1, <4>1, <4>2, <4>3, PatchKeeps DEF Undisturbed
    <3>3. SavedKeysStay'
      BY <1>1, <2>4, <3>1 DEF Read, SavedKeysStay
    <3> QED
      BY <1>1, <2>4, <3>2, <3>3 DEF Read, Lasting
  <2>5. CASE InFlight # {}
    BY <1>1, <2>5 DEF Read, Lasting, SavedKeysStay
  <2> QED
    BY <2>4, <2>5
<1>2. ASSUME NEW t \in Patcher, Truncate(t) PROVE Lasting'
  <2>1. /\ request[t] # Idle /\ request'[t] # Idle /\ request'[t].step = "writing"
        /\ request'[t].patch = request[t].patch /\ request'[t].place = request[t].place
        /\ request'[t].secrets = request[t].secrets
        /\ \A u \in Patcher \ {t} : request'[u] = request[u]
    BY <1>0, <1>2, Steps DEF Truncate, Idle, TypeOK, Request
  <2>2. InFlight' = InFlight
    BY <2>1 DEF InFlight
  <2>3. SavedKeysStay'
    BY <2>1 DEF SavedKeysStay
  <2>4. \A u \in alone : u = t
    BY <2>1 DEF Lasting, Undisturbed, InFlight
  <2>5. \A u \in alone : Undisturbed(u)'
    BY <1>0, <1>2, <2>1, <2>2, <2>4 DEF Truncate, Lasting, Undisturbed
  <2> QED
    BY <1>2, <2>2, <2>3, <2>5 DEF Truncate, Lasting
<1>3. ASSUME NEW t \in Patcher, Write(t) PROVE Lasting'
  <2>1. /\ request[t] # Idle /\ request[t].secrets \in Secrets /\ request[t].place \in Provider
        /\ request[t].patch.key \in {"given", "empty", "absent"}
    BY <1>3, Steps DEF Write, Patch
  <2>2. request'[t] = Idle /\ \A u \in Patcher \ {t} : request'[u] = request[u]
    BY <1>0, <1>3 DEF Write
  <2>3. InFlight' = InFlight \ {t}
    BY <2>2 DEF InFlight
  <2>4. \A u \in alone : u = t
    BY <2>1 DEF Lasting, Undisturbed, InFlight
  <2>5. alone' = {}
    BY <1>0, <1>3, <2>4 DEF Write
  <2>6. CASE t \notin alone
    BY <1>3, <2>5, <2>6 DEF Write, Lasting, SavedKeysStay
  <2>7. CASE t \in alone
    <3>1. Undisturbed(t) /\ file = Empty
      BY <1>3, <2>7 DEF Lasting, Undisturbed, Write
    <3>2. file' = request[t].secrets /\ Load(file') = request[t].secrets
      BY <1>3, <2>1, <3>1, LoadIsSecrets DEF Write
    <3>3. InFlight' = {}
      BY <2>3, <3>1 DEF Undisturbed
    <3>4. \A p \in saved' : request[t].secrets.keys[p] # None
      <4> DEFINE kept == IF request[t].read THEN saved ELSE {}
      <4>0. \A p \in kept : request[t].secrets.keys[p] # None
                              \/ (request[t].patch.key = "empty" /\ request[t].place = p)
        BY <3>1 DEF Undisturbed
      <4>4. saved' = CASE request[t].patch.key = "given"  -> kept \cup {request[t].place}
                       [] request[t].patch.key = "empty"  -> kept \ {request[t].place}
                       [] request[t].patch.key = "absent" -> kept
        BY <1>3, <2>7 DEF Write
      <4> HIDE DEF kept
      <4>1. CASE request[t].patch.key = "given"
        BY <3>1, <4>0, <4>1, <4>4 DEF Undisturbed
      <4>2. CASE request[t].patch.key = "empty"
        BY <4>0, <4>2, <4>4
      <4>3. CASE request[t].patch.key = "absent"
        BY <4>0, <4>3, <4>4
      <4> QED
        BY <2>1, <4>1, <4>2, <4>3
    <3>5. SavedKeysStay'
      BY <3>2, <3>4 DEF SavedKeysStay
    <3> QED
      BY <2>5, <3>3, <3>5 DEF Lasting
  <2> QED
    BY <2>6, <2>7
<1>4. ASSUME NEW t \in Patcher, FailWrite(t) PROVE Lasting'
  <2>1. request'[t] = Idle /\ \A u \in Patcher \ {t} : request'[u] = request[u]
    BY <1>0, <1>4 DEF FailWrite
  <2>2. InFlight' = InFlight \ {t} /\ t \in InFlight
    BY <1>4, <2>1 DEF InFlight, FailWrite
  <2>3. \A u \in alone : u = t
    BY <2>2 DEF Lasting, Undisturbed
  <2>4. alone' = {}
    BY <1>0, <1>4, <2>3 DEF FailWrite
  <2>5. CASE request[t].step = "writing"
    BY <1>4, <2>4, <2>5 DEF FailWrite, Lasting, SavedKeysStay
  <2>6. CASE request[t].step # "writing"
    <3>1. UNCHANGED <<file, saved>>
      BY <1>4, <2>6 DEF FailWrite
    <3>2. SavedKeysStay'
      BY <2>1, <2>6, <3>1 DEF Lasting, SavedKeysStay, Idle
    <3>3. InFlight' # {} => saved' = {}
      BY <2>2, <2>3, <3>1 DEF Lasting, Undisturbed
    <3> QED
      BY <2>4, <3>2, <3>3 DEF Lasting
  <2> QED
    BY <2>5, <2>6
<1>5. CASE Crash
  <2>1. \A u \in Patcher : request'[u] = Idle
    BY <1>5 DEF Crash
  <2>2. InFlight' = {} /\ alone' = {}
    BY <1>5, <2>1 DEF InFlight, Crash
  <2>3. CASE \E t \in InFlight : request[t].step = "writing"
    BY <1>5, <2>2, <2>3 DEF Crash, Lasting, SavedKeysStay
  <2>4. CASE ~\E t \in InFlight : request[t].step = "writing"
    BY <1>5, <2>2, <2>4 DEF Crash, Lasting, SavedKeysStay, InFlight
  <2> QED
    BY <2>3, <2>4
<1>6. CASE UNCHANGED vars
  BY <1>6 DEF vars, Lasting, Undisturbed, SavedKeysStay, InFlight
<1> QED
  BY <1>1, <1>2, <1>3, <1>4, <1>5, <1>6 DEF Next

\* A key that was acknowledged stays through crashes and other patches until it is
\* removed, requests overlap, a write breaks off, or a request saves what it could not
\* read (agent_chat.rs:208-232).
THEOREM SavedKeysLast == Spec => []SavedKeysStay
<1>1. Init => Lasting
  BY DEF Init, Lasting, SavedKeysStay, InFlight
<1>2. Lasting => SavedKeysStay
  BY DEF Lasting
<1> QED
  BY <1>1, <1>2, LastingStep, TypeCorrect, PTL DEF Spec

================================================================================
