------------------------------- MODULE AgentChat -------------------------------
(***************************************************************************)
(* The conversation of the embedded agent (src/agent_chat.rs): one         *)
(* transcript in memory, cut to its last messages, that every panel's turn *)
(* reads at its start and appends to while it asks the provider and runs   *)
(* tools.  A turn keeps its own copy of the messages it sends: what others *)
(* push meanwhile is not in it.                                            *)
(*                                                                         *)
(* A message is its kind and, for a message with tool calls and for the    *)
(* results of those calls, an identifier.  What the tools do to the        *)
(* runtime is in Interlink and Recording.  The provider is external: it    *)
(* answers a request, or fails with and without the tools; a strict one    *)
(* fails whenever a result lacks its call or a call its result.            *)
(***************************************************************************)
EXTENDS Integers, FiniteSets, Sequences, FiniteSetsExt, SequencesExt

CONSTANTS
  Panel,             \* open panels, with at most one turn each
  MaxHistory,        \* MAX_HISTORY_MESSAGES
  MaxRounds,         \* MAX_TOOL_ROUNDS
  MaxCalls           \* bound on the calls of one answer

ASSUME ChatAssumption ==
  /\ IsFiniteSet(Panel) /\ Panel # {}
  /\ {MaxHistory, MaxRounds, MaxCalls} \subseteq Nat \ {0}

VARIABLES
  history,           \* AgentSession.history
  turn,              \* the turn of every panel
  \* history variables
  overlapped,        \* turns overlapped since the transcript was last cleared
  refused            \* refusals since the transcript was cleared or anything but a
                     \* user's message was pushed

vars == <<history, turn, overlapped, refused>>

Id == 1 .. MaxHistory + Cardinality(Panel) + 1
Message ==
  [kind : {"user", "reply"}, id : {0}, call : {0}]
    \cup [kind : {"calls", "result"}, id : Id, call : 1 .. MaxCalls]

User == [kind |-> "user", id |-> 0, call |-> 0]
Assistant == [kind |-> "reply", id |-> 0, call |-> 0]

\* MUTANT of Calling: the narration of an answer is kept and its calls are not.
Narrated(id, n) == Assistant

\* An answer that asks for n tools, and the result of one of them.
Calling(id, n) == [kind |-> "calls", id |-> id, call |-> n]
Result(id, call) == [kind |-> "result", id |-> id, call |-> call]

\* MUTANT of Kept: nothing is cut.
KeptWhole(messages) == messages

\* MUTANT of Kept: the cut leaves the first message alone.
KeptWithFirst(messages) ==
  IF Len(messages) <= MaxHistory THEN messages
  ELSE <<messages[1]>> \o SubSeq(messages, Len(messages) - MaxHistory + 2, Len(messages))

\* AgentSession::push drops the overflow at the front.
Kept(messages) ==
  SubSeq(messages, Max({1, Len(messages) - MaxHistory + 1}), Len(messages))

Push(message) == history' = Kept(Append(history, message))

\* What a strict provider takes: every call is followed by its results, and there is
\* no other result.
Sound(messages) ==
  \A i \in DOMAIN messages :
    /\ messages[i].kind = "calls" =>
         \A k \in 1 .. messages[i].call :
           i + k <= Len(messages) /\ messages[i + k] = Result(messages[i].id, k)
    /\ messages[i].kind = "result" =>
         \E j \in 1 .. i - 1 : messages[j].kind = "calls" /\ messages[j].id = messages[i].id

Idle == [step |-> "idle", sound |-> TRUE, round |-> 0, id |-> 0, left |-> 0, call |-> 0]
Busy == {p \in Panel : turn[p] # Idle}

\* The identifiers of a new answer differ from all that are still in use.
FreshId ==
  Min(Id \ ({history[i].id : i \in DOMAIN history} \cup {turn[p].id : p \in Panel}))

\* MUTANT of Following: rounds are not counted.
Uncounted(round) == round

Following(round) == round + 1

Init ==
  /\ history = <<>>
  /\ turn = [p \in Panel |-> Idle]
  /\ overlapped = FALSE
  /\ refused = 0

\* Whether what a turn is seeded with is sound: the transcript, and while that is empty
\* the history that the client sends along, which may be anything.
Seeds == IF history = <<>> THEN BOOLEAN ELSE {Sound(history)}

\* chat, once the provider and its key are resolved: the turn gets its copy. (A turn
\* that has no message, no provider or no key ends here and changes nothing.)
Begin(p) ==
  /\ turn[p] = Idle
  /\ \E sound \in Seeds :
       turn' = [turn EXCEPT ![p] = [Idle EXCEPT !.step = "begun", !.sound = sound]]
  /\ overlapped' = (overlapped \/ Busy # {})
  /\ UNCHANGED <<history, refused>>

\* The user's message is pushed, whatever becomes of the turn.
PushUser(p) ==
  /\ turn[p].step = "begun"
  /\ Push(User)
  /\ turn' = [turn EXCEPT ![p].step = "asking", ![p].round = 1]
  /\ UNCHANGED <<overlapped, refused>>

Asking(p) == turn[p].step = "asking" /\ turn[p].round <= MaxRounds

\* An answer without calls ends the turn.
Reply(p) ==
  /\ Asking(p)
  /\ Push(Assistant)
  /\ turn' = [turn EXCEPT ![p] = Idle]
  /\ refused' = 0
  /\ UNCHANGED overlapped

\* An answer with calls, with or without text beside them.
Call(p, n) ==
  /\ Asking(p)
  /\ Push(Calling(FreshId, n))
  /\ turn' = [turn EXCEPT ![p].step = "tools", ![p].id = FreshId, ![p].left = n, ![p].call = 1]
  /\ refused' = 0
  /\ UNCHANGED overlapped

\* A tool returns, with a result or an error, and the next call or round follows.
ToolReturns(p) ==
  /\ turn[p].step = "tools"
  /\ Push(Result(turn[p].id, turn[p].call))
  /\ turn' = [turn EXCEPT ![p] =
       IF turn[p].left > 1
       THEN [turn[p] EXCEPT !.left = turn[p].left - 1, !.call = turn[p].call + 1]
       ELSE [Idle EXCEPT !.step = "asking", !.sound = turn[p].sound,
                         !.round = Following(turn[p].round)]]
  /\ refused' = 0
  /\ UNCHANGED overlapped

\* Both tries fail, or the answer has no message: the turn ends in an error, and what
\* it has pushed stays.
Fail(p) ==
  /\ Asking(p)
  /\ turn' = [turn EXCEPT ![p] = Idle]
  /\ refused' = IF turn[p].sound THEN refused ELSE refused + 1
  /\ UNCHANGED <<history, overlapped>>

\* The turn has used its rounds: the panel is told so, the transcript is not.
ReachLimit(p) ==
  /\ turn[p].step = "asking" /\ turn[p].round > MaxRounds
  /\ turn' = [turn EXCEPT ![p] = Idle]
  /\ UNCHANGED <<history, overlapped, refused>>

\* POST /api/agent/clear, at any time.
Clear ==
  /\ history' = <<>>
  /\ overlapped' = (overlapped /\ Busy # {})
  /\ refused' = 0
  /\ UNCHANGED turn

\* What a turn does once it has begun.
Advance(p) ==
  \/ PushUser(p)
  \/ Reply(p)
  \/ \E n \in 1 .. MaxCalls : Call(p, n)
  \/ ToolReturns(p)
  \/ Fail(p)
  \/ ReachLimit(p)

Next ==
  \/ \E p \in Panel : Begin(p) \/ Advance(p)
  \/ Clear

\* A thread runs on, a request to the provider times out (150 s) and a tool returns.
Spec == Init /\ [][Next]_vars /\ \A p \in Panel : WF_vars(Advance(p))

--------------------------------------------------------------------------------
(* Properties. *)

Turn ==
  [step : {"idle", "begun", "asking", "tools"}, sound : BOOLEAN, round : 0 .. MaxRounds + 1,
   id : Id \cup {0}, left : 0 .. MaxCalls, call : 0 .. MaxCalls]

\* Every variable has its type, and the transcript its limit.
TypeOK ==
  /\ history \in Seq(Message) /\ Len(history) <= MaxHistory
  /\ turn \in [Panel -> Turn]
  /\ overlapped \in BOOLEAN
  /\ refused \in Nat

Orphans(k) == \A i \in 1 .. k : history[i].kind = "result"

\* The cut, a transcript cleared during a turn and a turn that fails half way only
\* ever leave results without their call at the head of the transcript: behind them,
\* between turns that did not overlap, calls and results match (agent_chat.rs:116-124,
\* 1230-1299).
OrphansOnlyAtHead ==
  Busy = {} /\ ~overlapped =>
    \E k \in 0 .. Len(history) :
      Orphans(k) /\ Sound(SubSeq(history, k + 1, Len(history)))

\* A transcript that the provider refuses repairs itself, since every refused turn
\* leaves its user's message and drives an older one out: no more refusals follow a
\* message of another kind than the transcript holds messages, and those of the
\* turns that were open when it was pushed or had read the transcript when its last
\* trace was cut. A client's own history that is refused keeps to the same bound,
\* because the first message in the transcript puts it out of use. Each clearing brings
\* it back, and the count starts anew: a client that goes on clearing and sending the
\* same history is refused for ever (agent_chat.rs:116-124, 1148-1155, 1176-1183, 1209).
RefusalsRunOut == refused <= MaxHistory + 2 * Cardinality(Panel) - 1

\* Every turn ends, with an answer, an error or the limit of its rounds
\* (agent_chat.rs:1190-1199).
EveryTurnEnds == \A p \in Panel : turn[p] # Idle ~> turn[p] = Idle
================================================================================
