---------------------------- MODULE AgentChatProofs ----------------------------
(***************************************************************************)
(* Theorems about AgentChat: for every number of panels, every length of   *)
(* the transcript and every number of rounds and calls.                    *)
(***************************************************************************)
EXTENDS AgentChat, FiniteSetTheorems, TLAPS

USE ChatAssumption

--------------------------------------------------------------------------------
(* Numbers, and the identifiers that are left. *)

LEMMA Limits ==
  /\ MaxHistory \in Nat \ {0} /\ MaxRounds \in Nat \ {0} /\ MaxCalls \in Nat \ {0}
  /\ Cardinality(Panel) \in Nat \ {0}
  BY FS_CardinalityType, FS_EmptySet

LEMMA GreaterOf ==
  ASSUME NEW a \in Int, NEW b \in Int
  PROVE  Max({a, b}) = IF a >= b THEN a ELSE b
<1> DEFINE m == IF a >= b THEN a ELSE b
<1>1. m \in {a, b} /\ \A n \in {a, b} : m >= n
  OBVIOUS
<1>2. \A k \in {a, b} : (\A n \in {a, b} : k >= n) => k = m
  OBVIOUS
<1> QED
  BY <1>1, <1>2 DEF Max

LEMMA LeastOf ==
  ASSUME NEW S \in SUBSET Nat, S # {}
  PROVE  Min(S) \in S
<1> DEFINE less == {pair \in Nat \X Nat : pair[1] < pair[2]}
<1>1. less = OpToRel(<, Nat)
  BY DEF OpToRel
<1>2. IsWellFoundedOn(less, Nat)
  BY <1>1, NatLessThanWellFounded
<1> HIDE DEF less
<1>3. PICK x \in S : \A y \in S : ~(<<y, x>> \in less)
  BY <1>2, WFMin
<1>4. ASSUME NEW y \in S PROVE x <= y
  <2>1. <<y, x>> \in Nat \X Nat /\ <<y, x>>[1] = y /\ <<y, x>>[2] = x
    OBVIOUS
  <2>2. ~(y < x)
    BY <1>3, <2>1 DEF less
  <2> QED
    BY <2>2
<1> QED
  BY <1>4 DEF Min

\* A set that another one is mapped onto is no larger.
LEMMA MappedOnto ==
  ASSUME NEW S, NEW T, IsFiniteSet(S), NEW f \in [S -> T], \A t \in T : \E s \in S : f[s] = t
  PROVE  IsFiniteSet(T) /\ Cardinality(T) <= Cardinality(S)
<1>1. f \in Surjection(S, T)
  BY DEF Surjection
<1> QED
  BY <1>1, FS_Surjection

\* There are more identifiers than messages and turns together.
LEMMA FreshIsId ==
  ASSUME history \in Seq(Message), Len(history) <= MaxHistory, turn \in [Panel -> Turn]
  PROVE  FreshId \in Id
<1> DEFINE ids == {history[i].id : i \in DOMAIN history}
           open == {turn[p].id : p \in Panel}
<1>1. IsFiniteSet(ids) /\ Cardinality(ids) <= MaxHistory /\ Cardinality(ids) \in Nat
  <2>1. DOMAIN history = 1 .. Len(history) /\ Len(history) \in Nat
    OBVIOUS
  <2>2. IsFiniteSet(DOMAIN history) /\ Cardinality(DOMAIN history) = Len(history)
    <3> DEFINE n == Len(history)
    <3>1. n \in Nat
      BY <2>1
    <3> HIDE DEF n
    <3>2. \A b \in Int : IsFiniteSet(1 .. b) /\ Cardinality(1 .. b) = IF 1 > b THEN 0 ELSE b - 1 + 1
      <4>1. 1 \in Int
        OBVIOUS
      <4> QED
        BY <4>1, FS_Interval, Zenon
    <3>3. IsFiniteSet(1 .. n) /\ Cardinality(1 .. n) = n
      BY <3>1, <3>2
    <3> QED
      BY <2>1, <3>3 DEF n
  <2> DEFINE f == [i \in DOMAIN history |-> history[i].id]
  <2>3. f \in [DOMAIN history -> ids]
    OBVIOUS
  <2>4. \A t \in ids : \E s \in DOMAIN history : f[s] = t
    OBVIOUS
  <2> HIDE DEF ids, f
  <2>5. IsFiniteSet(ids) /\ Cardinality(ids) <= Len(history)
    BY <2>2, <2>3, <2>4, MappedOnto
  <2>6. Cardinality(ids) \in Nat
    BY <2>5, FS_CardinalityType
  <2> QED
    BY <2>1, <2>5, <2>6, Limits
<1>2. IsFiniteSet(open) /\ Cardinality(open) <= Cardinality(Panel) /\ Cardinality(open) \in Nat
  <2>1. [p \in Panel |-> turn[p].id] \in [Panel -> open]
    OBVIOUS
  <2>2. \A t \in open : \E s \in Panel : [p \in Panel |-> turn[p].id][s] = t
    OBVIOUS
  <2> HIDE DEF open
  <2>3. IsFiniteSet(open) /\ Cardinality(open) <= Cardinality(Panel)
    BY <2>1, <2>2, MappedOnto
  <2> QED
    BY <2>3, FS_CardinalityType
<1> HIDE DEF ids, open
<1>3. /\ IsFiniteSet(ids \cup open) /\ Cardinality(ids \cup open) \in Nat
      /\ Cardinality(ids \cup open) <= MaxHistory + Cardinality(Panel)
  <2>1. IsFiniteSet(ids \cup open)
        /\ Cardinality(ids \cup open) = Cardinality(ids) + Cardinality(open) - Cardinality(ids \cap open)
    BY <1>1, <1>2, FS_Union
  <2>2. Cardinality(ids \cap open) \in Nat
    BY <1>1, FS_Subset, FS_CardinalityType
  <2> QED
    BY <1>1, <1>2, <2>1, <2>2, FS_CardinalityType, Limits
<1>4. IsFiniteSet(Id) /\ Cardinality(Id) = MaxHistory + Cardinality(Panel) + 1 /\ Id \subseteq Nat
  <2> DEFINE n == MaxHistory + Cardinality(Panel) + 1
  <2>1. n \in Nat /\ n >= 1 /\ Id = 1 .. n
    BY Limits DEF Id
  <2> HIDE DEF n
  <2>2. IsFiniteSet(Id) /\ Cardinality(Id) = n /\ Id \subseteq Nat
    BY <2>1, FS_Interval
  <2> QED
    BY <2>2 DEF n
<1>5. Id \ (ids \cup open) # {}
  <2> SUFFICES ASSUME Id \subseteq ids \cup open PROVE FALSE
    OBVIOUS
  <2>1. Cardinality(Id) <= Cardinality(ids \cup open)
    BY <1>3, FS_Subset
  <2> QED
    BY <1>3, <1>4, <2>1, Limits
<1>6. Min(Id \ (ids \cup open)) \in Id \ (ids \cup open)
  BY <1>4, <1>5, LeastOf
<1> QED
  BY <1>6 DEF FreshId, ids, open

--------------------------------------------------------------------------------
(* What a step does to the transcript and to its turn. *)

\* A message is pushed at the end, and one drops out at the front if there are as many
\* as there may be.
LEMMA Pushed ==
  ASSUME history \in Seq(Message), Len(history) <= MaxHistory, NEW m \in Message, Push(m)
  PROVE  /\ history' \in Seq(Message) /\ Len(history') <= MaxHistory
         /\ \E d \in {0, 1} :
              /\ Len(history') = Len(history) + 1 - d /\ (d = 1 => Len(history) >= 1)
              /\ \A i \in 1 .. Len(history) - d : history'[i] = history[i + d]
              /\ history'[Len(history')] = m
<1> DEFINE n == Len(history)
           q == Append(history, m)
           o == Max({1, Len(q) - MaxHistory + 1})
<1>1. /\ n \in Nat /\ n <= MaxHistory /\ MaxHistory \in Nat \ {0}
      /\ q \in Seq(Message) /\ Len(q) = n + 1 /\ q[n + 1] = m
      /\ \A i \in 1 .. n : q[i] = history[i]
  BY Limits
<1>2. history' = SubSeq(q, o, Len(q))
  BY DEF Push, Kept
<1>3. o = IF 1 >= Len(q) - MaxHistory + 1 THEN 1 ELSE Len(q) - MaxHistory + 1
  BY <1>1, GreaterOf
<1> HIDE DEF n, q, o
<1>4. CASE n < MaxHistory
  <2>0. Len(q) = n + 1 /\ o = 1
    BY <1>1, <1>3, <1>4
  <2>1. history' = SubSeq(q, 1, n + 1)
    BY <1>2, <2>0
  <2>2. history' \in Seq(Message) /\ Len(history') = n + 1 /\ \A i \in 1 .. n + 1 : history'[i] = q[i]
    BY <1>1, <2>1
  <2>3. Len(history') <= MaxHistory /\ \A i \in 1 .. n - 0 : history'[i] = history[i + 0]
    BY <1>1, <1>4, <2>2
  <2> QED
    BY <1>1, <2>2, <2>3 DEF n
<1>5. CASE n = MaxHistory
  <2>0. Len(q) = n + 1 /\ o = 2
    BY <1>1, <1>3, <1>5
  <2>1. history' = SubSeq(q, 2, n + 1)
    BY <1>2, <2>0
  <2>2. history' \in Seq(Message) /\ Len(history') = n /\ \A i \in 1 .. n : history'[i] = q[i + 1]
    BY <1>1, <2>1
  <2>3. Len(history') <= MaxHistory /\ history'[n] = m
    BY <1>1, <1>5, <2>2
  <2>4. ASSUME NEW i \in 1 .. n - 1 PROVE history'[i] = history[i + 1]
    <3>1. i \in 1 .. n /\ i + 1 \in 1 .. n
      BY <1>1
    <3> QED
      BY <1>1, <2>2, <3>1
  <2> QED
    BY <1>1, <1>5, <2>2, <2>3, <2>4 DEF n
<1> QED
  BY <1>1, <1>4, <1>5

LEMMA Messages ==
  /\ User \in Message /\ Assistant \in Message
  /\ \A id \in Id, n \in 1 .. MaxCalls : Calling(id, n) \in Message /\ Result(id, n) \in Message
  BY DEF User, Assistant, Calling, Result, Message

Moved(p, t) == turn' = [turn EXCEPT ![p] = t]

\* The turn of each step, written out.
LEMMA Written ==
  ASSUME NEW t \in Turn
  PROVE  t = [step |-> t.step, sound |-> t.sound, round |-> t.round,
              id |-> t.id, left |-> t.left, call |-> t.call]
  BY DEF Turn

LEMMA IdleIsTurn == Idle \in Turn
  BY Limits DEF Idle, Turn

LEMMA BegunTurn ==
  ASSUME TypeOK, NEW p \in Panel, Begin(p)
  PROVE  \E sound \in BOOLEAN :
           /\ history # <<>> => sound = Sound(history)
           /\ Moved(p, [step |-> "begun", sound |-> sound, round |-> 0, id |-> 0, left |-> 0, call |-> 0])
<1>1. PICK sound \in Seeds :
        turn' = [turn EXCEPT ![p] = [[Idle EXCEPT !.step = "begun"] EXCEPT !.sound = sound]]
  BY DEF Begin
<1>a. sound \in BOOLEAN /\ (history # <<>> => sound = Sound(history))
  BY DEF Seeds, Sound
<1> DEFINE t == [[Idle EXCEPT !.step = "begun"] EXCEPT !.sound = sound]
<1>2. turn' = [turn EXCEPT ![p] = t]
  BY <1>1
<1>3. t \in Turn /\ t.step = "begun" /\ t.sound = sound
      /\ t.round = Idle.round /\ t.id = Idle.id /\ t.left = Idle.left /\ t.call = Idle.call
  BY <1>a, IdleIsTurn DEF Turn
<1>4. Idle.round = 0 /\ Idle.id = 0 /\ Idle.left = 0 /\ Idle.call = 0
  BY DEF Idle
<1> HIDE DEF t
<1>5. t = [step |-> "begun", sound |-> sound, round |-> 0, id |-> 0, left |-> 0, call |-> 0]
  BY <1>3, <1>4, Written
<1> QED
  BY <1>a, <1>2, <1>5 DEF Moved

LEMMA PushedTurn ==
  ASSUME TypeOK, NEW p \in Panel, PushUser(p)
  PROVE  Moved(p, [step |-> "asking", sound |-> turn[p].sound, round |-> 1,
                   id |-> turn[p].id, left |-> turn[p].left, call |-> turn[p].call])
<1> DEFINE t == [[turn[p] EXCEPT !.step = "asking"] EXCEPT !.round = 1]
<1>1. turn \in [Panel -> Turn] /\ turn[p] \in Turn
  BY DEF TypeOK
<1>2. turn' = [turn EXCEPT ![p] = t]
  BY <1>1 DEF PushUser, Turn
<1>a. 1 \in 0 .. MaxRounds + 1
  BY Limits
<1>3. t \in Turn /\ t.step = "asking" /\ t.sound = turn[p].sound /\ t.round = 1
      /\ t.id = turn[p].id /\ t.left = turn[p].left /\ t.call = turn[p].call
  BY <1>1, <1>a DEF Turn
<1> HIDE DEF t
<1> QED
  BY <1>2, <1>3, Written DEF Moved

LEMMA CalledTurn ==
  ASSUME TypeOK, NEW p \in Panel, NEW n \in 1 .. MaxCalls, Call(p, n)
  PROVE  Moved(p, [step |-> "tools", sound |-> turn[p].sound, round |-> turn[p].round,
                   id |-> FreshId, left |-> n, call |-> 1])
<1> DEFINE id == FreshId
           t == [[[[turn[p] EXCEPT !.step = "tools"] EXCEPT !.id = id] EXCEPT !.left = n] EXCEPT !.call = 1]
<1>1. turn \in [Panel -> Turn] /\ turn[p] \in Turn /\ id \in Id
  BY FreshIsId DEF TypeOK
<1>2. turn' = [turn EXCEPT ![p].step = "tools", ![p].id = id, ![p].left = n, ![p].call = 1]
  BY DEF Call
<1> HIDE DEF id
<1>3. turn' = [turn EXCEPT ![p] = t]
  BY <1>1, <1>2 DEF Turn
<1>a. n \in 0 .. MaxCalls /\ 1 \in 0 .. MaxCalls /\ id \in Id \cup {0}
  BY <1>1, Limits
<1>4. t \in Turn /\ t.step = "tools" /\ t.sound = turn[p].sound /\ t.round = turn[p].round
      /\ t.id = id /\ t.left = n /\ t.call = 1
  BY <1>1, <1>a DEF Turn
<1> HIDE DEF t
<1> QED
  BY <1>3, <1>4, Written DEF Moved, id

LEMMA ReturnedTurn ==
  ASSUME TypeOK, NEW p \in Panel, ToolReturns(p), turn[p].left \in 1 .. MaxCalls,
         turn[p].left + turn[p].call <= MaxCalls + 1, turn[p].round <= MaxRounds
  PROVE  Moved(p,
           IF turn[p].left > 1
           THEN [step |-> "tools", sound |-> turn[p].sound, round |-> turn[p].round,
                 id |-> turn[p].id, left |-> turn[p].left - 1, call |-> turn[p].call + 1]
           ELSE [step |-> "asking", sound |-> turn[p].sound, round |-> turn[p].round + 1,
                 id |-> 0, left |-> 0, call |-> 0])
<1>1. turn \in [Panel -> Turn] /\ turn[p] \in Turn /\ turn[p].step = "tools"
  BY DEF TypeOK, ToolReturns
<1>2. CASE turn[p].left > 1
  <2> DEFINE left == turn[p].left - 1
             call == turn[p].call + 1
             t == [turn[p] EXCEPT !.left = left, !.call = call]
             other == [Idle EXCEPT !.step = "asking", !.sound = turn[p].sound,
                                   !.round = Following(turn[p].round)]
  <2>1. turn' = [turn EXCEPT ![p] = IF turn[p].left > 1 THEN t ELSE other]
    BY DEF ToolReturns
  <2>2. left \in 0 .. MaxCalls /\ call \in 0 .. MaxCalls
    BY <1>1, <1>2, Limits DEF Turn
  <2> HIDE DEF left, call
  <2>3. t \in Turn /\ t.step = "tools" /\ t.sound = turn[p].sound /\ t.round = turn[p].round
        /\ t.id = turn[p].id /\ t.left = left /\ t.call = call
    BY <1>1, <2>2 DEF Turn
  <2> HIDE DEF t, other
  <2>4. t = [step |-> "tools", sound |-> turn[p].sound, round |-> turn[p].round,
             id |-> turn[p].id, left |-> left, call |-> call]
    BY <2>3, Written
  <2> QED
    BY <1>2, <2>1, <2>4 DEF Moved, left, call
<1>3. CASE ~(turn[p].left > 1)
  <2> DEFINE sound == turn[p].sound
             round == turn[p].round + 1
             t == [[[Idle EXCEPT !.step = "asking"] EXCEPT !.sound = sound] EXCEPT !.round = round]
  <2>1. sound \in BOOLEAN /\ round \in 0 .. MaxRounds + 1
    BY <1>1, Limits DEF Turn
  <2>2. turn' = [turn EXCEPT ![p] = t]
    BY <1>3 DEF ToolReturns, Following
  <2> HIDE DEF sound, round
  <2>3. t \in Turn /\ t.step = "asking" /\ t.sound = sound /\ t.round = round
        /\ t.id = Idle.id /\ t.left = Idle.left /\ t.call = Idle.call
    BY <2>1, IdleIsTurn DEF Turn
  <2>4. Idle.id = 0 /\ Idle.left = 0 /\ Idle.call = 0
    BY DEF Idle
  <2> HIDE DEF t
  <2>5. t = [step |-> "asking", sound |-> sound, round |-> round, id |-> 0, left |-> 0, call |-> 0]
    BY <2>3, <2>4, Written
  <2> QED
    BY <1>3, <2>2, <2>5 DEF Moved, sound, round
<1> QED
  BY <1>2, <1>3

\* A turn that ends, in whatever way, leaves its panel idle.
LEMMA EndedTurn ==
  ASSUME NEW p \in Panel, Reply(p) \/ Fail(p) \/ ReachLimit(p)
  PROVE  Moved(p, Idle) /\ turn[p].step = "asking"
  BY DEF Reply, Fail, ReachLimit, Asking, Moved

LEMMA Movement ==
  ASSUME TypeOK, NEW p \in Panel, NEW t, Moved(p, t)
  PROVE  /\ turn'[p] = t /\ \A q \in Panel \ {p} : turn'[q] = turn[q]
         /\ t \in Turn => turn' \in [Panel -> Turn]
  BY DEF TypeOK, Moved

--------------------------------------------------------------------------------
(* Types. *)

\* A panel without a turn is Idle, and one whose tools run has calls left, of an answer
\* with no more than there may be.
Going(t) ==
  /\ t.step = "idle" => t = Idle
  /\ t.step = "asking" => t.round >= 1
  /\ t.step = "tools" =>
       /\ t.id \in Id /\ t.left >= 1 /\ t.call >= 1 /\ t.left + t.call <= MaxCalls + 1
       /\ t.round \in 1 .. MaxRounds
Started == \A p \in Panel : Going(turn[p])

LEMMA IdleIsGoing == Going(Idle)
  BY DEF Idle, Going

LEMMA StartedMoves ==
  ASSUME TypeOK, Started, NEW p \in Panel, NEW t, Moved(p, t), t \in Turn, Going(t)
  PROVE  Started' /\ turn' \in [Panel -> Turn]
  BY Movement DEF Started

LEMMA StepTypes == TypeOK /\ Started /\ [Next]_vars => TypeOK' /\ Started'
<1> SUFFICES ASSUME TypeOK, Started, [Next]_vars PROVE TypeOK' /\ Started'
  OBVIOUS
<1>0. /\ history \in Seq(Message) /\ Len(history) <= MaxHistory /\ turn \in [Panel -> Turn]
      /\ overlapped \in BOOLEAN /\ refused \in Nat
      /\ \A p \in Panel : turn[p] \in Turn /\ Going(turn[p])
  BY DEF TypeOK, Started
<1>1. ASSUME NEW p \in Panel, Begin(p) PROVE TypeOK' /\ Started'
  <2>1. PICK sound \in BOOLEAN :
          Moved(p, [step |-> "begun", sound |-> sound, round |-> 0, id |-> 0, left |-> 0, call |-> 0])
    BY <1>1, BegunTurn
  <2> DEFINE t == [step |-> "begun", sound |-> sound, round |-> 0, id |-> 0, left |-> 0, call |-> 0]
  <2>2. t \in Turn /\ Going(t)
    <3>2. t \in Turn
      BY Limits DEF Turn
    <3> QED
      BY <3>2 DEF Going
  <2>3. Moved(p, t)
    BY <2>1
  <2> HIDE DEF t
  <2>4. Started' /\ turn' \in [Panel -> Turn]
    BY <2>2, <2>3, StartedMoves
  <2>5. UNCHANGED <<history, refused>> /\ overlapped' \in BOOLEAN
    BY <1>0, <1>1 DEF Begin
  <2> QED
    BY <1>0, <2>4, <2>5 DEF TypeOK
<1>2. ASSUME NEW p \in Panel, PushUser(p) PROVE TypeOK' /\ Started'
  <2> DEFINE t == [step |-> "asking", sound |-> turn[p].sound, round |-> 1,
                   id |-> turn[p].id, left |-> turn[p].left, call |-> turn[p].call]
  <2>1. t \in Turn /\ Going(t)
    BY <1>0, Limits DEF Turn, Going
  <2>2. Moved(p, t)
    BY <1>2, PushedTurn
  <2> HIDE DEF t
  <2>3. Started' /\ turn' \in [Panel -> Turn]
    BY <2>1, <2>2, StartedMoves
  <2>4. history' \in Seq(Message) /\ Len(history') <= MaxHistory
    BY <1>0, <1>2, Messages, Pushed DEF PushUser
  <2> QED
    BY <1>0, <1>2, <2>3, <2>4 DEF PushUser, TypeOK
<1>3. ASSUME NEW p \in Panel, Reply(p) PROVE TypeOK' /\ Started'
  <2>1. Started' /\ turn' \in [Panel -> Turn]
    BY <1>3, EndedTurn, IdleIsTurn, IdleIsGoing, StartedMoves
  <2>2. history' \in Seq(Message) /\ Len(history') <= MaxHistory
    BY <1>0, <1>3, Messages, Pushed DEF Reply
  <2> QED
    BY <1>0, <1>3, <2>1, <2>2 DEF Reply, TypeOK
<1>4. ASSUME NEW p \in Panel, NEW n \in 1 .. MaxCalls, Call(p, n) PROVE TypeOK' /\ Started'
  <2> DEFINE t == [step |-> "tools", sound |-> turn[p].sound, round |-> turn[p].round,
                   id |-> FreshId, left |-> n, call |-> 1]
  <2>1. FreshId \in Id
    BY <1>0, FreshIsId
  <2>2. t \in Turn /\ Going(t)
    <3>1. turn[p].round \in 1 .. MaxRounds
      BY <1>0, <1>4, Limits DEF Call, Asking, Going, Turn
    <3> QED
      BY <1>0, <2>1, <3>1, Limits DEF Turn, Going
  <2>3. Moved(p, t)
    BY <1>4, CalledTurn
  <2> HIDE DEF t
  <2>4. Started' /\ turn' \in [Panel -> Turn]
    BY <2>2, <2>3, StartedMoves
  <2>5. Calling(FreshId, n) \in Message
    BY <2>1, Messages
  <2>6. history' \in Seq(Message) /\ Len(history') <= MaxHistory
    BY <1>0, <1>4, <2>5, Pushed DEF Call
  <2> QED
    BY <1>0, <1>4, <2>4, <2>6 DEF Call, TypeOK
<1>5. ASSUME NEW p \in Panel, ToolReturns(p) PROVE TypeOK' /\ Started'
  <2>1. turn[p].step = "tools"
    BY <1>5 DEF ToolReturns
  <2>2. /\ turn[p].id \in Id /\ turn[p].left \in 1 .. MaxCalls /\ turn[p].call \in 1 .. MaxCalls
        /\ turn[p].left + turn[p].call <= MaxCalls + 1 /\ turn[p].round \in 1 .. MaxRounds
        /\ turn[p].sound \in BOOLEAN
    BY <1>0, <2>1, Limits DEF Going, Turn
  <2> DEFINE more == [step |-> "tools", sound |-> turn[p].sound, round |-> turn[p].round,
                      id |-> turn[p].id, left |-> turn[p].left - 1, call |-> turn[p].call + 1]
             last == [step |-> "asking", sound |-> turn[p].sound, round |-> turn[p].round + 1,
                      id |-> 0, left |-> 0, call |-> 0]
  <2>3. turn[p].left > 1 => more \in Turn /\ Going(more)
    BY <2>2, Limits DEF Turn, Going
  <2>4. last \in Turn /\ Going(last)
    BY <2>2, Limits DEF Turn, Going
  <2>5. Moved(p, IF turn[p].left > 1 THEN more ELSE last)
    BY <1>5, <2>2, ReturnedTurn
  <2> HIDE DEF more, last
  <2>6. Started' /\ turn' \in [Panel -> Turn]
    BY <2>3, <2>4, <2>5, StartedMoves
  <2>7. history' \in Seq(Message) /\ Len(history') <= MaxHistory
    <3>1. Result(turn[p].id, turn[p].call) \in Message
      BY <2>2, Messages
    <3> QED
      BY <1>0, <1>5, <3>1, Pushed DEF ToolReturns
  <2> QED
    BY <1>0, <1>5, <2>6, <2>7 DEF ToolReturns, TypeOK
<1>6. ASSUME NEW p \in Panel, Fail(p) \/ ReachLimit(p) PROVE TypeOK' /\ Started'
  <2>1. Started' /\ turn' \in [Panel -> Turn]
    BY <1>6, EndedTurn, IdleIsTurn, IdleIsGoing, StartedMoves
  <2> QED
    BY <1>0, <1>6, <2>1 DEF Fail, ReachLimit, TypeOK
<1>7. CASE Clear
  <2>1. <<>> \in Seq(Message) /\ Len(<<>>) <= MaxHistory
    BY Limits
  <2> QED
    BY <1>0, <1>7, <2>1 DEF Clear, TypeOK, Started
<1>8. CASE UNCHANGED vars
  BY <1>0, <1>8 DEF vars, TypeOK, Started
<1> QED
  BY <1>1, <1>2, <1>3, <1>4, <1>5, <1>6, <1>7, <1>8 DEF Next, Advance

LEMMA Typed == Spec => [](TypeOK /\ Started)
<1>1. Init => TypeOK /\ Started
  <2>1. <<>> \in Seq(Message) /\ Len(<<>>) <= MaxHistory
    BY Limits
  <2>2. ASSUME Init PROVE TypeOK /\ Started
    <3>1. turn \in [Panel -> Turn] /\ Started
      BY <2>2, IdleIsTurn, IdleIsGoing DEF Init, Started
    <3> QED
      BY <2>1, <2>2, <3>1 DEF Init, TypeOK
  <2> QED
    BY <2>2
<1> QED
  BY <1>1, StepTypes, PTL DEF Spec

\* Type correctness: the transcript holds messages and never more than its limit, every
\* turn is what its step says, and there is always an identifier left for an answer
\* (agent_chat.rs:116-124, 1190-1299).
THEOREM TypeCorrect == Spec => []TypeOK
  BY Typed, PTL

--------------------------------------------------------------------------------
(* How often the provider can refuse a transcript. *)

\* The turns that have read a transcript the provider refuses, once they have pushed
\* their user's message and before.
Asked == {p \in Panel : ~turn[p].sound /\ turn[p].step # "begun"}
Waiting == {p \in Panel : ~turn[p].sound /\ turn[p].step = "begun"}
Mixed == \E i \in 1 .. Len(history) : history[i].kind # "user"

\* Refusals, past and to come from turns that have asked, are behind a message of another
\* kind than a user's like the messages pushed since, but for one of each panel: while
\* such a message is there, they are few.  When the last one has gone, no turn reads
\* anything but users' messages, and only those that wait can still ask.  While the
\* transcript is empty every panel has been refused, or can be, for what it has asked,
\* and may wait with a history of its client's.
Bounded ==
  \A i \in 1 .. Len(history) :
    history[i].kind # "user" =>
      refused + Cardinality(Asked) <= Len(history) - i + Cardinality(Panel)
Spent ==
  refused + Cardinality(Asked) + Cardinality(Waiting) <= MaxHistory + 2 * Cardinality(Panel) - 1
Cleared == history = <<>> => refused + Cardinality(Asked) <= Cardinality(Panel)
Refusing == Bounded /\ Cleared /\ (~Mixed => Spent)

LEMMA Groups ==
  \A S \in SUBSET Panel : \A p \in Panel :
    /\ IsFiniteSet(S) /\ Cardinality(S) \in Nat /\ Cardinality(S) <= Cardinality(Panel)
    /\ Cardinality(S \cup {p}) = IF p \in S THEN Cardinality(S) ELSE Cardinality(S) + 1
    /\ Cardinality(S \ {p}) = IF p \in S THEN Cardinality(S) - 1 ELSE Cardinality(S)
<1> SUFFICES ASSUME NEW S \in SUBSET Panel, NEW p \in Panel
             PROVE  /\ IsFiniteSet(S) /\ Cardinality(S) \in Nat /\ Cardinality(S) <= Cardinality(Panel)
                    /\ Cardinality(S \cup {p}) = IF p \in S THEN Cardinality(S) ELSE Cardinality(S) + 1
                    /\ Cardinality(S \ {p}) = IF p \in S THEN Cardinality(S) - 1 ELSE Cardinality(S)
  OBVIOUS
<1>1. IsFiniteSet(S) /\ Cardinality(S) <= Cardinality(Panel)
  BY FS_Subset
<1>2. Cardinality(S) \in Nat
  BY <1>1, FS_CardinalityType
<1>3. /\ Cardinality(S \cup {p}) = IF p \in S THEN Cardinality(S) ELSE Cardinality(S) + 1
      /\ Cardinality(S \ {p}) = IF p \in S THEN Cardinality(S) - 1 ELSE Cardinality(S)
  BY <1>1, FS_AddElement, FS_RemoveElement
<1> QED
  BY <1>1, <1>2, <1>3

\* A turn that moves changes its group alone.
LEMMA Regrouped ==
  ASSUME TypeOK, NEW p \in Panel, NEW t, Moved(p, t)
  PROVE  /\ Asked' = IF ~t.sound /\ t.step # "begun" THEN Asked \cup {p} ELSE Asked \ {p}
         /\ Waiting' = IF ~t.sound /\ t.step = "begun" THEN Waiting \cup {p} ELSE Waiting \ {p}
<1>1. turn'[p] = t /\ \A q \in Panel \ {p} : turn'[q] = turn[q]
  BY Movement
<1> QED
  BY <1>1 DEF Asked, Waiting

LEMMA UsersAreSound == ~Mixed /\ history \in Seq(Message) => Sound(history)
  BY DEF Mixed, Sound

LEMMA SpentWhileMixed == TypeOK /\ Refusing => Spent
<1> SUFFICES ASSUME TypeOK, Refusing, Mixed PROVE Spent
  BY DEF Refusing
<1>1. PICK i \in 1 .. Len(history) : history[i].kind # "user"
  BY DEF Mixed
<1> DEFINE a == Cardinality(Asked)
           w == Cardinality(Waiting)
           c == Cardinality(Panel)
<1>2. refused + a <= Len(history) - i + c
  BY <1>1 DEF Refusing, Bounded
<1>3. a \in Nat /\ w \in Nat /\ w <= c /\ c \in Nat
  BY Groups, Limits DEF Asked, Waiting
<1>4. Len(history) \in Nat /\ Len(history) <= MaxHistory /\ refused \in Nat
  BY DEF TypeOK
<1> HIDE DEF a, w, c
<1>5. refused + a + w <= MaxHistory + 2 * c - 1
  BY <1>1, <1>2, <1>3, <1>4, Limits
<1> QED
  BY <1>5 DEF Spent, a, w, c

\* A step that pushes another message than a user's, and resets the refusals.
LEMMA Reset ==
  ASSUME TypeOK, NEW m \in Message, m.kind # "user", Push(m), refused' = 0
  PROVE  Refusing'
<1>1. /\ history' \in Seq(Message) /\ Len(history') >= 1 /\ Len(history') \in Nat
      /\ history'[Len(history')] = m
  BY Pushed DEF TypeOK
<1>2. Mixed'
  BY <1>1 DEF Mixed
<1>3. Asked' \in SUBSET Panel
  BY DEF Asked
<1>4. Cardinality(Asked') \in Nat /\ Cardinality(Asked') <= Cardinality(Panel) /\ Cardinality(Panel) \in Nat
  BY <1>3, Groups, Limits
<1>5. Bounded'
  BY <1>1, <1>4 DEF Bounded
<1>6. Cleared'
  BY <1>1 DEF Cleared
<1> QED
  BY <1>2, <1>5, <1>6 DEF Refusing

\* A step that leaves the transcript and adds nothing to the sums.
LEMMA Quiet ==
  ASSUME TypeOK, Refusing, history' = history, refused' \in Nat,
         refused' + Cardinality(Asked') <= refused + Cardinality(Asked),
         ~Mixed' =>
           refused' + Cardinality(Asked') + Cardinality(Waiting') <=
             refused + Cardinality(Asked) + Cardinality(Waiting)
  PROVE  Refusing'
<1>0. Spent
  BY SpentWhileMixed
<1>1. Asked \in SUBSET Panel /\ Waiting \in SUBSET Panel /\ Asked' \in SUBSET Panel /\ Waiting' \in SUBSET Panel
  BY DEF Asked, Waiting
<1>2. /\ Cardinality(Asked) \in Nat /\ Cardinality(Waiting) \in Nat /\ Cardinality(Panel) \in Nat
      /\ Cardinality(Asked') \in Nat /\ Cardinality(Waiting') \in Nat /\ refused \in Nat
      /\ Len(history) \in Nat
  <2>1. refused \in Nat /\ Len(history) \in Nat /\ Cardinality(Panel) \in Nat
    BY Limits DEF TypeOK
  <2>2. \A S \in SUBSET Panel : Cardinality(S) \in Nat
    BY Groups
  <2> QED
    BY <1>1, <2>1, <2>2
<1>3. Bounded'
  <2> SUFFICES ASSUME NEW i \in 1 .. Len(history), history[i].kind # "user"
               PROVE  refused' + Cardinality(Asked') <= Len(history) - i + Cardinality(Panel)
    BY DEF Bounded
  <2>1. refused + Cardinality(Asked) <= Len(history) - i + Cardinality(Panel)
    BY DEF Refusing, Bounded
  <2> QED
    BY <1>2, <2>1
<1>4. ~Mixed' => Spent'
  BY <1>0, <1>2, Limits DEF Spent
<1>5. Cleared'
  BY <1>2 DEF Refusing, Cleared
<1> QED
  BY <1>3, <1>4, <1>5 DEF Refusing

\* A step that leaves the transcript empty, with few refusals behind it.
LEMMA Emptied ==
  ASSUME TypeOK, history' = <<>>, refused' \in Nat,
         refused' + Cardinality(Asked') <= Cardinality(Panel)
  PROVE  Refusing'
<1>1. Asked' \in SUBSET Panel /\ Waiting' \in SUBSET Panel
  BY DEF Asked, Waiting
<1>2. /\ Cardinality(Asked') \in Nat /\ Cardinality(Waiting') \in Nat /\ Cardinality(Panel) \in Nat
      /\ Cardinality(Waiting') <= Cardinality(Panel)
  BY <1>1, Groups, Limits
<1>3. Bounded' /\ Cleared'
  BY DEF Bounded, Cleared
<1>4. Spent'
  BY <1>2, Limits DEF Spent
<1> QED
  BY <1>3, <1>4 DEF Refusing

LEMMA RefusingStep == TypeOK /\ Started /\ Refusing /\ [Next]_vars => Refusing'
<1> SUFFICES ASSUME TypeOK, Started, Refusing, [Next]_vars PROVE Refusing'
  OBVIOUS
<1>0. /\ history \in Seq(Message) /\ Len(history) <= MaxHistory /\ Len(history) \in Nat
      /\ refused \in Nat /\ \A p \in Panel : turn[p] \in Turn /\ Going(turn[p])
  BY DEF TypeOK, Started
<1>a. Asked \in SUBSET Panel /\ Waiting \in SUBSET Panel
  BY DEF Asked, Waiting
<1>b. Cardinality(Asked) \in Nat /\ Cardinality(Waiting) \in Nat /\ Cardinality(Panel) \in Nat
  BY <1>a, Groups, Limits
\* Only a transcript with another message than users' is read as one that is refused,
\* and only an empty one is replaced by a history that may be.
<1>1. ASSUME NEW p \in Panel, Begin(p) PROVE Refusing'
  <2>0. PICK sound \in BOOLEAN :
          /\ history # <<>> => sound = Sound(history)
          /\ Moved(p, [step |-> "begun", sound |-> sound, round |-> 0, id |-> 0, left |-> 0, call |-> 0])
    BY <1>1, BegunTurn
  <2> DEFINE t == [step |-> "begun", sound |-> sound, round |-> 0, id |-> 0, left |-> 0, call |-> 0]
  <2>1. Moved(p, t)
    BY <2>0
  <2>2. t.step = "begun" /\ t.sound = sound
    OBVIOUS
  <2> HIDE DEF t
  <2>3. p \notin Asked /\ p \notin Waiting /\ UNCHANGED <<history, refused>>
    BY <1>1 DEF Begin, Asked, Waiting, Idle
  <2>4. Asked' = Asked
    BY <2>1, <2>2, <2>3, Regrouped
  <2>5. CASE history # <<>>
    <3>1. ~Mixed' => Waiting' = Waiting
      <4> SUFFICES ASSUME ~Mixed' PROVE Waiting' = Waiting
        OBVIOUS
      <4>1. Sound(history)
        BY <1>0, <2>3, UsersAreSound DEF Mixed
      <4> QED
        <5>1. t.sound
          BY <2>0, <2>2, <2>5, <4>1
        <5>2. Waiting' = Waiting \ {p}
          BY <2>1, <5>1, Regrouped
        <5> QED
          BY <2>3, <5>2 DEF Waiting
    <3> QED
      BY <1>0, <1>b, <2>3, <2>4, <3>1, Quiet
  <2>6. CASE history = <<>>
    BY <1>0, <2>3, <2>4, <2>6, Emptied DEF Refusing, Cleared
  <2> QED
    BY <2>5, <2>6
\* A turn that asks has pushed a message of its own.
<1>2. ASSUME NEW p \in Panel, PushUser(p) PROVE Refusing'
  <2> DEFINE t == [step |-> "asking", sound |-> turn[p].sound, round |-> 1,
                   id |-> turn[p].id, left |-> turn[p].left, call |-> turn[p].call]
  <2>1. Moved(p, t)
    BY <1>2, PushedTurn
  <2>2. t.step = "asking" /\ t.sound = turn[p].sound /\ turn[p].step = "begun" /\ refused' = refused
    BY <1>2 DEF PushUser
  <2> HIDE DEF t
  <2>3. p \notin Asked /\ (p \in Waiting <=> ~turn[p].sound)
    BY <2>2 DEF Asked, Waiting
  <2>4. /\ Asked' = IF p \in Waiting THEN Asked \cup {p} ELSE Asked
        /\ Waiting' = Waiting \ {p}
    BY <2>1, <2>2, <2>3, Regrouped
  <2>5. /\ Cardinality(Asked') = IF p \in Waiting THEN Cardinality(Asked) + 1 ELSE Cardinality(Asked)
        /\ Cardinality(Waiting') = IF p \in Waiting THEN Cardinality(Waiting) - 1 ELSE Cardinality(Waiting)
    BY <1>a, <2>3, <2>4, Groups
  <2>6. PICK d \in {0, 1} :
          /\ Len(history') = Len(history) + 1 - d /\ (d = 1 => Len(history) >= 1)
          /\ \A i \in 1 .. Len(history) - d : history'[i] = history[i + d]
          /\ history'[Len(history')] = User
    BY <1>0, <1>2, Messages, Pushed DEF PushUser
  <2>7. Bounded'
    <3> SUFFICES ASSUME NEW i \in 1 .. Len(history'), history'[i].kind # "user"
                 PROVE  refused' + Cardinality(Asked') <= Len(history') - i + Cardinality(Panel)
      BY DEF Bounded
    <3>1. i # Len(history')
      BY <2>6 DEF User
    <3>2. i \in 1 .. Len(history) - d /\ i + d \in 1 .. Len(history)
      BY <1>0, <2>6, <3>1
    <3>3. history[i + d].kind # "user"
      BY <2>6, <3>2
    <3>4. refused + Cardinality(Asked) <= Len(history) - (i + d) + Cardinality(Panel)
      BY <3>2, <3>3 DEF Refusing, Bounded
    <3>5. Len(history') - i = Len(history) - (i + d) + 1
      BY <1>0, <2>6
    <3>6. refused' = refused /\ Cardinality(Asked') \in Nat /\ Cardinality(Asked') <= Cardinality(Asked) + 1
      BY <1>b, <2>2, <2>5
    <3> DEFINE new == Cardinality(Asked')
               old == Cardinality(Asked)
               c == Cardinality(Panel)
               behind == Len(history) - (i + d)
    <3>7. new \in Nat /\ new <= old + 1 /\ old \in Nat /\ c \in Nat /\ behind \in Int
          /\ refused + old <= behind + c
      BY <1>0, <1>b, <3>2, <3>4, <3>6
    <3> HIDE DEF new, old, c, behind
    <3>8. refused + new <= behind + 1 + c
      BY <1>0, <3>7
    <3> QED
      BY <3>5, <3>6, <3>8 DEF new, c, behind
  <2>8. Spent'
    <3>1. Spent
      BY SpentWhileMixed
    <3>2. Cardinality(Asked') + Cardinality(Waiting') = Cardinality(Asked) + Cardinality(Waiting)
      BY <1>b, <2>5
    <3> QED
      BY <1>0, <1>b, <2>2, <2>5, <3>1, <3>2 DEF Spent
  <2>9. Cleared'
    BY <1>0, <2>6 DEF Cleared
  <2> QED
    BY <2>7, <2>8, <2>9 DEF Refusing
<1>3. ASSUME NEW p \in Panel, Reply(p) PROVE Refusing'
  <2>1. Assistant \in Message /\ Assistant.kind # "user"
    BY Messages DEF Assistant
  <2> QED
    BY <1>3, <2>1, Reset DEF Reply
<1>4. ASSUME NEW p \in Panel, NEW n \in 1 .. MaxCalls, Call(p, n) PROVE Refusing'
  <2>1. FreshId \in Id
    BY FreshIsId DEF TypeOK
  <2>2. Calling(FreshId, n) \in Message /\ Calling(FreshId, n).kind # "user"
    BY <2>1, Messages DEF Calling
  <2> QED
    BY <1>4, <2>2, Reset DEF Call
<1>5. ASSUME NEW p \in Panel, ToolReturns(p) PROVE Refusing'
  <2>1. turn[p].id \in Id /\ turn[p].call \in 1 .. MaxCalls
    BY <1>0, <1>5, Limits DEF ToolReturns, Going, Turn
  <2>2. /\ Result(turn[p].id, turn[p].call) \in Message
        /\ Result(turn[p].id, turn[p].call).kind # "user"
    BY <2>1, Messages DEF Result
  <2> QED
    BY <1>5, <2>2, Reset DEF ToolReturns
\* What has been asked for is refused, once.
<1>6. ASSUME NEW p \in Panel, Fail(p) \/ ReachLimit(p) PROVE Refusing'
  <2>1. Moved(p, Idle) /\ turn[p].step = "asking" /\ Idle.sound
    BY <1>6, EndedTurn DEF Idle
  <2>2. p \notin Waiting /\ (p \in Asked <=> ~turn[p].sound)
    BY <2>1 DEF Asked, Waiting
  <2>3. Asked' = Asked \ {p} /\ Waiting' = Waiting
    BY <2>1, <2>2, Regrouped
  <2>4. Cardinality(Asked') = IF p \in Asked THEN Cardinality(Asked) - 1 ELSE Cardinality(Asked)
    BY <1>a, <2>3, Groups
  <2>5. history' = history /\ refused' \in {refused, IF p \in Asked THEN refused + 1 ELSE refused}
    BY <1>6, <2>2 DEF Fail, ReachLimit
  <2>6. /\ refused' \in Nat
        /\ refused' + Cardinality(Asked') <= refused + Cardinality(Asked)
        /\ refused' + Cardinality(Asked') + Cardinality(Waiting') <=
             refused + Cardinality(Asked) + Cardinality(Waiting)
    BY <1>0, <1>b, <2>3, <2>4, <2>5
  <2> QED
    BY <2>5, <2>6, Quiet
<1>7. CASE UNCHANGED vars
  <2>1. history' = history /\ refused' = refused /\ Asked' = Asked /\ Waiting' = Waiting
    BY <1>7 DEF vars, Asked, Waiting
  <2> QED
    BY <1>0, <1>b, <2>1, Quiet
\* The turns that have asked are no more than the panels.
<1>8. CASE Clear
  <2>1. history' = <<>> /\ refused' = 0 /\ Asked' = Asked
    BY <1>8 DEF Clear, Asked
  <2>2. Cardinality(Asked) <= Cardinality(Panel)
    BY <1>a, Groups, Limits
  <2> QED
    BY <1>b, <2>1, <2>2, Emptied
<1> QED
  BY <1>1, <1>2, <1>3, <1>4, <1>5, <1>6, <1>7, <1>8 DEF Next, Advance

\* A transcript that the provider refuses repairs itself: every refused turn leaves its
\* user's message and drives an older one out, whatever the turns of other panels push,
\* and a client's broken history is used only until the first message after a clearing
\* (agent_chat.rs:116-124, 1148-1155, 1176-1183, 1209).
THEOREM RepairsItself == Spec => []RefusalsRunOut
<1>1. Init => Refusing
  <2>1. ASSUME Init PROVE Refusing
    <3>1. history = <<>> /\ refused = 0 /\ Asked = {} /\ Waiting = {}
      BY <2>1 DEF Init, Asked, Waiting, Idle
    <3>2. Cardinality({}) = 0
      BY FS_EmptySet
    <3> QED
      BY <3>1, <3>2, Limits DEF Refusing, Bounded, Cleared, Spent
  <2> QED
    BY <2>1
<1>2. TypeOK /\ Refusing => RefusalsRunOut
  <2> SUFFICES ASSUME TypeOK, Refusing PROVE RefusalsRunOut
    OBVIOUS
  <2>1. /\ Cardinality(Asked) \in Nat /\ Cardinality(Waiting) \in Nat /\ Cardinality(Panel) \in Nat
        /\ refused \in Nat
    BY Groups, Limits DEF Asked, Waiting, TypeOK
  <2>2. Spent
    BY SpentWhileMixed
  <2> QED
    BY <2>1, <2>2, Limits DEF Spent, RefusalsRunOut
<1> QED
  BY <1>1, <1>2, RefusingStep, Typed, PTL DEF Spec

--------------------------------------------------------------------------------
(* Where a call and its results can be apart. *)

\* The message with the calls whose results a turn is about to push.
Open(h, i, t) ==
  /\ t.step = "tools" /\ h[i].kind = "calls" /\ h[i].id = t.id
  /\ h[i].call = t.call + t.left - 1 /\ i + t.call = Len(h) + 1

\* Behind k results at its head a transcript has every result of every message with
\* calls right behind that message, but for those that the turn t has still to push, and
\* no other result; and what t has still to push belongs behind its calls, unless they
\* and all that came before them are gone.
Headed(h, k) == \A i \in 1 .. k : h[i].kind = "result"
Answered(h, k) ==
  \A i \in k + 1 .. Len(h) :
    h[i].kind = "calls" => \A j \in 1 .. h[i].call : i + j <= Len(h) => h[i + j] = Result(h[i].id, j)
Finished(h, k, t) ==
  \A i \in k + 1 .. Len(h) : h[i].kind = "calls" /\ i + h[i].call > Len(h) => Open(h, i, t)
Called(h, k) ==
  \A i \in k + 1 .. Len(h) :
    h[i].kind = "result" => \E j \in k + 1 .. i - 1 : h[j].kind = "calls" /\ i <= j + h[j].call
Pending(h, k, t) == t.step = "tools" => k = Len(h) \/ \E i \in k + 1 .. Len(h) : Open(h, i, t)
Tidy(h, k, t) == Headed(h, k) /\ Answered(h, k) /\ Finished(h, k, t) /\ Called(h, k) /\ Pending(h, k, t)

\* While turns do not overlap there is at most one, and it leaves the transcript tidy.
Alone == ~overlapped => \E p \in Panel : Busy \subseteq {p}
Tidied ==
  ~overlapped =>
    \A p \in Panel : Busy \subseteq {p} => \E k \in 0 .. Len(history) : Tidy(history, k, turn[p])

LEMMA Fields ==
  \A m \in Message : m.call \in Nat /\ m.kind \in {"user", "reply", "calls", "result"}
  BY Limits DEF Message

LEMMA Results ==
  \A id, j : Result(id, j).kind = "result" /\ Result(id, j).id = id /\ Result(id, j).call = j
  BY DEF Result

\* The first message drops out: what it called for becomes the head.
LEMMA TidyCut ==
  ASSUME NEW g \in Seq(Message), NEW h \in Seq(Message), Len(g) = Len(h) + 1,
         \A i \in 1 .. Len(h) : h[i] = g[i + 1],
         NEW t \in Turn, t.step = "tools" => t.left >= 1 /\ t.call >= 1,
         NEW k \in 0 .. Len(g), Tidy(g, k, t)
  PROVE  \E l \in 0 .. Len(h) : Tidy(h, l, t)
<1>0. /\ Len(g) \in Nat /\ Len(h) \in Nat /\ Len(g) >= 1 /\ t.call \in Int /\ t.left \in Int
      /\ \A i \in 1 .. Len(g) : g[i].call \in Nat /\ g[i].kind \in {"user", "reply", "calls", "result"}
  BY Fields DEF Turn
<1>1. Headed(g, k) /\ Answered(g, k) /\ Finished(g, k, t) /\ Called(g, k) /\ Pending(g, k, t)
  BY DEF Tidy
<1>2. ASSUME NEW i \in 1 .. Len(h) PROVE Open(h, i, t) <=> Open(g, i + 1, t)
  <2>1. h[i] = g[i + 1]
    OBVIOUS
  <2>2. i + t.call = Len(h) + 1 <=> (i + 1) + t.call = Len(g) + 1
    <3> DEFINE c == t.call
               before == Len(g)
               after == Len(h)
    <3>1. c \in Int /\ i \in Int /\ after \in Int /\ before = after + 1
      BY <1>0
    <3> HIDE DEF c, before, after
    <3>2. i + c = after + 1 <=> (i + 1) + c = before + 1
      BY <3>1
    <3> QED
      BY <3>2 DEF c, before, after
  <2> QED
    BY <2>1, <2>2, Zenon DEF Open
\* All of it moves by one, whatever is cut.
<1>3. ASSUME NEW l \in 0 .. Len(h), k <= l + 1
      PROVE  Answered(h, l) /\ Finished(h, l, t)
  <2>1. ASSUME NEW i \in l + 1 .. Len(h), h[i].kind = "calls"
        PROVE  /\ i \in 1 .. Len(h) /\ i + 1 \in k + 1 .. Len(g) /\ g[i + 1].kind = "calls"
               /\ h[i] = g[i + 1] /\ g[i + 1].call \in Nat
    BY <1>0, <1>3, <2>1
  <2>2. Answered(h, l)
    <3> SUFFICES ASSUME NEW i \in l + 1 .. Len(h), h[i].kind = "calls",
                        NEW j \in 1 .. h[i].call, i + j <= Len(h)
                 PROVE  h[i + j] = Result(h[i].id, j)
      BY DEF Answered
    <3>1. h[i] = g[i + 1] /\ i + 1 \in k + 1 .. Len(g) /\ g[i + 1].call \in Nat
      BY <2>1
    <3>2. i + j \in 1 .. Len(h) /\ (i + 1) + j <= Len(g) /\ (i + j) + 1 = (i + 1) + j
      BY <1>0, <3>1
    <3>3. g[(i + 1) + j] = Result(g[i + 1].id, j)
      BY <1>1, <2>1, <3>1, <3>2 DEF Answered
    <3> QED
      BY <3>1, <3>2, <3>3
  <2>3. Finished(h, l, t)
    <3> SUFFICES ASSUME NEW i \in l + 1 .. Len(h), h[i].kind = "calls", i + h[i].call > Len(h)
                 PROVE  Open(h, i, t)
      BY DEF Finished
    <3>1. h[i] = g[i + 1] /\ i + 1 \in k + 1 .. Len(g) /\ g[i + 1].call \in Nat /\ i \in 1 .. Len(h)
      BY <2>1
    <3>2. (i + 1) + g[i + 1].call > Len(g)
      BY <1>0, <3>1
    <3>3. Open(g, i + 1, t)
      BY <1>1, <2>1, <3>1, <3>2 DEF Finished
    <3> QED
      BY <1>2, <3>1, <3>3
  <2> QED
    BY <2>2, <2>3
\* Where every call that is left is behind the new head.
<1>4. ASSUME NEW l \in 0 .. Len(h), k <= l + 1,
             \A i \in 1 .. l + 1 : g[i].kind # "calls" \/ i + g[i].call <= l + 1 \/ i <= k,
             \A i \in 1 .. l + 1 : i > k => ~Open(g, i, t), k = Len(g) => l = Len(h)
      PROVE  Called(h, l) /\ Pending(h, l, t)
  <2>1. Called(h, l)
    <3> SUFFICES ASSUME NEW i \in l + 1 .. Len(h), h[i].kind = "result"
                 PROVE  \E j \in l + 1 .. i - 1 : h[j].kind = "calls" /\ i <= j + h[j].call
      BY DEF Called
    <3>1. i \in 1 .. Len(h) /\ i + 1 \in k + 1 .. Len(g) /\ h[i] = g[i + 1]
      BY <1>0, <1>4
    <3>a. PICK j \in k + 1 .. (i + 1) - 1 : g[j].kind = "calls" /\ i + 1 <= j + g[j].call
      <4>1. g[i + 1].kind = "result"
        BY <3>1
      <4> QED
        BY <1>1, <3>1, <4>1, Zenon DEF Called
    <3>2. j \in k + 1 .. i /\ g[j].kind = "calls" /\ i + 1 <= j + g[j].call
      BY <3>1, <3>a
    <3>3. j \in 1 .. Len(g) /\ j > l + 1
      BY <1>0, <1>4, <3>1, <3>2
    <3>4. j - 1 \in l + 1 .. i - 1 /\ j - 1 \in 1 .. Len(h) /\ (j - 1) + 1 = j
      BY <1>0, <3>1, <3>3
    <3>5. h[j - 1] = g[j]
      BY <3>4
    <3>6. i <= (j - 1) + h[j - 1].call
      BY <1>0, <3>2, <3>3, <3>5
    <3> QED
      BY <3>2, <3>4, <3>5, <3>6
  <2>2. Pending(h, l, t)
    <3> SUFFICES ASSUME t.step = "tools", l # Len(h) PROVE \E i \in l + 1 .. Len(h) : Open(h, i, t)
      BY DEF Pending
    <3>1. PICK i \in k + 1 .. Len(g) : Open(g, i, t)
      BY <1>1, <1>4 DEF Pending
    <3>2. i > l + 1
      BY <1>0, <1>4, <3>1
    <3>3. i - 1 \in l + 1 .. Len(h) /\ i - 1 \in 1 .. Len(h) /\ (i - 1) + 1 = i
      BY <1>0, <3>1, <3>2
    <3> QED
      BY <1>2, <3>1, <3>3
  <2> QED
    BY <2>1, <2>2
<1>5. CASE k >= 1
  <2> DEFINE l == k - 1
  <2>1. l \in 0 .. Len(h) /\ k = l + 1
    BY <1>0, <1>5
  <2> HIDE DEF l
  <2>2. Headed(h, l)
    BY <1>0, <1>1, <2>1 DEF Headed
  <2>3. Answered(h, l) /\ Finished(h, l, t)
    BY <1>3, <2>1
  <2>4. Called(h, l) /\ Pending(h, l, t)
    BY <1>0, <1>4, <2>1
  <2> QED
    BY <2>1, <2>2, <2>3, <2>4 DEF Tidy
<1>6. CASE k = 0 /\ g[1].kind # "calls"
  <2>1. 0 \in 0 .. Len(h) /\ Headed(h, 0)
    BY <1>0 DEF Headed
  <2>2. Answered(h, 0) /\ Finished(h, 0, t)
    BY <1>3, <1>6, <2>1
  <2>3. Called(h, 0) /\ Pending(h, 0, t)
    <3>1. \A i \in 1 .. 0 + 1 : g[i].kind # "calls" /\ ~Open(g, i, t)
      BY <1>6 DEF Open
    <3>2. k # Len(g)
      BY <1>0, <1>6
    <3> QED
      BY <1>4, <1>6, <2>1, <3>1, <3>2
  <2> QED
    BY <2>1, <2>2, <2>3 DEF Tidy
<1>7. CASE k = 0 /\ g[1].kind = "calls"
  <2> DEFINE n == g[1].call
  <2>0. n \in Nat /\ 1 \in k + 1 .. Len(g) /\ k # Len(g)
    BY <1>0, <1>7
  <2>1. \A j \in 1 .. n : 1 + j <= Len(g) => g[1 + j].kind = "result"
    <3>1. \A j \in 1 .. n : 1 + j <= Len(g) => g[1 + j] = Result(g[1].id, j)
      BY <1>1, <1>7, <2>0 DEF Answered
    <3> QED
      BY <3>1, Results
  <2>2. CASE 1 + n <= Len(g)
    <3>1. n \in 0 .. Len(h) /\ k <= n + 1
      BY <1>0, <1>7, <2>0, <2>2
    <3>2. Headed(h, n)
      <4> SUFFICES ASSUME NEW i \in 1 .. n PROVE h[i].kind = "result"
        BY DEF Headed
      <4>1. i \in 1 .. Len(h) /\ 1 + i <= Len(g) /\ i + 1 = 1 + i
        BY <1>0, <2>0, <2>2
      <4> QED
        BY <2>1, <4>1
    <3>3. Answered(h, n) /\ Finished(h, n, t)
      BY <1>3, <3>1
    <3>4. ASSUME NEW i \in 1 .. n + 1
          PROVE  (g[i].kind # "calls" \/ i + g[i].call <= n + 1) /\ ~Open(g, i, t)
      <4>1. CASE i = 1
        <5>1. ~Open(g, 1, t)
          <6> SUFFICES ASSUME Open(g, 1, t) PROVE FALSE
            OBVIOUS
          <6>1. t.step = "tools" /\ n = t.call + t.left - 1 /\ 1 + t.call = Len(g) + 1 /\ t.left >= 1
            BY DEF Open
          <6> QED
            BY <1>0, <2>0, <2>2, <6>1
        <5> QED
          BY <2>0, <4>1, <5>1
      <4>2. CASE i # 1
        <5>1. i - 1 \in 1 .. n /\ 1 + (i - 1) = i /\ i <= Len(g)
          BY <1>0, <2>0, <2>2, <4>2
        <5>2. g[i].kind = "result"
          BY <2>1, <5>1
        <5> QED
          BY <5>2 DEF Open
      <4> QED
        BY <4>1, <4>2
    <3>5. Called(h, n) /\ Pending(h, n, t)
      BY <1>4, <2>0, <3>1, <3>4
    <3> QED
      BY <3>1, <3>2, <3>3, <3>5 DEF Tidy
  <2>3. CASE ~(1 + n <= Len(g))
    <3>1. Len(h) \in 0 .. Len(h) /\ Len(h) + 1 .. Len(h) = {}
      BY <1>0
    <3>2. Headed(h, Len(h))
      <4> SUFFICES ASSUME NEW i \in 1 .. Len(h) PROVE h[i].kind = "result"
        BY DEF Headed
      <4>1. i \in 1 .. n /\ 1 + i <= Len(g) /\ i + 1 = 1 + i
        BY <1>0, <2>0, <2>3
      <4> QED
        BY <2>1, <4>1
    <3>3. Answered(h, Len(h)) /\ Finished(h, Len(h), t) /\ Called(h, Len(h)) /\ Pending(h, Len(h), t)
      BY <3>1 DEF Answered, Finished, Called, Pending
    <3> QED
      BY <3>1, <3>2, <3>3 DEF Tidy
  <2> QED
    BY <2>2, <2>3
<1> QED
  BY <1>5, <1>6, <1>7

\* Where the messages before the last one are.
LEMMA Before ==
  ASSUME NEW n \in Nat, NEW k \in 0 .. n, NEW i \in k + 1 .. n + 1, i # n + 1
  PROVE  i \in k + 1 .. n /\ i \in 1 .. n /\ i \in Int
  OBVIOUS

LEMMA Within ==
  ASSUME NEW n \in Nat, NEW k \in 0 .. n, NEW i \in 1 .. n, NEW j \in k + 1 .. i - 1
  PROVE  j \in 1 .. n /\ j \in k + 1 .. n
  OBVIOUS

\* A message other than a result is pushed by a turn that has no call running: it is
\* complete in itself, or it starts the calls that are to be answered next.
LEMMA TidyMessage ==
  ASSUME NEW g \in Seq(Message), NEW h \in Seq(Message), Len(g) = Len(h) + 1,
         \A i \in 1 .. Len(h) : g[i] = h[i],
         NEW t \in Turn, NEW u \in Turn, t.step # "tools",
         g[Len(g)].kind # "result",
         u.step = "tools" => g[Len(g)].kind = "calls",
         g[Len(g)].kind = "calls" => Open(g, Len(g), u),
         NEW k \in 0 .. Len(h), Tidy(h, k, t)
  PROVE  Tidy(g, k, u)
<1>0. /\ Len(g) \in Nat /\ Len(h) \in Nat /\ Len(g) >= 1
      /\ \A i \in 1 .. Len(g) : g[i].call \in Nat
  BY Fields
<1>1. Headed(h, k) /\ Answered(h, k) /\ Finished(h, k, t) /\ Called(h, k)
  BY DEF Tidy
<1>2. \A i \in k + 1 .. Len(h) : h[i].kind = "calls" => i + h[i].call <= Len(h)
  <2> SUFFICES ASSUME NEW i \in k + 1 .. Len(h), h[i].kind = "calls", ~(i + h[i].call <= Len(h))
               PROVE  FALSE
    OBVIOUS
  <2>1. i \in 1 .. Len(h) /\ h[i].call \in Nat
    BY <1>0
  <2>2. i + h[i].call > Len(h)
    BY <1>0, <2>1
  <2> QED
    BY <1>1, <2>2 DEF Finished, Open
<1>3. Headed(g, k)
  BY <1>0, <1>1 DEF Headed
<1>4. ASSUME NEW i \in k + 1 .. Len(g), i # Len(g)
      PROVE  i \in k + 1 .. Len(h) /\ i \in 1 .. Len(h) /\ g[i] = h[i]
  BY <1>0, <1>4
<1>5. Answered(g, k)
  <2> SUFFICES ASSUME NEW i \in k + 1 .. Len(g), g[i].kind = "calls",
                      NEW j \in 1 .. g[i].call, i + j <= Len(g)
               PROVE  g[i + j] = Result(g[i].id, j)
    BY DEF Answered
  <2>0. i \in 1 .. Len(g) /\ g[i].call \in Nat /\ j \in Nat /\ j >= 1 /\ j <= g[i].call
    BY <1>0
  <2>1. i # Len(g)
    BY <1>0, <2>0
  <2>2. i \in k + 1 .. Len(h) /\ g[i] = h[i]
    BY <1>4, <2>1
  <2>3. i + h[i].call <= Len(h)
    BY <1>2, <2>2
  <2>4. i + j <= Len(h) /\ i + j \in 1 .. Len(h) /\ j \in 1 .. h[i].call
    BY <1>0, <2>0, <2>2, <2>3
  <2>5. h[i + j] = Result(h[i].id, j)
    BY <1>1, <2>2, <2>4 DEF Answered
  <2> QED
    BY <2>2, <2>4, <2>5
<1>6. Finished(g, k, u)
  <2> SUFFICES ASSUME NEW i \in k + 1 .. Len(g), g[i].kind = "calls", i + g[i].call > Len(g)
               PROVE  Open(g, i, u)
    BY DEF Finished
  <2>1. CASE i = Len(g)
    BY <2>1
  <2>2. CASE i # Len(g)
    <3>1. i \in k + 1 .. Len(h) /\ g[i] = h[i] /\ i \in 1 .. Len(g)
      BY <1>0, <1>4, <2>2
    <3>2. i + h[i].call <= Len(h)
      BY <1>2, <3>1
    <3> QED
      BY <1>0, <3>1, <3>2
  <2> QED
    BY <2>1, <2>2
<1>7. Called(g, k)
  <2> SUFFICES ASSUME NEW i \in k + 1 .. Len(g), g[i].kind = "result"
               PROVE  \E j \in k + 1 .. i - 1 : g[j].kind = "calls" /\ i <= j + g[j].call
    BY DEF Called
  <2>1. i \in k + 1 .. Len(h) /\ g[i] = h[i]
    BY <1>4
  <2>2. PICK j \in k + 1 .. i - 1 : h[j].kind = "calls" /\ i <= j + h[j].call
    BY <1>1, <2>1 DEF Called
  <2>3. j \in 1 .. Len(h)
    BY <1>0, <1>4, Within
  <2>4. g[j] = h[j]
    BY <2>3
  <2> QED
    BY <2>2, <2>4
<1>8. Pending(g, k, u)
  <2>1. Len(g) \in k + 1 .. Len(g)
    BY <1>0
  <2> QED
    BY <2>1 DEF Pending
<1> QED
  BY <1>3, <1>5, <1>6, <1>7, <1>8 DEF Tidy

\* A result is pushed behind its calls, or to the head when they are gone.
LEMMA TidyResult ==
  ASSUME NEW g \in Seq(Message), NEW h \in Seq(Message), Len(g) = Len(h) + 1,
         \A i \in 1 .. Len(h) : g[i] = h[i],
         NEW t \in Turn, NEW u \in Turn, t.step = "tools", t.left >= 1, t.call >= 1,
         g[Len(g)] = Result(t.id, t.call),
         u.step = "tools" <=> t.left > 1,
         t.left > 1 => u.id = t.id /\ u.left = t.left - 1 /\ u.call = t.call + 1,
         NEW k \in 0 .. Len(h), Tidy(h, k, t)
  PROVE  \E l \in 0 .. Len(g) : Tidy(g, l, u)
<1>0. /\ Len(g) \in Nat /\ Len(h) \in Nat /\ Len(g) >= 1 /\ t.call \in Int /\ t.left \in Int
      /\ \A i \in 1 .. Len(g) : g[i].call \in Nat
      /\ g[Len(g)].kind = "result"
  BY Fields, Results DEF Turn
<1>1. Headed(h, k) /\ Answered(h, k) /\ Finished(h, k, t) /\ Called(h, k) /\ Pending(h, k, t)
  BY DEF Tidy
\* One call more is answered.
<1>a. ASSUME NEW i \in Int, NEW c \in Int, c = t.call + t.left - 1, i + t.call = Len(g)
      PROVE  /\ i + c > Len(g) <=> t.left > 1
             /\ t.left > 1 => c = u.call + u.left - 1 /\ i + u.call = Len(g) + 1
  <2> DEFINE n == Len(g)
             call == t.call
             left == t.left
             call2 == u.call
             left2 == u.left
  <2>1. /\ n \in Int /\ call \in Int /\ left \in Int /\ c = call + left - 1 /\ i + call = n
        /\ left > 1 => left2 = left - 1 /\ call2 = call + 1
    BY <1>0, <1>a
  <2> HIDE DEF n, call, left, call2, left2
  <2>2. i + c > n <=> left > 1
    BY <2>1
  <2>3. left > 1 => c = call2 + left2 - 1 /\ i + call2 = n + 1
    BY <2>1
  <2> QED
    BY <2>2, <2>3 DEF n, call, left, call2, left2
<1>2. CASE k = Len(h)
  <2>1. Headed(g, Len(g))
    <3> SUFFICES ASSUME NEW i \in 1 .. Len(g) PROVE g[i].kind = "result"
      BY DEF Headed
    <3>1. i = Len(g) \/ i \in 1 .. Len(h)
      BY <1>0
    <3> QED
      BY <1>0, <1>1, <1>2, <3>1 DEF Headed
  <2>2. Len(g) + 1 .. Len(g) = {} /\ Len(g) \in 0 .. Len(g)
    BY <1>0
  <2>3. /\ Answered(g, Len(g)) /\ Finished(g, Len(g), u) /\ Called(g, Len(g))
        /\ Pending(g, Len(g), u)
    BY <2>2 DEF Answered, Finished, Called, Pending
  <2> QED
    BY <2>1, <2>2, <2>3 DEF Tidy
<1>3. CASE k # Len(h)
  <2>0. PICK o \in k + 1 .. Len(h) : Open(h, o, t)
    BY <1>1, <1>3 DEF Pending
  <2>1. ASSUME NEW i \in k + 1 .. Len(g), g[i].kind = "calls"
        PROVE  /\ i \in k + 1 .. Len(h) /\ i \in 1 .. Len(h) /\ g[i] = h[i] /\ i \in Int
               /\ h[i].call \in Nat
    <3>1. i # Len(g)
      BY <1>0, <2>1
    <3>2. i \in k + 1 .. Len(h) /\ i \in 1 .. Len(h) /\ i \in Int
      BY <1>0, <3>1, Before
    <3>3. g[i] = h[i] /\ i \in 1 .. Len(g)
      BY <1>0, <3>2
    <3> QED
      BY <1>0, <3>2, <3>3
  <2>2. ASSUME NEW i \in k + 1 .. Len(h), Open(h, i, t)
        PROVE  /\ i + t.call = Len(g) /\ h[i].kind = "calls" /\ h[i].id = t.id
               /\ h[i].call = t.call + t.left - 1
    BY <2>2 DEF Open
  <2>3. Headed(g, k)
    <3> SUFFICES ASSUME NEW i \in 1 .. k PROVE g[i].kind = "result"
      BY DEF Headed
    <3>1. i \in 1 .. Len(h)
      BY <1>0
    <3>2. g[i] = h[i]
      BY <3>1
    <3> QED
      BY <1>1, <3>2 DEF Headed
  <2>4. Answered(g, k)
    <3> SUFFICES ASSUME NEW i \in k + 1 .. Len(g), g[i].kind = "calls",
                        NEW j \in 1 .. g[i].call, i + j <= Len(g)
                 PROVE  g[i + j] = Result(g[i].id, j)
      BY DEF Answered
    <3>0. i \in k + 1 .. Len(h) /\ i \in Int /\ g[i] = h[i] /\ h[i].call \in Nat /\ j \in Int
          /\ j >= 1 /\ j <= h[i].call
      BY <2>1
    <3>1. CASE i + j <= Len(h)
      <4>1. i + j \in 1 .. Len(h) /\ j \in 1 .. h[i].call
        BY <1>0, <3>0, <3>1
      <4>2. h[i + j] = Result(h[i].id, j)
        BY <1>1, <3>0, <3>1, <4>1 DEF Answered
      <4> QED
        BY <3>0, <4>1, <4>2
    <3>2. CASE ~(i + j <= Len(h))
      <4>1. i + j = Len(g) /\ i + h[i].call > Len(h)
        BY <1>0, <3>0, <3>2
      <4>2. Open(h, i, t)
        BY <1>1, <3>0, <4>1 DEF Finished
      <4>3. i + t.call = Len(g) /\ h[i].id = t.id
        BY <2>2, <3>0, <4>2
      <4>4. j = t.call
        BY <1>0, <3>0, <4>1, <4>3
      <4> QED
        BY <3>0, <4>1, <4>3, <4>4
    <3> QED
      BY <3>1, <3>2
  <2>5. Finished(g, k, u)
    <3> SUFFICES ASSUME NEW i \in k + 1 .. Len(g), g[i].kind = "calls", i + g[i].call > Len(g)
                 PROVE  Open(g, i, u)
      BY DEF Finished
    <3>0. i \in k + 1 .. Len(h) /\ i \in Int /\ g[i] = h[i] /\ h[i].call \in Nat
      BY <2>1
    <3>1. i + h[i].call > Len(h)
      BY <1>0, <3>0
    <3>2. Open(h, i, t)
      BY <1>1, <3>0, <3>1 DEF Finished
    <3>3. /\ i + t.call = Len(g) /\ h[i].kind = "calls" /\ h[i].id = t.id
          /\ h[i].call = t.call + t.left - 1
      BY <2>2, <3>0, <3>2
    <3>4. t.left > 1
      BY <1>a, <3>0, <3>3
    <3>5. u.step = "tools" /\ u.id = t.id /\ u.left = t.left - 1 /\ u.call = t.call + 1
      BY <3>4
    <3>6. h[i].call = u.call + u.left - 1 /\ i + u.call = Len(g) + 1
      BY <1>a, <3>0, <3>3, <3>4
    <3> QED
      BY <3>0, <3>3, <3>5, <3>6 DEF Open
  <2>6. Called(g, k)
    <3> SUFFICES ASSUME NEW i \in k + 1 .. Len(g), g[i].kind = "result"
                 PROVE  \E j \in k + 1 .. i - 1 : g[j].kind = "calls" /\ i <= j + g[j].call
      BY DEF Called
    <3>1. CASE i = Len(g)
      <4>1. /\ o + t.call = Len(g) /\ h[o].kind = "calls" /\ h[o].call = t.call + t.left - 1
            /\ g[o] = h[o] /\ o \in Int
        BY <1>0, <2>0, <2>2
      <4>2. o \in k + 1 .. i - 1 /\ i <= o + h[o].call
        BY <1>0, <2>0, <3>1, <4>1
      <4> QED
        BY <4>1, <4>2
    <3>2. CASE i # Len(g)
      <4>0. i \in k + 1 .. Len(h) /\ i \in 1 .. Len(h) /\ i \in Int
        BY <1>0, <3>2, Before
      <4>1. i \in k + 1 .. Len(h) /\ i \in 1 .. Len(h) /\ g[i] = h[i] /\ i \in Int
        BY <4>0
      <4>2. PICK j \in k + 1 .. i - 1 : h[j].kind = "calls" /\ i <= j + h[j].call
        BY <1>1, <4>1 DEF Called
      <4>3. j \in 1 .. Len(h)
        BY <1>0, <4>1, Within
      <4>4. g[j] = h[j]
        BY <4>3
      <4> QED
        BY <4>2, <4>4
    <3> QED
      BY <3>1, <3>2
  <2>7. Pending(g, k, u)
    <3> SUFFICES ASSUME u.step = "tools" PROVE \E i \in k + 1 .. Len(g) : Open(g, i, u)
      BY DEF Pending
    <3>1. /\ o + t.call = Len(g) /\ h[o].kind = "calls" /\ h[o].id = t.id
          /\ h[o].call = t.call + t.left - 1 /\ g[o] = h[o] /\ o \in Int /\ o \in k + 1 .. Len(g)
      BY <1>0, <2>0, <2>2
    <3>2. u.id = t.id /\ u.left = t.left - 1 /\ u.call = t.call + 1
      OBVIOUS
    <3>3. h[o].call = u.call + u.left - 1 /\ o + u.call = Len(g) + 1
      <4>1. h[o].call \in Int
        BY <1>0, <3>1
      <4> QED
        BY <1>a, <3>1, <4>1
    <3> QED
      BY <3>1, <3>2, <3>3 DEF Open
  <2>8. k \in 0 .. Len(g)
    BY <1>0
  <2> QED
    BY <2>3, <2>4, <2>5, <2>6, <2>7, <2>8 DEF Tidy
<1> QED
  BY <1>2, <1>3

LEMMA Appended ==
  ASSUME history \in Seq(Message), Len(history) <= MaxHistory, NEW m \in Message, Push(m)
  PROVE  \E g \in Seq(Message) :
           /\ g = Append(history, m)
           /\ Len(g) = Len(history) + 1 /\ g[Len(g)] = m
           /\ \A i \in 1 .. Len(history) : g[i] = history[i]
           /\ \/ history' = g
              \/ /\ history' \in Seq(Message) /\ Len(g) = Len(history') + 1
                 /\ \A i \in 1 .. Len(history') : history'[i] = g[i + 1]
<1>0. PICK g : g = Append(history, m)
  OBVIOUS
<1> DEFINE n == Len(history)
           o == Max({1, Len(g) - MaxHistory + 1})
<1>1. /\ n \in Nat /\ n <= MaxHistory /\ MaxHistory \in Nat \ {0}
      /\ g \in Seq(Message) /\ Len(g) = n + 1 /\ g[n + 1] = m
      /\ \A i \in 1 .. n : g[i] = history[i]
  BY <1>0, Limits
<1>2. history' = SubSeq(g, o, Len(g))
  BY <1>0 DEF Push, Kept
<1>3. o = IF 1 >= Len(g) - MaxHistory + 1 THEN 1 ELSE Len(g) - MaxHistory + 1
  BY <1>1, GreaterOf
<1>a. n = MaxHistory \/ n < MaxHistory
  BY <1>1
<1> HIDE DEF n, o
<1>4. CASE n < MaxHistory
  <2>0. Len(g) = n + 1 /\ o = 1
    BY <1>1, <1>3, <1>4
  <2>1. history' = SubSeq(g, 1, Len(g))
    BY <1>2, <2>0
  <2>2. history' = g
    BY <1>1, <2>1
  <2> QED
    BY <1>0, <1>1, <2>2 DEF n
<1>5. CASE n = MaxHistory
  <2>0. Len(g) = n + 1 /\ o = 2
    BY <1>1, <1>3, <1>5
  <2>1. history' = SubSeq(g, 2, n + 1)
    BY <1>2, <2>0
  <2>2. history' \in Seq(Message) /\ Len(history') = n /\ \A i \in 1 .. n : history'[i] = g[i + 1]
    BY <1>1, <2>1
  <2> QED
    BY <1>0, <1>1, <2>2 DEF n
<1> QED
  BY <1>a, <1>4, <1>5

\* A push leaves the transcript as tidy as it is before the cut.
LEMMA TidyPush ==
  ASSUME TypeOK, NEW m \in Message, Push(m), NEW u \in Turn, Going(u),
         NEW l \in 0 .. Len(Append(history, m)), Tidy(Append(history, m), l, u)
  PROVE  \E k \in 0 .. Len(history') : Tidy(history', k, u)
<1>1. history \in Seq(Message) /\ Len(history) <= MaxHistory
  BY DEF TypeOK
<1>2. PICK g \in Seq(Message) :
        /\ g = Append(history, m)
        /\ \/ history' = g
           \/ /\ history' \in Seq(Message) /\ Len(g) = Len(history') + 1
              /\ \A i \in 1 .. Len(history') : history'[i] = g[i + 1]
  BY <1>1, Appended
<1>3. l \in 0 .. Len(g) /\ Tidy(g, l, u)
  BY <1>2
<1>4. CASE history' = g
  BY <1>3, <1>4
<1>5. CASE /\ history' \in Seq(Message) /\ Len(g) = Len(history') + 1
           /\ \A i \in 1 .. Len(history') : history'[i] = g[i + 1]
  <2>1. u.step = "tools" => u.left >= 1 /\ u.call >= 1
    BY DEF Going
  <2> QED
    BY <1>3, <1>2, <1>5, <2>1, TidyCut
<1> QED
  BY <1>2, <1>4, <1>5

\* A turn that has no call running may be any other such turn.
LEMMA TidyBetween ==
  ASSUME NEW h, NEW k, NEW t, NEW u, t.step # "tools", u.step # "tools", Tidy(h, k, t)
  PROVE  Tidy(h, k, u)
  BY DEF Tidy, Finished, Pending, Open

\* What a turn does when it is the only one concerns no other panel.
LEMMA OneMoves ==
  ASSUME TypeOK, Alone, Tidied, NEW p \in Panel, turn[p] # Idle, NEW u \in Turn, Moved(p, u),
         overlapped' = overlapped,
         \A k \in 0 .. Len(history) :
           Tidy(history, k, turn[p]) => \E l \in 0 .. Len(history') : Tidy(history', l, u)
  PROVE  Alone' /\ Tidied'
<1>1. turn'[p] = u /\ \A q \in Panel \ {p} : turn'[q] = turn[q]
  BY Movement
<1> SUFFICES ASSUME ~overlapped
             PROVE  /\ \E q \in Panel : Busy' \subseteq {q}
                    /\ \A q \in Panel : Busy' \subseteq {q} =>
                         \E l \in 0 .. Len(history') : Tidy(history', l, turn'[q])
  BY DEF Alone, Tidied
<1>2. Busy \subseteq {p}
  BY DEF Alone, Busy
<1>3. \A q \in Panel \ {p} : turn'[q] = Idle
  BY <1>1, <1>2 DEF Busy
<1>4. PICK k \in 0 .. Len(history) : Tidy(history, k, turn[p])
  BY <1>2 DEF Tidied
<1>5. PICK l \in 0 .. Len(history') : Tidy(history', l, u)
  BY <1>4
<1>6. Busy' \subseteq {p}
  BY <1>3 DEF Busy
<1>7. ASSUME NEW q \in Panel, Busy' \subseteq {q} PROVE turn'[q] = u
  BY <1>1, <1>3, <1>7 DEF Busy
<1> QED
  BY <1>5, <1>6, <1>7

\* What is pushed by the only turn, before the cut.
LEMMA PushMoves ==
  ASSUME TypeOK, Alone, Tidied, NEW p \in Panel, turn[p] # Idle, NEW u \in Turn, Going(u),
         Moved(p, u), overlapped' = overlapped, NEW m \in Message, Push(m),
         \A g \in Seq(Message) :
           /\ Len(g) = Len(history) + 1 /\ g[Len(g)] = m
           /\ \A i \in 1 .. Len(history) : g[i] = history[i]
           => \A k \in 0 .. Len(history) :
                Tidy(history, k, turn[p]) => \E l \in 0 .. Len(g) : Tidy(g, l, u)
  PROVE  Alone' /\ Tidied'
<1>1. history \in Seq(Message) /\ Len(history) <= MaxHistory
  BY DEF TypeOK
<1>2. PICK g \in Seq(Message) :
        /\ g = Append(history, m)
        /\ Len(g) = Len(history) + 1 /\ g[Len(g)] = m
        /\ \A i \in 1 .. Len(history) : g[i] = history[i]
  BY <1>1, Appended
<1>3. ASSUME NEW k \in 0 .. Len(history), Tidy(history, k, turn[p])
      PROVE  \E l \in 0 .. Len(history') : Tidy(history', l, u)
  <2>1. PICK l \in 0 .. Len(g) : Tidy(g, l, u)
    BY <1>2, <1>3
  <2>2. l \in 0 .. Len(Append(history, m)) /\ Tidy(Append(history, m), l, u)
    BY <1>2, <2>1
  <2> QED
    BY <2>2, TidyPush
<1> QED
  BY <1>3, OneMoves

LEMMA TidyStep == TypeOK /\ Started /\ Alone /\ Tidied /\ [Next]_vars => Alone' /\ Tidied'
<1> SUFFICES ASSUME TypeOK, Started, Alone, Tidied, [Next]_vars PROVE Alone' /\ Tidied'
  OBVIOUS
<1>0. /\ history \in Seq(Message) /\ Len(history) <= MaxHistory /\ turn \in [Panel -> Turn]
      /\ overlapped \in BOOLEAN
      /\ \A p \in Panel : turn[p] \in Turn /\ Going(turn[p])
  BY DEF TypeOK, Started
<1>a. Idle.step = "idle" /\ Idle \in Turn /\ Going(Idle)
  BY IdleIsTurn, IdleIsGoing DEF Idle
<1>1. ASSUME NEW p \in Panel, Begin(p) PROVE Alone' /\ Tidied'
  <2>1. PICK sound \in BOOLEAN :
          Moved(p, [step |-> "begun", sound |-> sound, round |-> 0, id |-> 0, left |-> 0, call |-> 0])
    BY <1>1, BegunTurn
  <2>2. PICK u : Moved(p, u) /\ u.step = "begun"
    BY <2>1
  <2>3. turn'[p] = u /\ u # Idle /\ \A q \in Panel \ {p} : turn'[q] = turn[q]
    BY <1>a, <2>2, Movement
  <2>4. history' = history /\ overlapped' = (overlapped \/ Busy # {}) /\ turn[p] = Idle
    BY <1>1 DEF Begin
  <2> SUFFICES ASSUME ~overlapped, Busy = {}
               PROVE  /\ \E q \in Panel : Busy' \subseteq {q}
                      /\ \A q \in Panel : Busy' \subseteq {q} =>
                           \E l \in 0 .. Len(history) : Tidy(history, l, turn'[q])
    BY <2>4 DEF Alone, Tidied
  <2>5. Busy' = {p}
    BY <2>3 DEF Busy
  <2>6. PICK k \in 0 .. Len(history) : Tidy(history, k, Idle)
    BY <2>4 DEF Tidied
  <2>7. Tidy(history, k, u)
    BY <1>a, <2>2, <2>6, TidyBetween
  <2> QED
    BY <2>3, <2>5, <2>7
<1>2. ASSUME NEW p \in Panel, PushUser(p) PROVE Alone' /\ Tidied'
  <2> DEFINE t == turn[p]
  <2>1. PICK u : u = [step |-> "asking", sound |-> t.sound, round |-> 1,
                      id |-> t.id, left |-> t.left, call |-> t.call]
    OBVIOUS
  <2>2. Moved(p, u) /\ u.step = "asking"
    BY <1>2, <2>1, PushedTurn
  <2>3. t \in Turn /\ t.step = "begun" /\ t # Idle /\ Push(User) /\ overlapped' = overlapped
    BY <1>0, <1>2, <1>a DEF PushUser
  <2>4. u \in Turn /\ Going(u)
    BY <2>1, <2>3, Limits DEF Turn, Going
  <2>5. User \in Message /\ User.kind = "user"
    BY Messages DEF User
  <2> HIDE DEF t
  <2>6. ASSUME NEW g \in Seq(Message), Len(g) = Len(history) + 1, g[Len(g)] = User,
               \A i \in 1 .. Len(history) : g[i] = history[i],
               NEW k \in 0 .. Len(history), Tidy(history, k, t)
        PROVE  \E l \in 0 .. Len(g) : Tidy(g, l, u)
    <3>1. Tidy(g, k, u)
      BY <1>0, <2>2, <2>3, <2>4, <2>5, <2>6, TidyMessage
    <3>2. k \in 0 .. Len(g)
      BY <1>0, <2>6
    <3> QED
      BY <3>1, <3>2
  <2> QED
    BY <2>2, <2>3, <2>4, <2>5, <2>6, PushMoves DEF t
<1>3. ASSUME NEW p \in Panel, Reply(p) PROVE Alone' /\ Tidied'
  <2> DEFINE t == turn[p]
  <2>1. Moved(p, Idle) /\ t.step = "asking"
    BY <1>3, EndedTurn
  <2>2. t \in Turn /\ t # Idle /\ Push(Assistant) /\ overlapped' = overlapped
    BY <1>0, <1>3, <1>a, <2>1 DEF Reply
  <2>3. Assistant \in Message /\ Assistant.kind = "reply"
    BY Messages DEF Assistant
  <2> HIDE DEF t
  <2>4. ASSUME NEW g \in Seq(Message), Len(g) = Len(history) + 1, g[Len(g)] = Assistant,
               \A i \in 1 .. Len(history) : g[i] = history[i],
               NEW k \in 0 .. Len(history), Tidy(history, k, t)
        PROVE  \E l \in 0 .. Len(g) : Tidy(g, l, Idle)
    <3>1. Tidy(g, k, Idle)
      BY <1>0, <1>a, <2>1, <2>2, <2>3, <2>4, TidyMessage
    <3>2. k \in 0 .. Len(g)
      BY <1>0, <2>4
    <3> QED
      BY <3>1, <3>2
  <2> QED
    BY <1>a, <2>1, <2>2, <2>3, <2>4, PushMoves DEF t

<1>4. ASSUME NEW p \in Panel, NEW n \in 1 .. MaxCalls, Call(p, n) PROVE Alone' /\ Tidied'
  <2> DEFINE t == turn[p]
  <2>1. PICK id \in Id : id = FreshId
    BY <1>0, FreshIsId
  <2>2. PICK m \in Message : m = Calling(id, n)
    BY Messages
  <2>3. PICK u : u = [step |-> "tools", sound |-> t.sound, round |-> t.round,
                      id |-> id, left |-> n, call |-> 1]
    OBVIOUS
  <2>4. Moved(p, u)
    BY <1>4, <2>1, <2>3, CalledTurn
  <2>5. t \in Turn /\ t.step = "asking" /\ t.round <= MaxRounds /\ t # Idle
        /\ Push(m) /\ overlapped' = overlapped
    BY <1>0, <1>4, <1>a, <2>1, <2>2 DEF Call, Asking
  <2>6. /\ u.step = "tools" /\ u.id = id /\ u.left = n /\ u.call = 1
        /\ m.kind = "calls" /\ m.id = id /\ m.call = n /\ n \in Nat /\ n >= 1
    BY <2>2, <2>3 DEF Calling
  <2>7. u \in Turn /\ Going(u)
    <3>1. t.round \in 1 .. MaxRounds
      BY <1>0, <2>5, Limits DEF Going, Turn
    <3> QED
      BY <2>3, <2>5, <3>1, Limits DEF Turn, Going
  <2> HIDE DEF t
  <2>8. ASSUME NEW g \in Seq(Message), Len(g) = Len(history) + 1, g[Len(g)] = m,
               \A i \in 1 .. Len(history) : g[i] = history[i],
               NEW k \in 0 .. Len(history), Tidy(history, k, t)
        PROVE  \E l \in 0 .. Len(g) : Tidy(g, l, u)
    <3>0. Len(g) \in Nat /\ n = 1 + n - 1
      BY <2>6
    <3>1. Open(g, Len(g), u)
      BY <2>6, <2>8, <3>0 DEF Open
    <3>2. Tidy(g, k, u)
      BY <1>0, <2>5, <2>6, <2>7, <2>8, <3>1, TidyMessage
    <3>3. k \in 0 .. Len(g)
      BY <1>0, <2>8
    <3> QED
      BY <3>2, <3>3
  <2> QED
    BY <2>4, <2>5, <2>7, <2>8, PushMoves DEF t
<1>5. ASSUME NEW p \in Panel, ToolReturns(p) PROVE Alone' /\ Tidied'
  <2> DEFINE t == turn[p]
  <2>1. /\ t \in Turn /\ Going(t) /\ t.step = "tools" /\ t # Idle /\ overlapped' = overlapped
        /\ Push(Result(t.id, t.call))
    BY <1>0, <1>5, <1>a DEF ToolReturns
  <2>2. /\ t.id \in Id /\ t.left \in 1 .. MaxCalls /\ t.call \in 1 .. MaxCalls
        /\ t.left + t.call <= MaxCalls + 1 /\ t.round \in 1 .. MaxRounds
    BY <2>1, Limits DEF Going, Turn
  <2>3. PICK u : u = IF t.left > 1
                     THEN [step |-> "tools", sound |-> t.sound, round |-> t.round,
                           id |-> t.id, left |-> t.left - 1, call |-> t.call + 1]
                     ELSE [step |-> "asking", sound |-> t.sound, round |-> t.round + 1,
                           id |-> 0, left |-> 0, call |-> 0]
    OBVIOUS
  <2>4. Moved(p, u)
    <3>1. t.round <= MaxRounds
      BY <2>2, Limits
    <3> QED
      BY <1>5, <2>2, <2>3, <3>1, ReturnedTurn
  <2>5. PICK m \in Message : m = Result(t.id, t.call)
    BY <2>2, Messages
  <2>6. u \in Turn /\ Going(u)
    BY <2>1, <2>2, <2>3, Limits DEF Turn, Going
  <2>7. /\ u.step = "tools" <=> t.left > 1
        /\ t.left > 1 => u.id = t.id /\ u.left = t.left - 1 /\ u.call = t.call + 1
    BY <2>3
  <2> HIDE DEF t
  <2>8. ASSUME NEW g \in Seq(Message), Len(g) = Len(history) + 1, g[Len(g)] = m,
               \A i \in 1 .. Len(history) : g[i] = history[i],
               NEW k \in 0 .. Len(history), Tidy(history, k, t)
        PROVE  \E l \in 0 .. Len(g) : Tidy(g, l, u)
    <3>1. t.left >= 1 /\ t.call >= 1
      BY <2>2, Limits
    <3>2. PICK s \in Turn : s = t
      BY <2>1
    <3> QED
      BY <1>0, <2>1, <2>5, <2>6, <2>7, <2>8, <3>1, <3>2, TidyResult
  <2> QED
    BY <2>1, <2>4, <2>5, <2>6, <2>8, PushMoves DEF t
<1>6. ASSUME NEW p \in Panel, Fail(p) \/ ReachLimit(p) PROVE Alone' /\ Tidied'
  <2>1. Moved(p, Idle) /\ turn[p].step = "asking"
    BY <1>6, EndedTurn
  <2>2. history' = history /\ overlapped' = overlapped /\ turn[p] # Idle
    BY <1>6, <1>a, <2>1 DEF Fail, ReachLimit
  <2>3. ASSUME NEW k \in 0 .. Len(history), Tidy(history, k, turn[p])
        PROVE  \E l \in 0 .. Len(history') : Tidy(history', l, Idle)
    <3>1. Tidy(history, k, Idle)
      BY <1>a, <2>1, <2>3, TidyBetween
    <3> QED
      BY <2>2, <3>1
  <2> QED
    BY <1>a, <2>1, <2>2, <2>3, OneMoves
<1>7. ASSUME Clear PROVE Alone' /\ Tidied'
  <2>1. history' = <<>> /\ turn' = turn /\ Busy' = Busy /\ overlapped' = (overlapped /\ Busy # {})
    BY <1>7 DEF Clear, Busy
  <2>2. Alone'
    BY <2>1 DEF Alone
  <2>3. \A t : Tidy(<<>>, 0, t)
    <3>1. Len(<<>>) = 0 /\ 1 .. 0 = {} /\ 0 + 1 .. 0 = {}
      OBVIOUS
    <3> QED
      BY <3>1 DEF Tidy, Headed, Answered, Finished, Called, Pending
  <2>4. 0 \in 0 .. Len(history')
    BY <2>1
  <2>5. Tidied'
    BY <2>1, <2>3, <2>4 DEF Tidied
  <2> QED
    BY <2>2, <2>5
<1>8. CASE UNCHANGED vars
  BY <1>8 DEF vars, Alone, Tidied, Busy
<1> QED
  BY <1>1, <1>2, <1>3, <1>4, <1>5, <1>6, <1>7, <1>8 DEF Next, Advance

\* Behind the results at its head a tidy transcript is what a provider takes, when no
\* call is running.
LEMMA TidyIsSound ==
  ASSUME NEW h \in Seq(Message), NEW k \in 0 .. Len(h), NEW t, t.step # "tools", Tidy(h, k, t)
  PROVE  Sound(SubSeq(h, k + 1, Len(h)))
<1> DEFINE n == Len(h)
           s == SubSeq(h, k + 1, n)
<1>0. n \in Nat /\ k \in 0 .. n /\ \A i \in 1 .. n : h[i].call \in Nat
  BY Fields
<1>1. /\ Answered(h, k) /\ Finished(h, k, t) /\ Called(h, k)
      /\ \A i : ~Open(h, i, t)
  BY DEF Tidy, Open
<1> HIDE DEF n
<1>2. Len(s) = n - k /\ DOMAIN s = 1 .. n - k /\ \A i \in 1 .. n - k : s[i] = h[i + k]
  <2>1. h \in Seq(Message) /\ n = Len(h)
    BY DEF n
  <2> QED
    BY <1>0, <2>1
<1> HIDE DEF s
<1>3. ASSUME NEW a \in k + 1 .. n, h[a].kind = "calls", NEW j \in 1 .. h[a].call
      PROVE  a + j <= n /\ h[a + j] = Result(h[a].id, j)
  <2>1. a + h[a].call <= n
    <3>1. ~(a + h[a].call > n)
      BY <1>1, <1>3 DEF Finished, n
    <3> QED
      BY <1>0, <3>1
  <2>2. a + j <= n
    BY <1>0, <2>1
  <2> QED
    BY <1>1, <1>3, <2>2 DEF Answered, n
<1>4. ASSUME NEW i \in 1 .. n - k, s[i].kind = "calls", NEW j \in 1 .. s[i].call
      PROVE  i + j <= n - k /\ s[i + j] = Result(s[i].id, j)
  <2>1. i + k \in k + 1 .. n /\ s[i] = h[i + k] /\ s[i].call \in Nat
    BY <1>0, <1>2
  <2>2. (i + k) + j <= n /\ h[(i + k) + j] = Result(s[i].id, j)
    BY <1>3, <1>4, <2>1
  <2>3. i + j \in 1 .. n - k /\ (i + j) + k = (i + k) + j
    BY <1>0, <2>1, <2>2
  <2>4. s[i + j] = h[(i + j) + k]
    BY <1>2, <2>3
  <2> QED
    BY <1>0, <2>2, <2>3, <2>4
<1>5. ASSUME NEW i \in 1 .. n - k, s[i].kind = "result"
      PROVE  \E j \in 1 .. i - 1 : s[j].kind = "calls" /\ s[j].id = s[i].id
  <2>1. i + k \in k + 1 .. n /\ s[i] = h[i + k]
    BY <1>0, <1>2
  <2>2. PICK a \in k + 1 .. (i + k) - 1 : h[a].kind = "calls" /\ i + k <= a + h[a].call
    BY <1>1, <1>5, <2>1 DEF Called, n
  <2>3. a \in k + 1 .. n /\ a - k \in 1 .. i - 1 /\ a - k \in 1 .. n - k /\ (a - k) + k = a
    BY <1>0
  <2>4. (i + k) - a \in 1 .. h[a].call /\ a + ((i + k) - a) = i + k
    <3>1. h[a].call \in Nat
      BY <1>0, <2>3
    <3> QED
      BY <1>0, <2>2, <2>3, <3>1
  <2>5. h[i + k] = Result(h[a].id, (i + k) - a)
    BY <1>3, <2>2, <2>3, <2>4
  <2>6. s[a - k] = h[(a - k) + k]
    BY <1>2, <2>3
  <2>7. s[a - k] = h[a]
    BY <2>3, <2>6
  <2>8. s[i].id = h[a].id
    BY <2>1, <2>5, Results
  <2> QED
    BY <2>2, <2>3, <2>7, <2>8
<1>6. Sound(s)
  BY <1>2, <1>4, <1>5 DEF Sound
<1> QED
  BY <1>6 DEF s, n

\* The cut, a transcript cleared during a turn and a turn that fails half way only ever
\* leave results without their call at the head of the transcript: behind them, between
\* turns that did not overlap, calls and results match (agent_chat.rs:116-124,
\* 1230-1299).
THEOREM OrphansLeadTheRest == Spec => []OrphansOnlyAtHead
<1>1. Init => Alone /\ Tidied
  <2> SUFFICES ASSUME Init PROVE Alone /\ Tidied
    OBVIOUS
  <2>1. history = <<>> /\ Busy = {}
    BY DEF Init, Busy
  <2>2. \A t : Tidy(<<>>, 0, t)
    <3>1. Len(<<>>) = 0 /\ 1 .. 0 = {} /\ 0 + 1 .. 0 = {}
      OBVIOUS
    <3> QED
      BY <3>1 DEF Tidy, Headed, Answered, Finished, Called, Pending
  <2>3. 0 \in 0 .. Len(history)
    BY <2>1
  <2> QED
    BY <2>1, <2>2, <2>3 DEF Alone, Tidied
<1>2. TypeOK /\ Tidied => OrphansOnlyAtHead
  <2> SUFFICES ASSUME TypeOK, Tidied, Busy = {}, ~overlapped
               PROVE  \E k \in 0 .. Len(history) :
                        Orphans(k) /\ Sound(SubSeq(history, k + 1, Len(history)))
    BY DEF OrphansOnlyAtHead
  <2>1. PICK p \in Panel : TRUE
    OBVIOUS
  <2>2. turn[p] = Idle /\ Idle.step # "tools" /\ history \in Seq(Message)
    BY DEF Busy, Idle, TypeOK
  <2>3. PICK k \in 0 .. Len(history) : Tidy(history, k, Idle)
    BY <2>2 DEF Tidied
  <2>4. Orphans(k)
    BY <2>3 DEF Tidy, Headed, Orphans
  <2>5. Sound(SubSeq(history, k + 1, Len(history)))
    BY <2>2, <2>3, TidyIsSound
  <2> QED
    BY <2>4, <2>5
<1> QED
  BY <1>1, <1>2, TidyStep, Typed, PTL DEF Spec
================================================================================
