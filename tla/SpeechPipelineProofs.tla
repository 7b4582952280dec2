-------------------------- MODULE SpeechPipelineProofs --------------------------
(***************************************************************************)
(* Theorems about SpeechPipeline, for any phrases and blocks, any capacity *)
(* of the queue, any number of fetches and pieces, and any number of       *)
(* resets, recoveries and closed windows.                                  *)
(***************************************************************************)
EXTENDS SpeechPipeline, FiniteSetTheorems, SequenceTheorems, TLAPS

PumpPoints ==
  {"wait", "check", "begin", "claim", "poll", "start", "chunk", "play", "register", "await",
   "finish", "finish empty"}
Resting == {"wait", "check", "begin"}
States ==
  [enabled : BOOLEAN, speaking : BOOLEAN, claim : BOOLEAN, epoch : Nat, inflight : Nat]
Audio == [Phrases -> {"absent", "pending"} \union Fetched]

QueueType ==
  /\ items \in Seq(Phrases) /\ current \in Phrases \union {None}
  /\ enq \in [Phrases -> [pc : {"none", "asked", "pushed"}, dropped : SUBSET Phrases]]
  /\ keys \in SUBSET Phrases

StateType ==
  st \in States /\ audio \in Audio /\ fetches \in [Phrases -> Nat]

TaskType ==
  /\ permit \in BOOLEAN /\ upsets \in Nat
  /\ reset \in [pc : {"none", "bump", "cancel", "queue", "stop"}, off : BOOLEAN]
  /\ rescue \in [pc : {"none", "stop", "bump"}, phrase : Phrases \union {None}]
  /\ rescue.pc = "bump" => rescue.phrase # None

Endings == [key : Pieces, ok : BOOLEAN]

PlayerType ==
  /\ mailbox \in Seq(Pieces \union {None}) /\ playing \in Pieces \union {None}
  /\ finished \in Seq(Endings)

PumpRecords ==
  [pc : PumpPoints, phrase : Phrases \union {None}, epoch : Nat, chunk : 0..Chunks]

PumpType ==
  /\ pump \in PumpRecords
  /\ waiter \in [key : Pieces \union {None}, answer : {"none", "ok", "failed"}]

Types == QueueType /\ StateType /\ TaskType /\ PlayerType /\ PumpType

\* What the pump holds at each point, and what its receiver knows.
Piece == <<pump.phrase, pump.chunk>>
PumpInv ==
  /\ pump.pc \in Resting <=> pump.phrase = None
  /\ pump.pc \in Resting => current = None /\ ~st.speaking /\ ~st.claim
  /\ pump.pc \in {"claim", "poll", "start"} => ~st.speaking
  /\ pump.pc \in Resting \union {"claim", "poll", "start"} => pump.chunk = 0
  /\ pump.pc \in {"chunk", "play", "register", "await"} => pump.chunk # 0
  /\ pump.pc # "await" => waiter = [key |-> None, answer |-> "none"]
  /\ pump.pc = "await" => \/ waiter.key = Piece /\ waiter.answer = "none"
                          \/ waiter.key = None /\ waiter.answer # "none"

\* A pump that will give its phrase up is woken again.
Roused ==
  pump.pc \notin {"wait", "check"} /\ pump.epoch # st.epoch /\ st.enabled =>
    permit \/ reset.pc # "none"

\* The pieces that were sent to the player and whose end was not yet told.
Elems(q) == {q[i] : i \in DOMAIN q}
Ended == {f.key : f \in Elems(finished)}
Sent == ({playing} \union Elems(mailbox) \union Ended) \ {None}

Apart(p) == p # pump.phrase /\ \A x \in Sent : x[1] # p
Living(p) == p \in Waiting \/ ~Apart(p)

\* A phrase has one life: it is asked for, waits or is spoken, and its pieces are sent in order.
LifeInv ==
  /\ \A p \in Phrases : enq[p].pc = "asked" => p \notin Waiting
  /\ \A i, j \in DOMAIN items : i # j => items[i] # items[j]
  /\ \A p \in Phrases : enq[p].pc = "asked" \/ p \in Waiting => Apart(p)
  /\ \A x \in Sent :
       x[1] = pump.phrase => x[2] <= pump.chunk /\ (pump.pc \in {"chunk", "play"} => x[2] # pump.chunk)

\* Without an upset the planner knows every phrase that lives, and what waits to be released is dead.
KeysKnown ==
  /\ \A p \in Phrases : enq[p].pc = "asked" \/ Living(p) => p \in keys
  /\ \A q \in Phrases : \A p \in enq[q].dropped : p \in keys /\ enq[p].pc # "asked" /\ ~Living(p)
  /\ \A p, q \in Phrases : p # q => enq[p].dropped \cap enq[q].dropped = {}
KeysInv ==
  /\ \A p \in Phrases : enq[p].pc # "pushed" => enq[p].dropped = {}
  /\ reset.pc # "none" => upsets > 0
  /\ upsets = 0 => KeysKnown

\* Without a stop to come, what is played or sent is the piece the pump waits for.
Silent == playing = None /\ mailbox = <<>>
OneSent ==
  /\ \/ playing = Piece /\ mailbox = <<>>
     \/ playing = None /\ mailbox = <<Piece>>
  /\ pump.pc \in {"register", "await"} /\ waiter.answer = "none" /\ Piece \notin Ended
VoiceInv == StopComing \/ Silent \/ OneSent

USE ChannelAssumption, PipelineAssumption

-----------------------------------------------------------------------------
(* Types *)

\* Scheduling fetches changes the counter, the map and the fetches only.
LEMMA Scheduled ==
  ASSUME items \in Seq(Phrases), fetches \in [Phrases -> Nat],
         NEW s \in States, NEW known \in Audio, SchedulePrefetch(s, known)
  PROVE  /\ st' \in States /\ audio' \in Audio /\ fetches' \in [Phrases -> Nat]
         /\ st'.enabled = s.enabled /\ st'.speaking = s.speaking /\ st'.claim = s.claim
         /\ st'.epoch = s.epoch
<1> DEFINE lacking == {i \in DOMAIN items : known[items[i]] \notin Fetched}
           taken == {i \in lacking :
                       s.inflight + Cardinality({j \in lacking : j < i}) < PrefetchAhead}
           times(p) == Cardinality({i \in taken : items[i] = p})
<1>1. /\ st' = [s EXCEPT !.inflight = @ + Cardinality(taken)]
      /\ fetches' = [p \in Phrases |-> fetches[p] + times(p)]
      /\ audio' = [p \in Phrases |-> IF times(p) > 0 THEN "pending" ELSE known[p]]
  BY DEF SchedulePrefetch
<1>2. IsFiniteSet(taken) /\ \A p : IsFiniteSet({i \in taken : items[i] = p})
  <2>1. DOMAIN items = 1..Len(items) /\ Len(items) \in Nat
    OBVIOUS
  <2>2. IsFiniteSet(1..Len(items))
    BY <2>1, FS_Interval, 1 \in Int, Len(items) \in Int
  <2>3. taken \subseteq 1..Len(items) /\ \A p : {i \in taken : items[i] = p} \subseteq 1..Len(items)
    BY <2>1
  <2> HIDE DEF taken
  <2> QED BY <2>2, <2>3, FS_Subset
<1> HIDE DEF taken
<1>3. Cardinality(taken) \in Nat /\ \A p : times(p) \in Nat
  BY <1>2, FS_CardinalityType
<1> HIDE DEF times
<1> DEFINE n == s.inflight + Cardinality(taken)
           d == [s EXCEPT !.inflight = n]
<1>4. d \in States /\ d.enabled = s.enabled /\ d.speaking = s.speaking /\ d.claim = s.claim
      /\ d.epoch = s.epoch
  <2>1. n \in Nat
    <3>1. s.inflight \in Nat /\ Cardinality(taken) \in Nat
      BY <1>3 DEF States
    <3> QED BY <3>1
  <2> HIDE DEF n
  <2> QED BY <2>1 DEF States
<1> HIDE DEF n, d
<1>7. st' = d
  BY <1>1 DEF n, d
<1>5. fetches' \in [Phrases -> Nat]
  BY <1>1, <1>3
<1>6. audio' \in Audio
  BY <1>1 DEF Audio
<1> QED BY <1>4, <1>5, <1>6, <1>7


\* What a full queue is cut to: half of it, but at least one phrase.
LEMMA HalfFull == (IF Cap > 1 THEN Cap \div 2 ELSE 1) \in 1..Cap
<1>1. Cap \in Nat \ {0}
  OBVIOUS
<1>2. CASE Cap > 1
  <2>1. Cap \div 2 \in Int /\ 2 * (Cap \div 2) <= Cap /\ Cap < 2 * (Cap \div 2) + 2
    BY <1>1, SMTT(30)
  <2> QED BY <1>1, <1>2, <2>1
<1>3. CASE ~(Cap > 1)
  BY <1>1, <1>3
<1> QED BY <1>2, <1>3

\* A full queue keeps its newest phrases.
LEMMA FullCut ==
  ASSUME ~(Len(items) < Cap)
  PROVE  AdaptiveDrop(items) =
           SubSeq(items, Len(items) - (IF Cap > 1 THEN Cap \div 2 ELSE 1) + 1, Len(items))
<1> DEFINE low == IF Cap > 1 THEN Cap \div 2 ELSE 1
<1>1. AdaptiveDrop(items) =
        IF Len(items) < Cap THEN items ELSE SubSeq(items, Len(items) - low + 1, Len(items))
  BY Zenon DEF AdaptiveDrop
<1> QED BY <1>1, Zenon

\* A full queue is cut to its newest phrases.
LEMMA Cutting ==
  ASSUME items \in Seq(Phrases)
  PROVE  /\ AdaptiveDrop(items) \in Seq(Phrases)
         /\ \E lost \in 0..Len(items) : AdaptiveDrop(items) = SubSeq(items, lost + 1, Len(items))
<1>1. Len(items) \in Nat
  OBVIOUS
<1>2. CASE Len(items) < Cap
  <2>1. AdaptiveDrop(items) = items
    BY <1>2 DEF AdaptiveDrop
  <2>2. SubSeq(items, 0 + 1, Len(items)) = items
    BY SubSeqFull
  <2> QED BY <1>1, <2>1, <2>2
<1>3. CASE Len(items) >= Cap
  <2> DEFINE low == IF Cap > 1 THEN Cap \div 2 ELSE 1
  <2>1. low \in 1..Cap
    BY HalfFull
  <2>2. AdaptiveDrop(items) = SubSeq(items, Len(items) - low + 1, Len(items))
    <3>1. ~(Len(items) < Cap)
      BY <1>1, <1>3
    <3> QED BY <3>1, FullCut, Zenon
  <2> HIDE DEF low
  <2>3. Len(items) - low \in 0..Len(items)
    BY <1>1, <1>3, <2>1
  <2>4. \A i \in Len(items) - low + 1 .. Len(items) : items[i] \in Phrases
    BY <1>1, <2>3
  <2>5. SubSeq(items, Len(items) - low + 1, Len(items)) \in Seq(Phrases)
    BY <1>1, <2>3, <2>4, SubSeqProperties
  <2> QED BY <2>2, <2>3, <2>5
<1> QED BY <1>1, <1>2, <1>3

\* The queue is changed by the planner, the tasks of phrases and the pump.
LEMMA QueueTypeKept == Types /\ [Next]_vars => QueueType'
<1> SUFFICES ASSUME QueueType, PumpType, [Next]_vars PROVE QueueType'
  BY DEF Types
<1>1. ASSUME Plan PROVE QueueType'
  BY <1>1 DEF QueueType, Plan, Asked, queueVars
<1>2. ASSUME RuntimeStops PROVE QueueType'
  BY <1>2 DEF QueueType, RuntimeStops, queueVars
<1>3. ASSUME NEW p \in Phrases, Push(p), UNCHANGED plannerVars PROVE QueueType'
  <2>1. AdaptiveDrop(items) \in Seq(Phrases)
    BY Cutting DEF QueueType
  <2> DEFINE D == Waiting \ {AdaptiveDrop(items)[i] : i \in DOMAIN AdaptiveDrop(items)}
  <2>2. /\ items' = Append(AdaptiveDrop(items), p) /\ UNCHANGED <<current, keys>>
        /\ enq' = [enq EXCEPT ![p] = [pc |-> "pushed", dropped |-> D]]
    BY <1>3 DEF Push, plannerVars
  <2>3. D \in SUBSET Phrases
    BY DEF QueueType, Waiting
  <2> HIDE DEF D
  <2> QED BY <2>1, <2>2, <2>3 DEF QueueType
<1>4. ASSUME NEW p \in Phrases, ReleaseDropped(p) PROVE QueueType'
  BY <1>4 DEF QueueType, ReleaseDropped, Announce, queueVars
<1>5. ASSUME ReleaseWaiting PROVE QueueType'
  BY <1>5 DEF QueueType, ReleaseWaiting, ClearQueue
<1>6. ASSUME BeginNext, UNCHANGED plannerVars PROVE QueueType'
  <2>1. CASE current # None \/ items = <<>>
    BY <1>6, <2>1 DEF QueueType, BeginNext, queueVars, plannerVars
  <2>2. CASE current = None /\ items # <<>>
    <3>1. Head(items) \in Phrases /\ Tail(items) \in Seq(Phrases)
      BY <2>2 DEF QueueType
    <3>2. items' = Tail(items) /\ current' = Head(items) /\ UNCHANGED <<enq, keys>>
      BY <1>6, <2>2 DEF BeginNext, plannerVars
    <3> QED BY <3>1, <3>2 DEF QueueType
  <2> QED BY <2>1, <2>2
<1>7. ASSUME PumpPolls, UNCHANGED plannerVars PROVE QueueType'
  BY <1>7 DEF QueueType, PumpPolls, GiveUp, plannerVars
<1>8. ASSUME PumpStarts, UNCHANGED plannerVars PROVE QueueType'
  BY <1>8 DEF QueueType, PumpStarts, GiveUp, plannerVars
<1>9. ASSUME PumpFinishes, UNCHANGED plannerVars PROVE QueueType'
  BY <1>9 DEF QueueType, PumpFinishes, plannerVars
<1>10. ASSUME RescueStops, UNCHANGED plannerVars PROVE QueueType'
  BY <1>10 DEF QueueType, RescueStops, plannerVars
<1>11. ASSUME \/ RuntimeStarts
              \/ SwitchOff
              \/ SwitchOn
              \/ (\E p \in Phrases, result \in Fetched : FinishPrefetch(p, result)) /\ UNCHANGED plannerVars
              \/ (\E ok \in BOOLEAN : PlayerEnds(ok)) /\ UNCHANGED plannerVars
              \/ (PumpChecks \/ PumpClaims \/ PumpChecksChunk \/ PumpPlays \/ PumpRegisters \/
                  PumpHears \/ PlayerIdle \/ PlayerBusy \/ Deliver \/ ResetBumps \/
                  ResetCancels \/ ResetStops \/ WatchdogBites \/ WindowCloses \/
                  WatchdogWakes) /\ UNCHANGED plannerVars
              \/ UNCHANGED vars
      PROVE  QueueType'
  <2>1. UNCHANGED <<items, current, enq, keys>>
    BY <1>11
    DEF RuntimeStarts, SwitchOff, SwitchOn, FinishPrefetch, PumpChecks, PumpClaims,
        PumpChecksChunk, PumpPlays, PumpRegisters, PumpHears, PlayerIdle, PlayerBusy,
        PlayerEnds, Deliver, ResetBumps, ResetCancels, ResetStops, WatchdogBites, WindowCloses,
        WatchdogWakes, AskReset, Enable, SchedulePrefetch, vars, channelVars, plannerVars,
        queueVars, fetchVars, sinkVars
  <2> QED BY <2>1 DEF QueueType
<1> QED
  BY <1>1, <1>2, <1>3, <1>4, <1>5, <1>6, <1>7, <1>8, <1>9, <1>10, <1>11 DEF Next, EnqueueStep,
  FetchStep, PumpStep, PlayerStep, ResetStep, RescueStep

\* What the flags, the counter and the epoch of a state become.
LEMMA StatesClosed ==
  ASSUME NEW s \in States
  PROVE  /\ Quiet(s) \in States /\ ~Quiet(s).speaking /\ ~Quiet(s).claim
         /\ Quiet(s).enabled = s.enabled /\ Quiet(s).epoch = s.epoch
         /\ Quiet(s).inflight = s.inflight
         /\ BumpEpoch(s) \in States /\ ~BumpEpoch(s).speaking /\ ~BumpEpoch(s).claim
         /\ BumpEpoch(s).enabled = s.enabled /\ BumpEpoch(s).epoch = s.epoch + 1
         /\ BumpEpoch(s).inflight = s.inflight
<1> DEFINE q == Quiet(s)
<1>1. /\ q \in States /\ ~q.speaking /\ ~q.claim /\ q.enabled = s.enabled /\ q.epoch = s.epoch
      /\ q.inflight = s.inflight
  BY DEF Quiet, States
<1> HIDE DEF q
<1> DEFINE b == [q EXCEPT !.epoch = q.epoch + 1]
<1>2. /\ b \in States /\ ~b.speaking /\ ~b.claim /\ b.enabled = s.enabled /\ b.epoch = s.epoch + 1
      /\ b.inflight = s.inflight
  BY <1>1 DEF States
<1>3. BumpEpoch(s) = b
  BY DEF BumpEpoch, q
<1> HIDE DEF b
<1> QED BY <1>1, <1>2, <1>3 DEF q

\* The state of the channel, its map and its fetches keep their types.
LEMMA StateTypeKept == Types /\ PumpInv /\ [Next]_vars => StateType'
<1> SUFFICES ASSUME Types, PumpInv, [Next]_vars PROVE StateType'
  OBVIOUS
<1>1. /\ items \in Seq(Phrases) /\ st \in States /\ audio \in Audio
      /\ fetches \in [Phrases -> Nat] /\ pump.phrase \in Phrases \union {None}
      /\ rescue.phrase \in Phrases \union {None}
  BY DEF Types, QueueType, StateType, PumpType, PumpRecords, TaskType
<1> USE DEF StateType
<1>2. ASSUME SwitchOn PROVE StateType'
  <2>1. CASE st.enabled
    BY <1>1, <1>2, <2>1 DEF SwitchOn, channelVars, fetchVars
  <2>2. CASE ~st.enabled
    <3>1. st' = [st EXCEPT !.enabled = TRUE] /\ UNCHANGED <<audio, fetches>>
      BY <1>2, <2>2 DEF SwitchOn, Enable, fetchVars
    <3> QED BY <1>1, <3>1 DEF States
  <2> QED BY <2>1, <2>2
<1>3. ASSUME NEW p \in Phrases, ReleaseDropped(p) PROVE StateType'
  <2>1. Known(p) \in Audio
    BY <1>1 DEF Known, Audio
  <2>2. SchedulePrefetch(st, Known(p))
    BY <1>3 DEF ReleaseDropped, Announce
  <2> QED BY <1>1, <2>1, <2>2, Scheduled
<1>4. ASSUME NEW p \in Phrases, NEW result \in Fetched, FinishPrefetch(p, result), UNCHANGED plannerVars
      PROVE  StateType'
  <2>1. fetches' \in [Phrases -> Nat]
    BY <1>1, <1>4 DEF FinishPrefetch
  <2>2. audio' \in Audio
    BY <1>1, <1>4 DEF FinishPrefetch, Audio
  <2> DEFINE n == IF st.inflight = 0 THEN 0 ELSE st.inflight - 1
  <2>3. n \in Nat
    BY <1>1 DEF States
  <2>4. st' = [st EXCEPT !.inflight = n]
    BY <1>4 DEF FinishPrefetch
  <2> HIDE DEF n
  <2>5. st' \in States
    BY <1>1, <2>3, <2>4 DEF States
  <2> QED BY <2>1, <2>2, <2>5
<1>5. ASSUME PumpClaims, UNCHANGED plannerVars PROVE StateType'
  <2>1. pump.phrase \in Phrases
    BY <1>1, <1>5 DEF PumpInv, PumpClaims, Resting
  <2> DEFINE known == [audio EXCEPT ![pump.phrase] = IF @ = "absent" THEN "pending" ELSE @]
             s == [st EXCEPT !.claim = TRUE]
  <2>2. known \in Audio
    BY <1>1, <2>1 DEF Audio
  <2>3. s \in States
    BY <1>1 DEF States
  <2>4. SchedulePrefetch(s, known)
    BY <1>5 DEF PumpClaims
  <2> HIDE DEF known, s
  <2> QED BY <1>1, <2>2, <2>3, <2>4, Scheduled
<1>6. ASSUME PumpPolls, UNCHANGED plannerVars PROVE StateType'
  <2>1. pump.phrase \in Phrases
    BY <1>1, <1>6 DEF PumpInv, PumpPolls, Resting
  <2>2. UNCHANGED fetches /\ (UNCHANGED <<st, audio>> \/ GiveUp)
    BY <1>6 DEF PumpPolls
  <2> QED BY <1>1, <2>1, <2>2 DEF GiveUp, States, Audio
<1>7. ASSUME PumpStarts, UNCHANGED plannerVars PROVE StateType'
  <2>1. pump.phrase \in Phrases
    BY <1>1, <1>7 DEF PumpInv, PumpStarts, Resting
  <2>2. /\ UNCHANGED fetches
        /\ \/ st' = [st EXCEPT !.speaking = TRUE, !.claim = FALSE] /\ UNCHANGED audio
           \/ GiveUp
    BY <1>7 DEF PumpStarts
  <2>3. CASE GiveUp
    BY <1>1, <2>1, <2>2, <2>3 DEF GiveUp, States, Audio
  <2>4. CASE st' = [st EXCEPT !.speaking = TRUE, !.claim = FALSE] /\ UNCHANGED audio
    BY <1>1, <2>2, <2>4 DEF States
  <2> QED BY <2>2, <2>3, <2>4
<1>8. ASSUME PumpFinishes, UNCHANGED plannerVars PROVE StateType'
  <2>1. pump.phrase \in Phrases
    BY <1>1, <1>8 DEF PumpInv, PumpFinishes, Resting
  <2> DEFINE known == [audio EXCEPT ![pump.phrase] = "absent"]
  <2>2. known \in Audio
    BY <1>1, <2>1 DEF Audio
  <2>3. \/ SchedulePrefetch(Quiet(st), known)
        \/ st' = Quiet(st) /\ audio' = known /\ UNCHANGED fetches
    BY <1>8 DEF PumpFinishes
  <2> HIDE DEF known
  <2> QED BY <1>1, <2>2, <2>3, StatesClosed, Scheduled
<1>9. ASSUME ResetBumps, UNCHANGED plannerVars PROVE StateType'
  <2>1. CASE reset.off /\ ~st.enabled
    BY <1>1, <1>9, <2>1 DEF ResetBumps
  <2>2. CASE ~(reset.off /\ ~st.enabled)
    <3> DEFINE e == st.enabled /\ ~reset.off
               b == BumpEpoch(st)
    <3>1. b \in States /\ e \in BOOLEAN /\ b.enabled = st.enabled
      BY <1>1, StatesClosed
    <3>2. st' = [b EXCEPT !.inflight = 0, !.enabled = b.enabled /\ ~reset.off]
      BY <1>9, <2>2 DEF ResetBumps
    <3>3. audio' = [p \in Phrases |-> "absent"] /\ UNCHANGED fetches
      BY <1>9, <2>2 DEF ResetBumps
    <3> HIDE DEF b
    <3>4. st' \in States
      BY <3>1, <3>2 DEF States
    <3> QED BY <1>1, <3>3, <3>4 DEF Audio
  <2> QED BY <2>1, <2>2
<1>10. ASSUME WatchdogWakes, UNCHANGED plannerVars PROVE StateType'
  <2>1. rescue.phrase \in Phrases
    BY <1>1, <1>10 DEF Types, TaskType, WatchdogWakes
  <2> DEFINE known == [audio EXCEPT ![rescue.phrase] = "absent"]
  <2>2. known \in Audio
    BY <1>1, <2>1 DEF Audio
  <2>3. SchedulePrefetch(BumpEpoch(st), known)
    BY <1>10 DEF WatchdogWakes
  <2> HIDE DEF known
  <2> QED BY <1>1, <2>2, <2>3, StatesClosed, Scheduled
<1>11. ASSUME \/ Plan
              \/ RuntimeStarts
              \/ RuntimeStops
              \/ SwitchOff
              \/ ReleaseWaiting
              \/ (\E p \in Phrases : Push(p)) /\ UNCHANGED plannerVars
              \/ (\E ok \in BOOLEAN : PlayerEnds(ok)) /\ UNCHANGED plannerVars
              \/ (PumpChecks \/ BeginNext \/ PumpChecksChunk \/ PumpPlays \/ PumpRegisters \/
                  PumpHears \/ PlayerIdle \/ PlayerBusy \/ Deliver \/ ResetCancels \/
                  ResetStops \/ WatchdogBites \/ WindowCloses \/
                  RescueStops) /\ UNCHANGED plannerVars
              \/ UNCHANGED vars
      PROVE  StateType'
  <2>1. UNCHANGED <<st, audio, fetches>>
    BY <1>11
    DEF Plan, RuntimeStarts, RuntimeStops, SwitchOff, Push, ReleaseWaiting, PumpChecks,
        BeginNext, PumpChecksChunk, PumpPlays, PumpRegisters, PumpHears, PlayerIdle,
        PlayerBusy, PlayerEnds, Deliver, ResetCancels, ResetStops, WatchdogBites, WindowCloses,
        RescueStops, AskReset, Asked, ClearQueue, vars, channelVars, plannerVars, queueVars,
        fetchVars, sinkVars
  <2> QED BY <2>1, <1>1
<1> QED
  BY <1>1, <1>2, <1>3, <1>4, <1>5, <1>6, <1>7, <1>8, <1>9, <1>10, <1>11 DEF Next, EnqueueStep,
  FetchStep, PumpStep, PlayerStep, ResetStep, RescueStep

\* So do the wake-up permit, the upsets, the reset and the recovery.
LEMMA TaskTypeKept == Types /\ PumpInv /\ [Next]_vars => TaskType'
<1> SUFFICES ASSUME Types, PumpInv, [Next]_vars PROVE TaskType'
  OBVIOUS
<1>1. TaskType /\ pump.phrase \in Phrases \union {None} /\ (st.speaking => pump.phrase # None)
  BY DEF Types, PumpType, PumpRecords, PumpInv, Resting
<1> USE DEF TaskType
<1>2. ASSUME RuntimeStops PROVE TaskType'
  BY <1>1, <1>2 DEF RuntimeStops, AskReset
<1>3. ASSUME SwitchOff PROVE TaskType'
  BY <1>1, <1>3 DEF SwitchOff, AskReset
<1>4. ASSUME SwitchOn PROVE TaskType'
  BY <1>1, <1>4 DEF SwitchOn, Enable, Notify, channelVars
<1>5. ASSUME NEW p \in Phrases, ReleaseDropped(p) PROVE TaskType'
  BY <1>1, <1>5 DEF ReleaseDropped, Announce, Notify
<1>6. ASSUME NEW p \in Phrases, NEW result \in Fetched, FinishPrefetch(p, result), UNCHANGED plannerVars
      PROVE  TaskType'
  BY <1>1, <1>6 DEF FinishPrefetch, Notify
<1>7. ASSUME ReleaseWaiting PROVE TaskType'
  BY <1>1, <1>7 DEF ReleaseWaiting, ClearQueue
<1>8. ASSUME PumpChecks, UNCHANGED plannerVars PROVE TaskType'
  BY <1>1, <1>8 DEF PumpChecks
<1>9. ASSUME Deliver, UNCHANGED plannerVars PROVE TaskType'
  BY <1>1, <1>9 DEF Deliver, Notify
<1>10. ASSUME ResetBumps, UNCHANGED plannerVars PROVE TaskType'
  BY <1>1, <1>10 DEF ResetBumps
<1>11. ASSUME ResetCancels, UNCHANGED plannerVars PROVE TaskType'
  BY <1>1, <1>11 DEF ResetCancels
<1>12. ASSUME ResetStops, UNCHANGED plannerVars PROVE TaskType'
  BY <1>1, <1>12 DEF ResetStops, Notify
<1>13. ASSUME WatchdogBites, UNCHANGED plannerVars PROVE TaskType'
  BY <1>1, <1>13 DEF WatchdogBites
<1>14. ASSUME WindowCloses, UNCHANGED plannerVars PROVE TaskType'
  BY <1>1, <1>14 DEF WindowCloses
<1>15. ASSUME RescueStops, UNCHANGED plannerVars PROVE TaskType'
  BY <1>1, <1>15 DEF RescueStops, NoTask
<1>16. ASSUME WatchdogWakes, UNCHANGED plannerVars PROVE TaskType'
  BY <1>1, <1>16 DEF WatchdogWakes, Notify, NoTask
<1>17. ASSUME \/ Plan
              \/ RuntimeStarts
              \/ (\E p \in Phrases : Push(p)) /\ UNCHANGED plannerVars
              \/ (\E ok \in BOOLEAN : PlayerEnds(ok)) /\ UNCHANGED plannerVars
              \/ (BeginNext \/ PumpClaims \/ PumpPolls \/ PumpStarts \/ PumpChecksChunk \/
                  PumpPlays \/ PumpRegisters \/ PumpHears \/ PumpFinishes \/ PlayerIdle \/
                  PlayerBusy) /\ UNCHANGED plannerVars
              \/ UNCHANGED vars
      PROVE  TaskType'
  <2>1. UNCHANGED <<permit, upsets, reset, rescue>>
    BY <1>17
    DEF Plan, RuntimeStarts, Push, BeginNext, PumpClaims, PumpPolls, PumpStarts,
        PumpChecksChunk, PumpPlays, PumpRegisters, PumpHears, PumpFinishes, PlayerIdle,
        PlayerBusy, PlayerEnds, Asked, GiveUp, SchedulePrefetch, vars, channelVars,
        plannerVars, queueVars, fetchVars, sinkVars
  <2> QED BY <2>1, <1>1
<1> QED
  BY <1>1, <1>2, <1>3, <1>4, <1>5, <1>6, <1>7, <1>8, <1>9, <1>10, <1>11, <1>12, <1>13, <1>14,
     <1>15, <1>16, <1>17 DEF Next,
  EnqueueStep, FetchStep, PumpStep, PlayerStep, ResetStep, RescueStep

\* What the player is sent and answers keeps its types.
LEMMA PlayerTypeKept == Types /\ PumpInv /\ [Next]_vars => PlayerType'
<1> SUFFICES ASSUME Types, PumpInv, [Next]_vars PROVE PlayerType'
  OBVIOUS
<1>1. /\ mailbox \in Seq(Pieces \union {None}) /\ playing \in Pieces \union {None}
      /\ finished \in Seq(Endings)
  BY DEF Types, PlayerType
<1> USE DEF PlayerType
<1>2. ASSUME PumpPlays, UNCHANGED plannerVars PROVE PlayerType'
  <2>1. Piece \in Pieces
    BY <1>2 DEF Types, PumpType, PumpRecords, PumpInv, PumpPlays, Resting, Piece, Pieces
  <2>2. mailbox' = Append(mailbox, Piece) /\ UNCHANGED <<playing, finished>>
    BY <1>2 DEF PumpPlays, Piece
  <2> HIDE DEF Piece
  <2> QED BY <1>1, <2>1, <2>2
<1>3. ASSUME PlayerIdle, UNCHANGED plannerVars PROVE PlayerType'
  <2>1. mailbox # <<>> /\ UNCHANGED finished
    BY <1>3 DEF PlayerIdle
  <2>2. Head(mailbox) \in Pieces \union {None} /\ Tail(mailbox) \in Seq(Pieces \union {None})
    BY <1>1, <2>1
  <2>3. mailbox' \in {<<>>, Tail(mailbox)} /\ playing' \in {playing, Head(mailbox)}
    BY <1>3 DEF PlayerIdle
  <2>4. mailbox' \in Seq(Pieces \union {None})
    <3>1. <<>> \in Seq(Pieces \union {None})
      BY EmptySeq
    <3> QED BY <2>2, <2>3, <3>1
  <2>5. playing' \in Pieces \union {None}
    BY <1>1, <2>2, <2>3
  <2> QED BY <1>1, <2>1, <2>4, <2>5
<1>4. ASSUME PlayerBusy, UNCHANGED plannerVars PROVE PlayerType'
  <2>1. mailbox # <<>> /\ playing \in Pieces
    BY <1>1, <1>4 DEF PlayerBusy
  <2>2. Tail(mailbox) \in Seq(Pieces \union {None})
    BY <1>1, <2>1
  <2> DEFINE f == [key |-> playing, ok |-> FALSE]
  <2>3. f \in Endings
    BY <2>1 DEF Endings
  <2>4. /\ mailbox' \in {<<>>, Tail(mailbox)} /\ playing' \in {playing, None}
        /\ finished' \in {finished, Append(finished, f)}
    BY <1>4 DEF PlayerBusy
  <2> HIDE DEF f
  <2>5. mailbox' \in Seq(Pieces \union {None})
    <3>1. <<>> \in Seq(Pieces \union {None})
      BY EmptySeq
    <3> QED BY <2>2, <2>4, <3>1
  <2>6. finished' \in Seq(Endings)
    <3>1. Append(finished, f) \in Seq(Endings)
      BY <1>1, <2>3
    <3> QED BY <1>1, <2>4, <3>1
  <2> QED BY <1>1, <2>4, <2>5, <2>6
<1>5. ASSUME NEW ok \in BOOLEAN, PlayerEnds(ok), UNCHANGED plannerVars PROVE PlayerType'
  <2> DEFINE f == [key |-> playing, ok |-> ok]
  <2>1. f \in Endings
    BY <1>1, <1>5 DEF PlayerEnds, Endings
  <2>2. finished' = Append(finished, f) /\ playing' = None /\ UNCHANGED mailbox
    BY <1>5 DEF PlayerEnds
  <2> HIDE DEF f
  <2> QED BY <1>1, <2>1, <2>2
<1>6. ASSUME Deliver, UNCHANGED plannerVars PROVE PlayerType'
  <2>1. finished # <<>> /\ finished' = Tail(finished) /\ UNCHANGED <<mailbox, playing>>
    BY <1>6 DEF Deliver
  <2> QED BY <1>1, <2>1
<1>7. ASSUME ResetStops, UNCHANGED plannerVars PROVE PlayerType'
  <2>1. mailbox' = Append(mailbox, None) /\ UNCHANGED <<playing, finished>>
    BY <1>7 DEF ResetStops
  <2> QED BY <1>1, <2>1
<1>8. ASSUME RescueStops, UNCHANGED plannerVars PROVE PlayerType'
  <2>1. mailbox' = Append(mailbox, None) /\ UNCHANGED <<playing, finished>>
    BY <1>8 DEF RescueStops
  <2> QED BY <1>1, <2>1
<1>9. ASSUME \/ Plan
             \/ RuntimeStarts
             \/ RuntimeStops
             \/ SwitchOff
             \/ SwitchOn
             \/ \E p \in Phrases : ReleaseDropped(p)
             \/ ReleaseWaiting
             \/ (\E p \in Phrases : Push(p)) /\ UNCHANGED plannerVars
             \/ (\E p \in Phrases, result \in Fetched : FinishPrefetch(p, result)) /\ UNCHANGED plannerVars
             \/ (PumpChecks \/ BeginNext \/ PumpClaims \/ PumpPolls \/ PumpStarts \/
                 PumpChecksChunk \/ PumpRegisters \/ PumpHears \/ PumpFinishes \/ ResetBumps \/
                 ResetCancels \/ WatchdogBites \/ WindowCloses \/
                 WatchdogWakes) /\ UNCHANGED plannerVars
             \/ UNCHANGED vars
      PROVE  PlayerType'
  <2>1. UNCHANGED <<mailbox, playing, finished>>
    BY <1>9
    DEF Plan, RuntimeStarts, RuntimeStops, SwitchOff, SwitchOn, Push, ReleaseDropped,
        FinishPrefetch, ReleaseWaiting, PumpChecks, BeginNext, PumpClaims, PumpPolls,
        PumpStarts, PumpChecksChunk, PumpRegisters, PumpHears, PumpFinishes, ResetBumps,
        ResetCancels, WatchdogBites, WindowCloses, WatchdogWakes, Announce, AskReset, Asked,
        ClearQueue, Enable, GiveUp, SchedulePrefetch, vars, channelVars, plannerVars,
        queueVars, fetchVars, sinkVars
  <2> QED BY <2>1, <1>1
<1> QED
  BY <1>1, <1>2, <1>3, <1>4, <1>5, <1>6, <1>7, <1>8, <1>9 DEF Next, EnqueueStep, FetchStep,
  PumpStep, PlayerStep, ResetStep, RescueStep

\* The pump at rest, and at work on a phrase.
LEMMA PumpShapes ==
  /\ Asleep \in PumpRecords /\ Asleep.pc = "wait" /\ Asleep.phrase = None /\ Asleep.chunk = 0
  /\ \A r \in PumpRecords : \A label \in PumpPoints :
       LET m == [r EXCEPT !.pc = label] IN
       m \in PumpRecords /\ m.pc = label /\ m.phrase = r.phrase /\ m.chunk = r.chunk
<1>1. Asleep \in PumpRecords
  BY DEF Asleep, PumpRecords, PumpPoints
<1>2. Asleep.pc = "wait" /\ Asleep.phrase = None /\ Asleep.chunk = 0
  BY DEF Asleep
<1>3. ASSUME NEW r \in PumpRecords, NEW label \in PumpPoints
      PROVE  LET m == [r EXCEPT !.pc = label] IN
             m \in PumpRecords /\ m.pc = label /\ m.phrase = r.phrase /\ m.chunk = r.chunk
  BY DEF PumpRecords
<1> QED BY <1>1, <1>2, <1>3

\* Where the pump stands still, the flags may be taken back and the current phrase dropped.
LEMMA PumpUntouched ==
  ASSUME PumpType, PumpInv, UNCHANGED <<pump, waiter>>, current' \in {current, None},
         st'.speaking \in {st.speaking, FALSE}, st'.claim \in {st.claim, FALSE}
  PROVE  PumpType' /\ PumpInv'
<1>1. PumpType'
  BY DEF PumpType
<1>2. PumpInv'
  BY DEF PumpInv, Piece
<1> QED BY <1>1, <1>2

\* The pump and its receiver keep their types, and what the pump holds goes with its point.
LEMMA PumpKept == Types /\ PumpInv /\ [Next]_vars => PumpType' /\ PumpInv'
<1> SUFFICES ASSUME Types, PumpInv, [Next]_vars PROVE PumpType' /\ PumpInv'
  OBVIOUS
<1> DEFINE P == PumpRecords
           W == [key : Pieces \union {None}, answer : {"none", "ok", "failed"}]
<1>1. /\ pump \in P /\ waiter \in W /\ st \in States /\ st.epoch \in Nat /\ Chunks \in Nat \ {0}
      /\ pump.phrase \in Phrases \union {None} /\ pump.chunk \in 0..Chunks /\ None \notin Phrases
      /\ audio \in Audio /\ fetches \in [Phrases -> Nat] /\ items \in Seq(Phrases)
      /\ PumpType /\ finished \in Seq(Endings)
      /\ rescue.phrase \in Phrases \union {None}
  BY DEF Types, PumpType, StateType, States, QueueType, PlayerType, TaskType, PumpRecords
<1>2. ASSUME SwitchOn PROVE PumpType' /\ PumpInv'
  <2>1. UNCHANGED <<pump, waiter, current>> /\ st' \in {st, [st EXCEPT !.enabled = TRUE]}
    BY <1>2 DEF SwitchOn, Enable, channelVars, queueVars
  <2>2. st'.speaking = st.speaking /\ st'.claim = st.claim
    BY <1>1, <2>1 DEF States
  <2> QED BY <1>1, <2>1, <2>2, PumpUntouched
<1>3. ASSUME NEW p \in Phrases, ReleaseDropped(p) PROVE PumpType' /\ PumpInv'
  <2>1. Known(p) \in Audio
    BY <1>1 DEF Known, Audio
  <2>2. SchedulePrefetch(st, Known(p)) /\ UNCHANGED <<pump, waiter, current>>
    BY <1>3 DEF ReleaseDropped, Announce, queueVars
  <2>3. st'.speaking = st.speaking /\ st'.claim = st.claim
    BY <1>1, <2>1, <2>2, Scheduled
  <2> QED BY <1>1, <2>2, <2>3, PumpUntouched
<1>4. ASSUME NEW p \in Phrases, NEW result \in Fetched, FinishPrefetch(p, result), UNCHANGED plannerVars
      PROVE  PumpType' /\ PumpInv'
  <2> DEFINE n == IF st.inflight = 0 THEN 0 ELSE st.inflight - 1
  <2>1. st' = [st EXCEPT !.inflight = n] /\ UNCHANGED <<pump, waiter, current>>
    BY <1>4 DEF FinishPrefetch, queueVars
  <2> HIDE DEF n
  <2>2. st'.speaking = st.speaking /\ st'.claim = st.claim
    BY <1>1, <2>1 DEF States
  <2> QED BY <1>1, <2>1, <2>2, PumpUntouched
<1>5. ASSUME ReleaseWaiting PROVE PumpType' /\ PumpInv'
  <2>1. UNCHANGED <<pump, waiter, st>> /\ current' = None
    BY <1>5 DEF ReleaseWaiting, ClearQueue
  <2> QED BY <1>1, <2>1, PumpUntouched
<1>6. ASSUME PumpChecks, UNCHANGED plannerVars PROVE PumpType' /\ PumpInv'
  <2>1. pump' \in P /\ pump'.pc \in {"wait", "begin"} /\ pump'.phrase = None /\ pump'.chunk = 0
    <3>1. pump.phrase = None /\ pump.chunk = 0
      BY <1>6 DEF PumpInv, PumpChecks, Resting
    <3>2. pump' = Asleep \/ pump' = [pump EXCEPT !.pc = "begin", !.epoch = st.epoch]
      BY <1>6 DEF PumpChecks
    <3>3. CASE pump' = Asleep
      BY <3>3, PumpShapes
    <3>4. CASE pump' = [pump EXCEPT !.pc = "begin", !.epoch = st.epoch]
      BY <1>1, <3>1, <3>4 DEF PumpRecords, PumpPoints
    <3> QED BY <3>2, <3>3, <3>4
  <2>2. UNCHANGED <<current, st, waiter>> /\ pump.pc \in {"wait", "check"}
    BY <1>6 DEF PumpChecks, queueVars
  <2>3. PumpInv'
    BY <1>1, <2>1, <2>2 DEF PumpInv, Resting, Piece
  <2> QED BY <1>1, <2>1, <2>2, <2>3 DEF PumpType
<1>7. ASSUME BeginNext, UNCHANGED plannerVars PROVE PumpType' /\ PumpInv'
  <2>1. CASE current # None \/ items = <<>>
    <3>1. pump' = Asleep /\ UNCHANGED <<current, st, waiter>> /\ pump.pc = "begin"
      BY <1>7, <2>1 DEF BeginNext, queueVars
    <3>2. pump' \in P /\ pump'.pc = "wait" /\ pump'.phrase = None /\ pump'.chunk = 0
      BY <1>1, <3>1, PumpShapes
    <3>3. PumpInv'
      BY <1>1, <3>1, <3>2 DEF PumpInv, Resting, Piece
    <3> QED BY <1>1, <3>1, <3>2, <3>3 DEF PumpType
  <2>2. CASE current = None /\ items # <<>>
    <3>1. Head(items) \in Phrases
      BY <1>1, <2>2
    <3>2. /\ pump' = [pump EXCEPT !.pc = "claim", !.phrase = Head(items)] /\ pump.pc = "begin"
          /\ UNCHANGED <<st, waiter>>
      BY <1>7, <2>2 DEF BeginNext
    <3>3. /\ pump' \in P /\ pump'.pc = "claim" /\ pump'.phrase \in Phrases
          /\ pump'.chunk = pump.chunk
      BY <1>1, <3>1, <3>2 DEF PumpRecords, PumpPoints
    <3>4. PumpInv'
      BY <1>1, <3>2, <3>3 DEF PumpInv, Resting, Piece
    <3> QED BY <1>1, <3>2, <3>3, <3>4 DEF PumpType
  <2> QED BY <2>1, <2>2
<1>8. ASSUME PumpClaims, UNCHANGED plannerVars PROVE PumpType' /\ PumpInv'
  <2>1. pump.phrase \in Phrases /\ pump.pc = "claim"
    BY <1>1, <1>8 DEF PumpInv, PumpClaims, Resting
  <2> DEFINE known == [audio EXCEPT ![pump.phrase] = IF @ = "absent" THEN "pending" ELSE @]
             s == [st EXCEPT !.claim = TRUE]
  <2>2. known \in Audio /\ s \in States /\ s.speaking = st.speaking
    BY <1>1, <2>1 DEF Audio, States
  <2>3. SchedulePrefetch(s, known) /\ UNCHANGED <<current, waiter>>
    BY <1>8 DEF PumpClaims, queueVars
  <2> HIDE DEF known, s
  <2>4. st'.speaking = st.speaking
    BY <1>1, <2>2, <2>3, Scheduled
  <2>5. /\ pump' \in P /\ pump'.pc = "poll" /\ pump'.phrase = pump.phrase
        /\ pump'.chunk = pump.chunk
    BY <1>1, <1>8 DEF PumpClaims, At, PumpRecords, PumpPoints
  <2>6. PumpInv'
    BY <1>1, <2>1, <2>3, <2>4, <2>5 DEF PumpInv, Resting, Piece
  <2> QED BY <1>1, <2>3, <2>5, <2>6 DEF PumpType
<1>9. ASSUME PumpPolls, UNCHANGED plannerVars PROVE PumpType' /\ PumpInv'
  <2>1. CASE Stale /\ GiveUp
    <3>1. /\ pump' = Asleep /\ current' = None /\ UNCHANGED waiter
          /\ st' = [st EXCEPT !.claim = FALSE]
      BY <1>9, <2>1 DEF PumpPolls, GiveUp
    <3>2. pump' \in P /\ pump'.pc = "wait" /\ pump'.phrase = None /\ pump'.chunk = 0
      BY <1>1, <3>1, PumpShapes
    <3>3. ~st'.claim /\ ~st'.speaking /\ pump.pc # "await"
      BY <1>1, <1>9, <3>1 DEF PumpPolls, PumpInv, States
    <3>4. PumpInv'
      BY <1>1, <3>1, <3>2, <3>3 DEF PumpInv, Resting, Piece
    <3> QED BY <1>1, <3>1, <3>2, <3>4 DEF PumpType
  <2>2. CASE ~(Stale /\ GiveUp)
    <3>1. \E label \in {"start", "finish", "finish empty"} : At(label)
      BY <1>9, <2>2 DEF PumpPolls
    <3>2. UNCHANGED <<current, st, waiter>> /\ pump.pc = "poll"
      BY <1>9, <2>2 DEF PumpPolls
    <3>3. /\ pump' \in P /\ pump'.pc \in {"start", "finish", "finish empty"}
          /\ pump'.phrase = pump.phrase /\ pump'.chunk = pump.chunk
      BY <1>1, <3>1 DEF At, PumpRecords, PumpPoints
    <3>4. PumpInv'
      BY <1>1, <3>2, <3>3 DEF PumpInv, Resting, Piece
    <3> QED BY <1>1, <3>2, <3>3, <3>4 DEF PumpType
  <2> QED BY <2>1, <2>2
<1>10. ASSUME PumpStarts, UNCHANGED plannerVars PROVE PumpType' /\ PumpInv'
  <2>1. CASE Stale /\ GiveUp
    <3>1. /\ pump' = Asleep /\ current' = None /\ UNCHANGED waiter
          /\ st' = [st EXCEPT !.claim = FALSE]
      BY <1>10, <2>1 DEF PumpStarts, GiveUp
    <3>2. pump' \in P /\ pump'.pc = "wait" /\ pump'.phrase = None /\ pump'.chunk = 0
      BY <1>1, <3>1, PumpShapes
    <3>3. ~st'.claim /\ ~st'.speaking /\ pump.pc # "await"
      BY <1>1, <1>10, <3>1 DEF PumpStarts, PumpInv, States
    <3>4. PumpInv'
      BY <1>1, <3>1, <3>2, <3>3 DEF PumpInv, Resting, Piece
    <3> QED BY <1>1, <3>1, <3>2, <3>4 DEF PumpType
  <2>2. CASE ~(Stale /\ GiveUp)
    <3>1. /\ pump' = [pump EXCEPT !.pc = "chunk", !.chunk = 1] /\ pump.pc = "start"
          /\ UNCHANGED waiter
      BY <1>10, <2>2 DEF PumpStarts
    <3>2. pump' \in P /\ pump'.pc = "chunk" /\ pump'.phrase = pump.phrase /\ pump'.chunk = 1
      <4>1. 1 \in 0..Chunks
        OBVIOUS
      <4> QED BY <1>1, <3>1, <4>1 DEF PumpRecords, PumpPoints
    <3>3. PumpInv'
      BY <1>1, <3>1, <3>2 DEF PumpInv, Resting, Piece
    <3> QED BY <1>1, <3>1, <3>2, <3>3 DEF PumpType
  <2> QED BY <2>1, <2>2
<1>11. ASSUME PumpChecksChunk, UNCHANGED plannerVars PROVE PumpType' /\ PumpInv'
  <2>1. /\ pump' \in P /\ pump'.pc \in {"finish", "play"} /\ pump'.phrase = pump.phrase
        /\ pump'.chunk = pump.chunk
    BY <1>1, <1>11 DEF PumpChecksChunk, At, PumpRecords, PumpPoints
  <2>2. UNCHANGED <<current, st, waiter>> /\ pump.pc = "chunk"
    BY <1>11 DEF PumpChecksChunk, queueVars
  <2>3. PumpInv'
    BY <1>1, <2>1, <2>2 DEF PumpInv, Resting, Piece
  <2> QED BY <1>1, <2>1, <2>2, <2>3 DEF PumpType
<1>12. ASSUME PumpPlays, UNCHANGED plannerVars PROVE PumpType' /\ PumpInv'
  <2>1. /\ pump' \in P /\ pump'.pc = "register" /\ pump'.phrase = pump.phrase
        /\ pump'.chunk = pump.chunk
    BY <1>1, <1>12 DEF PumpPlays, At, PumpRecords, PumpPoints
  <2>2. UNCHANGED <<current, st, waiter>> /\ pump.pc = "play"
    BY <1>12 DEF PumpPlays, queueVars
  <2>3. PumpInv'
    BY <1>1, <2>1, <2>2 DEF PumpInv, Resting, Piece
  <2> QED BY <1>1, <2>1, <2>2, <2>3 DEF PumpType
<1>13. ASSUME PumpRegisters, UNCHANGED plannerVars PROVE PumpType' /\ PumpInv'
  <2>1. /\ pump' \in P /\ pump'.pc = "await" /\ pump'.phrase = pump.phrase
        /\ pump'.chunk = pump.chunk
    BY <1>1, <1>13 DEF PumpRegisters, At, PumpRecords, PumpPoints
  <2>2. UNCHANGED <<current, st>> /\ pump.pc = "register"
    BY <1>13 DEF PumpRegisters, queueVars
  <2>3. waiter' = [key |-> Piece, answer |-> "none"] /\ Piece' = Piece /\ Piece \in Pieces
    BY <1>1, <1>13, <2>1, <2>2 DEF PumpRegisters, Piece, Pieces, PumpInv, Resting
  <2> HIDE DEF Piece
  <2>4. waiter' \in W /\ waiter'.key = Piece /\ waiter'.answer = "none"
    BY <2>3
  <2>5. PumpInv'
    BY <1>1, <2>1, <2>2, <2>3, <2>4 DEF PumpInv, Resting
  <2> QED BY <2>1, <2>4, <2>5 DEF PumpType
<1>14. ASSUME PumpHears, UNCHANGED plannerVars PROVE PumpType' /\ PumpInv'
  <2>1. /\ pump' \in P /\ pump'.phrase = pump.phrase /\ pump.pc = "await"
        /\ \/ pump'.pc = "chunk" /\ pump'.chunk # 0
           \/ pump'.pc = "finish"
    <3>1. CASE waiter.answer = "ok" /\ pump.chunk < Chunks
      <4> DEFINE next == pump.chunk + 1
      <4>1. next \in 0..Chunks /\ next # 0
        BY <1>1, <3>1
      <4>2. pump' = [pump EXCEPT !.pc = "chunk", !.chunk = next] /\ pump.pc = "await"
        BY <1>14, <3>1 DEF PumpHears
      <4> HIDE DEF next
      <4> QED BY <1>1, <4>1, <4>2 DEF PumpRecords, PumpPoints
    <3>2. CASE ~(waiter.answer = "ok" /\ pump.chunk < Chunks)
      <4>1. pump' = [pump EXCEPT !.pc = "finish"] /\ pump.pc = "await"
        BY <1>14, <3>2 DEF PumpHears
      <4> QED BY <1>1, <4>1 DEF PumpRecords, PumpPoints
    <3> QED BY <3>1, <3>2
  <2>2. UNCHANGED <<current, st>> /\ waiter' = [key |-> None, answer |-> "none"]
    BY <1>14 DEF PumpHears, queueVars
  <2>3. PumpInv'
    BY <1>1, <2>1, <2>2 DEF PumpInv, Resting, Piece
  <2> QED BY <2>1, <2>2, <2>3 DEF PumpType
<1>15. ASSUME PumpFinishes, UNCHANGED plannerVars PROVE PumpType' /\ PumpInv'
  <2>1. pump.phrase \in Phrases /\ pump.pc \in {"finish", "finish empty"}
    BY <1>1, <1>15 DEF PumpInv, PumpFinishes, Resting
  <2> DEFINE known == [audio EXCEPT ![pump.phrase] = "absent"]
  <2>2. known \in Audio
    BY <1>1, <2>1 DEF Audio
  <2>3. /\ SchedulePrefetch(Quiet(st), known) \/ st' = Quiet(st)
        /\ current' = None /\ UNCHANGED waiter
    BY <1>15 DEF PumpFinishes
  <2> HIDE DEF known
  <2>4. ~st'.speaking /\ ~st'.claim
    <3>1. Quiet(st) \in States /\ ~Quiet(st).speaking /\ ~Quiet(st).claim
      BY <1>1, StatesClosed
    <3>2. CASE st' = Quiet(st)
      BY <3>1, <3>2
    <3>3. CASE SchedulePrefetch(Quiet(st), known)
      BY <1>1, <2>2, <3>1, <3>3, Scheduled
    <3> QED BY <2>3, <3>2, <3>3
  <2>5. pump' \in P /\ pump'.pc = "check" /\ pump'.phrase = None /\ pump'.chunk = 0
    BY <1>15, PumpShapes DEF PumpFinishes, PumpPoints
  <2>6. PumpInv'
    BY <1>1, <2>1, <2>3, <2>4, <2>5 DEF PumpInv, Resting, Piece
  <2> QED BY <1>1, <2>3, <2>5, <2>6 DEF PumpType
<1>16. ASSUME Deliver, UNCHANGED plannerVars PROVE PumpType' /\ PumpInv'
  <2>1. UNCHANGED <<pump, current, st>> /\ finished # <<>>
    BY <1>16 DEF Deliver, queueVars
  <2>2. Head(finished) \in Endings
    BY <1>1, <2>1
  <2>3. CASE waiter.key # Head(finished).key
    BY <1>1, <1>16, <2>1, <2>3, PumpUntouched DEF Deliver
  <2>4. CASE waiter.key = Head(finished).key
    <3>1. waiter.key # None /\ pump.pc = "await"
      BY <2>2, <2>4 DEF PumpInv, Pieces, Endings
    <3>2. waiter' \in W /\ waiter'.key = None /\ waiter'.answer # "none"
      BY <1>16, <2>4 DEF Deliver
    <3>3. PumpInv'
      BY <1>1, <2>1, <3>1, <3>2 DEF PumpInv, Resting
    <3> QED BY <1>1, <2>1, <3>2, <3>3 DEF PumpType
  <2> QED BY <2>3, <2>4
<1>17. ASSUME ResetBumps, UNCHANGED plannerVars PROVE PumpType' /\ PumpInv'
  <2>1. UNCHANGED <<pump, waiter, current>>
    BY <1>17 DEF ResetBumps, queueVars
  <2>2. CASE reset.off /\ ~st.enabled
    BY <1>1, <1>17, <2>1, <2>2, PumpUntouched DEF ResetBumps
  <2>3. CASE ~(reset.off /\ ~st.enabled)
    <3> DEFINE b == BumpEpoch(st)
    <3>1. b \in States /\ ~b.speaking /\ ~b.claim
      BY <1>1, StatesClosed
    <3>2. st' = [b EXCEPT !.inflight = 0, !.enabled = b.enabled /\ ~reset.off]
      BY <1>17, <2>3 DEF ResetBumps
    <3> HIDE DEF b
    <3>3. st'.speaking = FALSE /\ st'.claim = FALSE
      BY <3>1, <3>2 DEF States
    <3> QED BY <1>1, <2>1, <3>3, PumpUntouched
  <2> QED BY <2>2, <2>3
<1>18. ASSUME ResetCancels, UNCHANGED plannerVars PROVE PumpType' /\ PumpInv'
  <2>1. UNCHANGED <<pump, current, st>>
    BY <1>18 DEF ResetCancels, queueVars
  <2>2. CASE waiter.key = None
    BY <1>1, <1>18, <2>1, <2>2, PumpUntouched DEF ResetCancels
  <2>3. CASE waiter.key # None
    <3>1. pump.pc = "await"
      BY <2>3 DEF PumpInv
    <3>2. waiter' \in W /\ waiter'.key = None /\ waiter'.answer # "none"
      BY <1>18, <2>3 DEF ResetCancels
    <3>3. PumpInv'
      BY <1>1, <2>1, <3>1, <3>2 DEF PumpInv, Resting
    <3> QED BY <1>1, <2>1, <3>2, <3>3 DEF PumpType
  <2> QED BY <2>2, <2>3
<1>19. ASSUME RescueStops, UNCHANGED plannerVars PROVE PumpType' /\ PumpInv'
  <2>1. UNCHANGED <<pump, waiter, st>> /\ current' = None
    BY <1>19 DEF RescueStops
  <2> QED BY <1>1, <2>1, PumpUntouched
<1>20. ASSUME WatchdogWakes, UNCHANGED plannerVars PROVE PumpType' /\ PumpInv'
  <2>1. rescue.phrase \in Phrases
    BY <1>1, <1>20 DEF Types, TaskType, WatchdogWakes
  <2> DEFINE known == [audio EXCEPT ![rescue.phrase] = "absent"]
  <2>2. known \in Audio
    BY <1>1, <2>1 DEF Audio
  <2>3. SchedulePrefetch(BumpEpoch(st), known) /\ UNCHANGED <<pump, waiter, current>>
    BY <1>20 DEF WatchdogWakes, queueVars
  <2> HIDE DEF known
  <2>4. st'.speaking = FALSE /\ st'.claim = FALSE
    <3>1. /\ BumpEpoch(st) \in States /\ ~BumpEpoch(st).speaking /\ ~BumpEpoch(st).claim
      BY <1>1, StatesClosed
    <3>2. /\ st' \in States /\ st'.speaking = BumpEpoch(st).speaking
          /\ st'.claim = BumpEpoch(st).claim
      BY <1>1, <2>2, <2>3, <3>1, Scheduled
    <3> QED BY <3>1, <3>2 DEF States
  <2> QED BY <1>1, <2>3, <2>4, PumpUntouched
<1>21. ASSUME \/ Plan
              \/ RuntimeStarts
              \/ RuntimeStops
              \/ SwitchOff
              \/ (\E p \in Phrases : Push(p)) /\ UNCHANGED plannerVars
              \/ (\E ok \in BOOLEAN : PlayerEnds(ok)) /\ UNCHANGED plannerVars
              \/ (PlayerIdle \/ PlayerBusy \/ ResetStops \/ WatchdogBites \/
                  WindowCloses) /\ UNCHANGED plannerVars
              \/ UNCHANGED vars
      PROVE  PumpType' /\ PumpInv'
  <2>1. UNCHANGED <<pump, waiter, current, st>>
    BY <1>21
    DEF Plan, RuntimeStarts, RuntimeStops, SwitchOff, Push, PlayerIdle, PlayerBusy, PlayerEnds,
        ResetStops, WatchdogBites, WindowCloses, AskReset, Asked, vars, channelVars,
        plannerVars, queueVars, fetchVars, sinkVars
  <2> QED BY <2>1, <1>1, PumpUntouched
<1> QED
  BY <1>1, <1>2, <1>3, <1>4, <1>5, <1>6, <1>7, <1>8, <1>9, <1>10, <1>11, <1>12, <1>13, <1>14,
     <1>15, <1>16, <1>17, <1>18, <1>19, <1>20, <1>21 DEF Next,
  EnqueueStep, FetchStep, PumpStep, PlayerStep, ResetStep, RescueStep

\* A permit, or a reset that ends with one, keeps both.
LEMMA WokenUp ==
  ASSUME permit' \/ reset'.pc # "none"
  PROVE  NoPhraseForgotten' /\ Roused'
BY DEF NoPhraseForgotten, Roused

\* No step leaves a phrase to a pump that sleeps on.
LEMMA WakeKept ==
  Types /\ PumpInv /\ NoPhraseForgotten /\ Roused /\ [Next]_vars => NoPhraseForgotten' /\ Roused'
<1> SUFFICES ASSUME Types, PumpInv, NoPhraseForgotten, Roused, [Next]_vars
             PROVE  NoPhraseForgotten' /\ Roused'
  OBVIOUS
<1>1. /\ pump \in PumpRecords /\ st \in States /\ audio \in Audio /\ fetches \in [Phrases -> Nat]
      /\ items \in Seq(Phrases)
      /\ enq \in [Phrases -> [pc : {"none", "asked", "pushed"}, dropped : SUBSET Phrases]]
      /\ reset \in [pc : {"none", "bump", "cancel", "queue", "stop"}, off : BOOLEAN]
  BY DEF Types, PumpType, StateType, QueueType, TaskType
<1>2. ASSUME Plan PROVE NoPhraseForgotten' /\ Roused'
  <2>1. UNCHANGED <<pump, st, items, permit, reset>>
    BY <1>2 DEF Plan, Asked, queueVars
  <2>2. \A p \in Phrases : enq[p].pc = "pushed" => enq'[p].pc = "pushed"
    BY <1>1, <1>2 DEF Plan, Asked, Forgotten
  <2> QED BY <2>1, <2>2 DEF NoPhraseForgotten, Roused
<1>3. ASSUME RuntimeStops PROVE NoPhraseForgotten' /\ Roused'
  BY <1>3, WokenUp DEF RuntimeStops, AskReset
<1>4. ASSUME SwitchOff PROVE NoPhraseForgotten' /\ Roused'
  BY <1>4, WokenUp DEF SwitchOff, AskReset
<1>5. ASSUME SwitchOn PROVE NoPhraseForgotten' /\ Roused'
  <2>1. CASE st.enabled
    BY <1>5, <2>1 DEF SwitchOn, channelVars, NoPhraseForgotten, Roused
  <2>2. CASE ~st.enabled
    BY <1>5, <2>2, WokenUp DEF SwitchOn, Enable, Notify
  <2> QED BY <2>1, <2>2
<1>6. ASSUME NEW p \in Phrases, Push(p), UNCHANGED plannerVars PROVE NoPhraseForgotten' /\ Roused'
  <2>1. UNCHANGED <<pump, st, permit, reset>> /\ enq'[p].pc = "pushed"
    BY <1>1, <1>6 DEF Push
  <2> QED BY <2>1 DEF NoPhraseForgotten, Roused
<1>7. ASSUME NEW p \in Phrases, ReleaseDropped(p) PROVE NoPhraseForgotten' /\ Roused'
  BY <1>7, WokenUp DEF ReleaseDropped, Announce, Notify
<1>8. ASSUME NEW p \in Phrases, NEW result \in Fetched, FinishPrefetch(p, result), UNCHANGED plannerVars
      PROVE  NoPhraseForgotten' /\ Roused'
  BY <1>8, WokenUp DEF FinishPrefetch, Notify
<1>9. ASSUME ReleaseWaiting PROVE NoPhraseForgotten' /\ Roused'
  BY <1>1, <1>9, WokenUp DEF ReleaseWaiting, ClearQueue
<1>10. ASSUME PumpChecks, UNCHANGED plannerVars PROVE NoPhraseForgotten' /\ Roused'
  <2>1. UNCHANGED <<st, items, reset, enq>>
    BY <1>10 DEF PumpChecks, queueVars
  <2>2. CASE st.enabled
    <3>1. pump' = [pump EXCEPT !.pc = "begin", !.epoch = st.epoch]
      BY <1>10, <2>2 DEF PumpChecks, PumpInv, Resting
    <3>2. pump'.pc = "begin" /\ pump'.epoch = st.epoch
      BY <1>1, <3>1 DEF PumpRecords
    <3> QED BY <2>1, <3>2 DEF NoPhraseForgotten, Roused
  <2>3. CASE ~st.enabled
    BY <2>1, <2>3 DEF NoPhraseForgotten, Roused
  <2> QED BY <2>2, <2>3
<1>11. ASSUME BeginNext, UNCHANGED plannerVars PROVE NoPhraseForgotten' /\ Roused'
  <2>1. UNCHANGED <<st, permit, reset, enq>> /\ pump.pc = "begin" /\ current = None
    BY <1>11 DEF BeginNext, PumpInv, Resting
  <2>2. CASE items = <<>>
    <3>1. pump' = Asleep /\ items' = <<>>
      BY <1>11, <2>2 DEF BeginNext, queueVars
    <3> QED BY <3>1, PumpShapes DEF NoPhraseForgotten, Roused
  <2>3. CASE items # <<>>
    <3>1. pump' = [pump EXCEPT !.pc = "claim", !.phrase = Head(items)]
      BY <1>11, <2>1, <2>3 DEF BeginNext
    <3>2. pump'.pc = "claim" /\ pump'.epoch = pump.epoch
      BY <1>1, <3>1 DEF PumpRecords
    <3> QED BY <2>1, <3>2 DEF NoPhraseForgotten, Roused
  <2> QED BY <2>2, <2>3
<1>12. ASSUME PumpClaims, UNCHANGED plannerVars PROVE NoPhraseForgotten' /\ Roused'
  <2>1. pump.phrase \in Phrases /\ pump.pc = "claim"
    BY <1>1, <1>12 DEF PumpInv, PumpClaims, Resting, PumpRecords
  <2> DEFINE known == [audio EXCEPT ![pump.phrase] = IF @ = "absent" THEN "pending" ELSE @]
             s == [st EXCEPT !.claim = TRUE]
  <2>2. known \in Audio /\ s \in States /\ s.enabled = st.enabled /\ s.epoch = st.epoch
    BY <1>1, <2>1 DEF Audio, States
  <2>3. SchedulePrefetch(s, known) /\ UNCHANGED <<permit, reset>>
    BY <1>12 DEF PumpClaims
  <2> HIDE DEF known, s
  <2>4. st'.enabled = st.enabled /\ st'.epoch = st.epoch
    BY <1>1, <2>2, <2>3, Scheduled
  <2>5. pump'.pc = "poll" /\ pump'.epoch = pump.epoch
    BY <1>1, <1>12 DEF PumpClaims, At, PumpRecords
  <2> QED BY <2>1, <2>3, <2>4, <2>5 DEF NoPhraseForgotten, Roused
<1>13. ASSUME PumpPolls, UNCHANGED plannerVars PROVE NoPhraseForgotten' /\ Roused'
  <2>1. UNCHANGED <<items, permit, reset, enq>> /\ pump.pc = "poll"
    BY <1>13 DEF PumpPolls
  <2>2. CASE Stale /\ GiveUp
    <3>1. pump' = Asleep /\ st' = [st EXCEPT !.claim = FALSE]
      BY <2>2 DEF GiveUp
    <3>2. st'.enabled = st.enabled
      BY <1>1, <3>1 DEF States
    <3> QED BY <2>1, <2>2, <3>1, <3>2, PumpShapes DEF Stale, NoPhraseForgotten, Roused
  <2>3. CASE ~Stale
    <3>1. \E label \in {"start", "finish", "finish empty"} : At(label)
      BY <1>13, <2>3 DEF PumpPolls
    <3>2. pump'.pc \in {"start", "finish", "finish empty"} /\ pump'.epoch = pump.epoch
      BY <1>1, <3>1 DEF At, PumpRecords
    <3>3. UNCHANGED st
      BY <1>13, <2>3 DEF PumpPolls
    <3> QED BY <2>1, <3>2, <3>3 DEF NoPhraseForgotten, Roused
  <2> QED BY <1>13, <2>2, <2>3 DEF PumpPolls
<1>14. ASSUME PumpStarts, UNCHANGED plannerVars PROVE NoPhraseForgotten' /\ Roused'
  <2>1. UNCHANGED <<items, permit, reset, enq>> /\ pump.pc = "start"
    BY <1>14 DEF PumpStarts
  <2>2. CASE Stale /\ GiveUp
    <3>1. pump' = Asleep /\ st' = [st EXCEPT !.claim = FALSE]
      BY <2>2 DEF GiveUp
    <3>2. st'.enabled = st.enabled
      BY <1>1, <3>1 DEF States
    <3> QED BY <2>1, <2>2, <3>1, <3>2, PumpShapes DEF Stale, NoPhraseForgotten, Roused
  <2>3. CASE ~Stale
    <3>1. /\ pump' = [pump EXCEPT !.pc = "chunk", !.chunk = 1]
          /\ st' = [st EXCEPT !.speaking = TRUE, !.claim = FALSE]
      BY <1>14, <2>3 DEF PumpStarts
    <3>2. pump'.pc = "chunk" /\ pump'.epoch = pump.epoch
      BY <1>1, <3>1 DEF PumpRecords
    <3>3. st'.enabled = st.enabled /\ st'.epoch = st.epoch
      BY <1>1, <3>1 DEF States
    <3> QED BY <2>1, <3>2, <3>3 DEF NoPhraseForgotten, Roused
  <2> QED BY <1>14, <2>2, <2>3 DEF PumpStarts
<1>15. ASSUME PumpChecksChunk, UNCHANGED plannerVars PROVE NoPhraseForgotten' /\ Roused'
  <2>1. UNCHANGED <<st, permit, reset>> /\ pump.pc = "chunk"
    BY <1>15 DEF PumpChecksChunk
  <2>2. pump'.pc \in {"finish", "play"} /\ pump'.epoch = pump.epoch
    BY <1>1, <1>15 DEF PumpChecksChunk, At, PumpRecords
  <2> QED BY <2>1, <2>2 DEF NoPhraseForgotten, Roused
<1>16. ASSUME PumpPlays, UNCHANGED plannerVars PROVE NoPhraseForgotten' /\ Roused'
  <2>1. UNCHANGED <<st, permit, reset>> /\ pump.pc = "play"
    BY <1>16 DEF PumpPlays
  <2>2. pump'.pc \in {"register"} /\ pump'.epoch = pump.epoch
    BY <1>1, <1>16 DEF PumpPlays, At, PumpRecords
  <2> QED BY <2>1, <2>2 DEF NoPhraseForgotten, Roused
<1>17. ASSUME PumpRegisters, UNCHANGED plannerVars PROVE NoPhraseForgotten' /\ Roused'
  <2>1. UNCHANGED <<st, permit, reset>> /\ pump.pc = "register"
    BY <1>17 DEF PumpRegisters
  <2>2. pump'.pc \in {"await"} /\ pump'.epoch = pump.epoch
    BY <1>1, <1>17 DEF PumpRegisters, At, PumpRecords
  <2> QED BY <2>1, <2>2 DEF NoPhraseForgotten, Roused
<1>18. ASSUME PumpHears, UNCHANGED plannerVars PROVE NoPhraseForgotten' /\ Roused'
  <2>1. UNCHANGED <<st, permit, reset>> /\ pump.pc = "await"
    BY <1>18 DEF PumpHears
  <2>2. pump'.pc \in {"chunk", "finish"} /\ pump'.epoch = pump.epoch
    BY <1>1, <1>18 DEF PumpHears, At, PumpRecords
  <2> QED BY <2>1, <2>2 DEF NoPhraseForgotten, Roused
<1>19. ASSUME PumpFinishes, UNCHANGED plannerVars PROVE NoPhraseForgotten' /\ Roused'
  <2>1. pump'.pc = "check"
    BY <1>19, PumpShapes DEF PumpFinishes, PumpPoints
  <2> QED BY <2>1 DEF NoPhraseForgotten, Roused
<1>20. ASSUME Deliver, UNCHANGED plannerVars PROVE NoPhraseForgotten' /\ Roused'
  BY <1>20, WokenUp DEF Deliver, Notify
<1>21. ASSUME ResetBumps, UNCHANGED plannerVars PROVE NoPhraseForgotten' /\ Roused'
  <2>1. CASE reset.off /\ ~st.enabled
    BY <1>21, <2>1 DEF ResetBumps, NoPhraseForgotten, Roused
  <2>2. CASE ~(reset.off /\ ~st.enabled)
    BY <1>1, <1>21, <2>2, WokenUp DEF ResetBumps
  <2> QED BY <2>1, <2>2
<1>22. ASSUME ResetCancels, UNCHANGED plannerVars PROVE NoPhraseForgotten' /\ Roused'
  BY <1>1, <1>22, WokenUp DEF ResetCancels
<1>23. ASSUME ResetStops, UNCHANGED plannerVars PROVE NoPhraseForgotten' /\ Roused'
  BY <1>23, WokenUp DEF ResetStops, Notify
<1>24. ASSUME WatchdogWakes, UNCHANGED plannerVars PROVE NoPhraseForgotten' /\ Roused'
  BY <1>24, WokenUp DEF WatchdogWakes, Notify
<1>25. ASSUME \/ RuntimeStarts
              \/ (\E ok \in BOOLEAN : PlayerEnds(ok)) /\ UNCHANGED plannerVars
              \/ (PlayerIdle \/ PlayerBusy \/ WatchdogBites \/ WindowCloses \/
                  RescueStops) /\ UNCHANGED plannerVars
              \/ UNCHANGED vars
      PROVE  NoPhraseForgotten' /\ Roused'
  <2>1. UNCHANGED <<pump, st, items, permit, reset, enq>>
    BY <1>25
    DEF RuntimeStarts, PlayerIdle, PlayerBusy, PlayerEnds, WatchdogBites, WindowCloses,
        RescueStops, vars, channelVars, plannerVars, queueVars, fetchVars, sinkVars
  <2> QED BY <2>1 DEF NoPhraseForgotten, Roused
<1> QED
  BY <1>1, <1>2, <1>3, <1>4, <1>5, <1>6, <1>7, <1>8, <1>9, <1>10, <1>11, <1>12, <1>13, <1>14,
     <1>15, <1>16, <1>17, <1>18, <1>19, <1>20, <1>21, <1>22, <1>23, <1>24, <1>25 DEF Next,
  EnqueueStep, FetchStep, PumpStep, PlayerStep, ResetStep, RescueStep

-----------------------------------------------------------------------------
(* Fetches *)

Under(f) == UNION {{p} \X (1..f[p]) : p \in Phrases}

\* The fetches that run are finitely many.
LEMMA UnderFinite ==
  ASSUME NEW f \in [Phrases -> Nat]
  PROVE  /\ IsFiniteSet(Under(f)) /\ Cardinality(Under(f)) \in Nat
         /\ \A x : x \in Under(f) <=> \E p \in Phrases : \E i \in 1..f[p] : x = <<p, i>>
<1> DEFINE S == {{p} \X (1..f[p]) : p \in Phrases}
           g == [p \in Phrases |-> {p} \X (1..f[p])]
<1>1. g \in Surjection(Phrases, S)
  BY DEF Surjection
<1>2. IsFiniteSet(S)
  BY <1>1, FS_Surjection, ChannelAssumption
<1>3. ASSUME NEW T \in S PROVE IsFiniteSet(T)
  <2>1. PICK p \in Phrases : T = {p} \X (1..f[p])
    OBVIOUS
  <2>2. IsFiniteSet({p}) /\ IsFiniteSet(1..f[p])
    <3>1. 1 \in Int /\ f[p] \in Int
      OBVIOUS
    <3> QED BY <3>1, FS_Singleton, FS_Interval
  <2> QED BY <2>1, <2>2, FS_Product
<1>4. IsFiniteSet(UNION S)
  <2> HIDE DEF S
  <2> QED BY <1>2, <1>3, FS_UNION
<1>5. IsFiniteSet(Under(f))
  BY <1>4 DEF Under
<1>6. \A x : x \in Under(f) <=> \E p \in Phrases : \E i \in 1..f[p] : x = <<p, i>>
  BY DEF Under
<1> QED BY <1>5, <1>6, FS_CardinalityType

\* Each fetch that is scheduled is counted once, and is one more that runs.
LEMMA FetchesScheduled ==
  ASSUME items \in Seq(Phrases), fetches \in [Phrases -> Nat],
         NEW s \in States, NEW known \in Audio, SchedulePrefetch(s, known),
         s.inflight <= Cardinality(Fetches)
  PROVE  NoFetchLeaked'
<1> DEFINE lacking == {i \in DOMAIN items : known[items[i]] \notin Fetched}
           taken == {i \in lacking :
                       s.inflight + Cardinality({j \in lacking : j < i}) < PrefetchAhead}
           of(p) == {i \in taken : items[i] = p}
           times(p) == Cardinality(of(p))
<1>1. /\ st' = [s EXCEPT !.inflight = @ + Cardinality(taken)]
      /\ fetches' = [p \in Phrases |-> fetches[p] + times(p)]
  BY DEF SchedulePrefetch
<1>2. /\ taken \subseteq Nat /\ IsFiniteSet(taken)
      /\ \A i \in taken : items[i] \in Phrases
  <2>1. DOMAIN items = 1..Len(items) /\ Len(items) \in Nat
    OBVIOUS
  <2>2. IsFiniteSet(1..Len(items))
    <3>1. 1 \in Int /\ Len(items) \in Int
      BY <2>1
    <3> QED BY <3>1, FS_Interval
  <2>3. taken \subseteq 1..Len(items)
    BY <2>1
  <2> HIDE DEF taken
  <2> QED BY <2>1, <2>2, <2>3, FS_Subset
<1> HIDE DEF taken
<1>3. \A p : IsFiniteSet(of(p)) /\ times(p) \in Nat
  <2> TAKE p
  <2>1. of(p) \in SUBSET taken
    OBVIOUS
  <2> HIDE DEF of
  <2> QED BY <1>2, <2>1, FS_Subset, FS_CardinalityType
<1>4. /\ fetches' \in [Phrases -> Nat]
      /\ \A p \in Phrases : fetches'[p] = fetches[p] + times(p)
  <2>1. \A p : times(p) \in Nat
    BY <1>3
  <2> HIDE DEF times
  <2>2. \A p \in Phrases : fetches[p] + times(p) \in Nat
    BY <2>1
  <2> QED BY <1>1, <2>2
<1> DEFINE Old == Under(fetches)
           All == Under(fetches')
           upto(i) == {j \in of(items[i]) : j <= i}
           rank(i) == Cardinality(upto(i))
           g == [i \in taken |-> <<items[i], fetches[items[i]] + rank(i)>>]
<1>5. ASSUME NEW i \in taken
      PROVE  rank(i) \in 1..times(items[i])
  <2>1. upto(i) \in SUBSET of(items[i]) /\ i \in upto(i)
    BY <1>2
  <2> DEFINE U == upto(i)
             O == of(items[i])
  <2>2. U \in SUBSET O /\ i \in U /\ IsFiniteSet(O)
    BY <1>3, <2>1
  <2> HIDE DEF U, O
  <2>3. IsFiniteSet(U) /\ Cardinality(U) <= Cardinality(O) /\ Cardinality(U) # 0
    BY <2>2, FS_Subset, FS_EmptySet
  <2>4. Cardinality(U) \in Nat /\ Cardinality(O) \in Nat
    BY <2>2, <2>3, FS_CardinalityType
  <2>5. Cardinality(U) \in 1..Cardinality(O)
    BY <2>3, <2>4
  <2> QED BY <2>5 DEF U, O
<1>6. ASSUME NEW i \in taken, NEW j \in taken, items[i] = items[j], i < j
      PROVE  rank(i) < rank(j)
  <2> DEFINE U == upto(i)
             V == upto(j)
  <2>1. U \in SUBSET V /\ j \in V /\ j \notin U /\ IsFiniteSet(V)
    <3>1. U \in SUBSET V /\ j \in V /\ j \notin U
      BY <1>2, <1>6
    <3>2. V \in SUBSET of(items[j])
      OBVIOUS
    <3> HIDE DEF V, of
    <3> QED BY <1>3, <3>1, <3>2, FS_Subset
  <2> HIDE DEF U, V
  <2>2. IsFiniteSet(U) /\ Cardinality(U) <= Cardinality(V) /\ Cardinality(U) # Cardinality(V)
    BY <2>1, FS_Subset
  <2>3. Cardinality(U) \in Nat /\ Cardinality(V) \in Nat
    BY <2>1, <2>2, FS_CardinalityType
  <2>4. Cardinality(U) < Cardinality(V)
    BY <2>2, <2>3
  <2> QED BY <2>4 DEF U, V
<1>7. \A p : times(p) \in Nat
  BY <1>3
<1> HIDE DEF rank, times
<1>8. ASSUME NEW i \in taken PROVE g[i] \in All \ Old
  <2> DEFINE k == fetches[items[i]] + rank(i)
  <2>1. /\ g[i] = <<items[i], k>> /\ items[i] \in Phrases
        /\ k \in 1..fetches'[items[i]] /\ k > fetches[items[i]]
    <3>1. /\ items[i] \in Phrases /\ rank(i) \in 1..times(items[i])
          /\ fetches[items[i]] \in Nat /\ times(items[i]) \in Nat
          /\ fetches'[items[i]] = fetches[items[i]] + times(items[i])
      BY <1>2, <1>4, <1>5, <1>7
    <3>2. k \in 1..fetches'[items[i]] /\ k > fetches[items[i]]
      BY <3>1
    <3> QED BY <3>1, <3>2
  <2> HIDE DEF k, g
  <2>2. g[i] \in All
    BY <1>4, <2>1, UnderFinite
  <2>3. g[i] \notin Old
    BY <2>1, UnderFinite
  <2> QED BY <2>2, <2>3
<1>9. ASSUME NEW i \in taken, NEW j \in taken, g[i] = g[j] PROVE i = j
  <2>1. items[i] = items[j] /\ fetches[items[i]] + rank(i) = fetches[items[j]] + rank(j)
    BY <1>9
  <2>2. rank(i) \in Nat /\ rank(j) \in Nat /\ fetches[items[i]] \in Nat
    BY <1>2, <1>5, <1>7
  <2>3. rank(i) = rank(j)
    BY <2>1, <2>2
  <2> QED BY <1>2, <1>6, <2>1, <2>2, <2>3
<1>10. g \in Injection(taken, All \ Old)
  <2>1. DOMAIN g = taken /\ g = [i \in taken |-> g[i]]
    OBVIOUS
  <2>4. \A i, j \in taken : g[i] = g[j] => i = j
    BY <1>9
  <2> HIDE DEF g, All, Old
  <2>2. g \in [taken -> All \ Old]
    BY <1>8, <2>1
  <2> DEFINE New == All \ Old
  <2>5. g \in [taken -> New]
    BY <2>2
  <2> HIDE DEF New
  <2>6. g \in Injection(taken, New)
    BY <2>4, <2>5 DEF Injection, IsInjective
  <2> QED BY <2>6 DEF New
<1> HIDE DEF g
<1>11. Old \subseteq All
  <2>1. ASSUME NEW p \in Phrases, NEW i \in 1..fetches[p] PROVE i \in 1..fetches'[p]
    <3>1. fetches[p] \in Nat /\ times(p) \in Nat /\ fetches'[p] = fetches[p] + times(p)
      BY <1>4, <1>7
    <3> QED BY <3>1
  <2>2. ASSUME NEW x \in Old PROVE x \in All
    <3>1. PICK p \in Phrases : \E i \in 1..fetches[p] : x = <<p, i>>
      BY UnderFinite
    <3>2. \E i \in 1..fetches'[p] : x = <<p, i>>
      BY <2>1, <3>1
    <3> QED BY <1>4, <3>1, <3>2, UnderFinite
  <2> QED BY <2>2
<1>12. /\ IsFiniteSet(Old) /\ Cardinality(Old) \in Nat
       /\ IsFiniteSet(All) /\ Cardinality(All) \in Nat
  BY <1>4, UnderFinite
<1> HIDE DEF Old, All
<1>13. IsFiniteSet(All \ Old) /\ Cardinality(All \ Old) = Cardinality(All) - Cardinality(All \cap Old)
  BY <1>12, FS_Difference
<1>14. Cardinality(taken) <= Cardinality(All) - Cardinality(Old)
  <2>1. All \cap Old = Old
    BY <1>11
  <2>2. Cardinality(taken) <= Cardinality(All \ Old)
    <3> DEFINE New == All \ Old
    <3>1. g \in Injection(taken, New) /\ IsFiniteSet(New)
      BY <1>10, <1>13
    <3> HIDE DEF New
    <3>2. Cardinality(taken) <= Cardinality(New)
      BY <3>1, FS_Injection
    <3> QED BY <3>2 DEF New
  <2> QED BY <1>13, <2>1, <2>2
<1>15. Cardinality(Old) = Cardinality(Fetches) /\ Cardinality(All) = Cardinality(Fetches)'
  BY DEF Old, All, Under, Fetches
<1>16. st'.inflight = s.inflight + Cardinality(taken) /\ s.inflight \in Nat
  BY <1>1 DEF States
<1>17. Cardinality(taken) \in Nat
  BY <1>2, FS_CardinalityType
<1>18. st'.inflight <= Cardinality(Fetches)'
  BY <1>12, <1>14, <1>15, <1>16, <1>17
<1> QED BY <1>18 DEF NoFetchLeaked

\* The counter never counts a fetch that has ended.
LEMMA FetchKept == Types /\ PumpInv /\ NoFetchLeaked /\ [Next]_vars => NoFetchLeaked'
<1> SUFFICES ASSUME Types, PumpInv, NoFetchLeaked, [Next]_vars PROVE NoFetchLeaked'
  OBVIOUS
<1>1. /\ items \in Seq(Phrases) /\ st \in States /\ audio \in Audio
      /\ fetches \in [Phrases -> Nat] /\ pump.phrase \in Phrases \union {None}
      /\ rescue.phrase \in Phrases \union {None} /\ st.inflight \in Nat
      /\ st.inflight <= Cardinality(Fetches)
  BY DEF Types, QueueType, StateType, States, PumpType, PumpRecords, TaskType, NoFetchLeaked
<1>2. Cardinality(Fetches) \in Nat /\ Fetches = Under(fetches)
  BY <1>1, UnderFinite DEF Fetches, Under
<1>3. ASSUME SwitchOn PROVE NoFetchLeaked'
  <2>1. st' \in {st, [st EXCEPT !.enabled = TRUE]} /\ UNCHANGED fetches
    BY <1>3 DEF SwitchOn, Enable, channelVars, fetchVars
  <2>2. st'.inflight = st.inflight
    BY <1>1, <2>1 DEF States
  <2> QED BY <1>1, <2>1, <2>2 DEF NoFetchLeaked, Fetches
<1>4. ASSUME NEW p \in Phrases, ReleaseDropped(p) PROVE NoFetchLeaked'
  <2>1. Known(p) \in Audio
    BY <1>1 DEF Known, Audio
  <2>2. SchedulePrefetch(st, Known(p))
    BY <1>4 DEF ReleaseDropped, Announce
  <2> QED BY <1>1, <2>1, <2>2, FetchesScheduled
<1>5. ASSUME NEW p \in Phrases, NEW result \in Fetched, FinishPrefetch(p, result), UNCHANGED plannerVars
      PROVE  NoFetchLeaked'
  <2> DEFINE n == IF st.inflight = 0 THEN 0 ELSE st.inflight - 1
             k == fetches[p]
             F == Under(fetches)
             G == Under(fetches')
  <2>1. st' = [st EXCEPT !.inflight = n] /\ fetches' = [fetches EXCEPT ![p] = k - 1] /\ k \in Nat \ {0}
    BY <1>1, <1>5 DEF FinishPrefetch
  <2>2. fetches' \in [Phrases -> Nat]
    <3> HIDE DEF k
    <3> QED BY <1>1, <2>1
  <2>3. G = F \ {<<p, k>>}
    <3>1. /\ \A x : x \in F <=> \E q \in Phrases : \E i \in 1..fetches[q] : x = <<q, i>>
          /\ \A x : x \in G <=> \E q \in Phrases : \E i \in 1..fetches'[q] : x = <<q, i>>
      BY <1>1, <2>2, UnderFinite
    <3>2. ASSUME NEW q \in Phrases, NEW i
          PROVE  i \in 1..fetches'[q] <=> i \in 1..fetches[q] /\ <<q, i>> # <<p, k>>
      <4>1. CASE q = p
        <5>1. fetches'[q] = k - 1
          BY <1>1, <2>1, <4>1
        <5> QED BY <2>1, <4>1, <5>1
      <4>2. CASE q # p
        <5>1. fetches'[q] = fetches[q]
          BY <1>1, <2>1, <4>2
        <5> QED BY <4>2, <5>1
      <4> QED BY <4>1, <4>2
    <3> HIDE DEF F, G, k
    <3> QED BY <3>1, <3>2
  <2>4. <<p, k>> \in F /\ IsFiniteSet(F)
    <3>1. k \in 1..fetches[p]
      BY <2>1
    <3> HIDE DEF k
    <3>2. \E q \in Phrases : \E i \in 1..fetches[q] : <<p, k>> = <<q, i>>
      BY <3>1
    <3> QED BY <1>1, <3>2, UnderFinite
  <2>5. Cardinality(F) = Cardinality(Fetches) /\ Cardinality(G) = Cardinality(Fetches)'
    BY <1>2 DEF Fetches, Under
  <2> HIDE DEF F, G, k
  <2> DEFINE x == <<p, k>>
  <2>6. Cardinality(G) = Cardinality(F) - 1
    <3>1. G = F \ {x} /\ x \in F /\ IsFiniteSet(F)
      BY <2>3, <2>4
    <3> HIDE DEF x
    <3>2. Cardinality(F \ {x}) = Cardinality(F) - 1
      BY <3>1, FS_RemoveElement
    <3> QED BY <3>1, <3>2
  <2>7. n \in Nat /\ (n = 0 \/ n = st.inflight - 1) /\ Cardinality(F) # 0
    BY <1>1, <2>4, FS_EmptySet
  <2> HIDE DEF n
  <2>8. st'.inflight = n
    BY <1>1, <2>1 DEF States
  <2> QED BY <1>1, <1>2, <2>5, <2>6, <2>7, <2>8 DEF NoFetchLeaked
<1>6. ASSUME PumpClaims, UNCHANGED plannerVars PROVE NoFetchLeaked'
  <2>1. pump.phrase \in Phrases
    BY <1>1, <1>6 DEF PumpInv, PumpClaims, Resting
  <2> DEFINE known == [audio EXCEPT ![pump.phrase] = IF @ = "absent" THEN "pending" ELSE @]
             s == [st EXCEPT !.claim = TRUE]
  <2>2. known \in Audio /\ s \in States /\ s.inflight = st.inflight
    BY <1>1, <2>1 DEF Audio, States
  <2>3. SchedulePrefetch(s, known)
    BY <1>6 DEF PumpClaims
  <2> HIDE DEF known, s
  <2> QED BY <1>1, <2>2, <2>3, FetchesScheduled
<1>7. ASSUME PumpPolls, UNCHANGED plannerVars PROVE NoFetchLeaked'
  <2>1. /\ UNCHANGED fetches
        /\ \/ UNCHANGED st
           \/ st' = [st EXCEPT !.claim = FALSE]
    BY <1>7 DEF PumpPolls, GiveUp
  <2>2. st'.inflight = st.inflight
    BY <1>1, <2>1 DEF States
  <2> QED BY <1>1, <2>1, <2>2 DEF NoFetchLeaked, Fetches
<1>8. ASSUME PumpStarts, UNCHANGED plannerVars PROVE NoFetchLeaked'
  <2>1. /\ UNCHANGED fetches
        /\ \/ st' = [st EXCEPT !.speaking = TRUE, !.claim = FALSE]
           \/ st' = [st EXCEPT !.claim = FALSE]
    BY <1>8 DEF PumpStarts, GiveUp
  <2>2. st'.inflight = st.inflight
    BY <1>1, <2>1 DEF States
  <2> QED BY <1>1, <2>1, <2>2 DEF NoFetchLeaked, Fetches
<1>9. ASSUME PumpFinishes, UNCHANGED plannerVars PROVE NoFetchLeaked'
  <2>1. pump.phrase \in Phrases
    BY <1>1, <1>9 DEF PumpInv, PumpFinishes, Resting
  <2> DEFINE known == [audio EXCEPT ![pump.phrase] = "absent"]
  <2>2. known \in Audio
    BY <1>1, <2>1 DEF Audio
  <2>3. Quiet(st) \in States /\ Quiet(st).inflight = st.inflight
    BY <1>1, StatesClosed
  <2>4. CASE SchedulePrefetch(Quiet(st), known)
    <3> HIDE DEF known
    <3> QED BY <1>1, <2>2, <2>3, <2>4, FetchesScheduled
  <2>5. CASE st' = Quiet(st) /\ UNCHANGED fetches
    BY <1>1, <2>3, <2>5 DEF NoFetchLeaked, Fetches
  <2> QED BY <1>9, <2>4, <2>5 DEF PumpFinishes
<1>10. ASSUME ResetBumps, UNCHANGED plannerVars PROVE NoFetchLeaked'
  <2>1. UNCHANGED fetches
    BY <1>10 DEF ResetBumps
  <2>2. CASE reset.off /\ ~st.enabled
    BY <1>1, <1>10, <2>1, <2>2 DEF ResetBumps, NoFetchLeaked, Fetches
  <2>3. CASE ~(reset.off /\ ~st.enabled)
    <3> DEFINE b == BumpEpoch(st)
    <3>1. b \in States
      BY <1>1, StatesClosed
    <3>2. st' = [b EXCEPT !.inflight = 0, !.enabled = b.enabled /\ ~reset.off]
      BY <1>10, <2>3 DEF ResetBumps
    <3> HIDE DEF b
    <3>3. st'.inflight = 0
      BY <3>1, <3>2 DEF States
    <3> QED BY <1>2, <2>1, <3>3 DEF NoFetchLeaked, Fetches
  <2> QED BY <2>2, <2>3
<1>11. ASSUME WatchdogWakes, UNCHANGED plannerVars PROVE NoFetchLeaked'
  <2>1. rescue.phrase \in Phrases
    BY <1>1, <1>11 DEF Types, TaskType, WatchdogWakes
  <2> DEFINE known == [audio EXCEPT ![rescue.phrase] = "absent"]
  <2>2. known \in Audio
    BY <1>1, <2>1 DEF Audio
  <2>3. SchedulePrefetch(BumpEpoch(st), known)
    BY <1>11 DEF WatchdogWakes
  <2>4. BumpEpoch(st) \in States /\ BumpEpoch(st).inflight = st.inflight
    BY <1>1, StatesClosed
  <2> HIDE DEF known
  <2> QED BY <1>1, <2>2, <2>3, <2>4, FetchesScheduled
<1>12. ASSUME \/ Plan
              \/ RuntimeStarts
              \/ RuntimeStops
              \/ SwitchOff
              \/ ReleaseWaiting
              \/ (\E p \in Phrases : Push(p)) /\ UNCHANGED plannerVars
              \/ (\E ok \in BOOLEAN : PlayerEnds(ok)) /\ UNCHANGED plannerVars
              \/ (PumpChecks \/ BeginNext \/ PumpChecksChunk \/ PumpPlays \/ PumpRegisters \/
                  PumpHears \/ PlayerIdle \/ PlayerBusy \/ Deliver \/ ResetCancels \/
                  ResetStops \/ WatchdogBites \/ WindowCloses \/
                  RescueStops) /\ UNCHANGED plannerVars
              \/ UNCHANGED vars
      PROVE  NoFetchLeaked'
  <2>1. UNCHANGED <<st, fetches>>
    BY <1>12
    DEF Plan, RuntimeStarts, RuntimeStops, SwitchOff, Push, ReleaseWaiting, PumpChecks,
        BeginNext, PumpChecksChunk, PumpPlays, PumpRegisters, PumpHears, PlayerIdle,
        PlayerBusy, PlayerEnds, Deliver, ResetCancels, ResetStops, WatchdogBites, WindowCloses,
        RescueStops, AskReset, Asked, ClearQueue, vars, channelVars, plannerVars, queueVars,
        fetchVars, sinkVars
  <2> QED BY <2>1, <1>1 DEF NoFetchLeaked, Fetches
<1> QED
  BY <1>1, <1>2, <1>3, <1>4, <1>5, <1>6, <1>7, <1>8, <1>9, <1>10, <1>11, <1>12 DEF Next,
  EnqueueStep, FetchStep, PumpStep, PlayerStep, ResetStep, RescueStep

-----------------------------------------------------------------------------
(* Phrases and their pieces *)

\* The elements of a mailbox as it grows and is read.
LEMMA Elements ==
  ASSUME NEW S, NEW q \in Seq(S)
  PROVE  /\ Elems(q) \subseteq S /\ Elems(<<>>) = {}
         /\ \A x \in S : Elems(Append(q, x)) = Elems(q) \union {x}
         /\ q # <<>> => /\ Head(q) \in Elems(q) /\ Elems(Tail(q)) \subseteq Elems(q)
                        /\ Elems(q) \subseteq Elems(Tail(q)) \union {Head(q)}
<1>1. Elems(q) \subseteq S /\ Elems(<<>>) = {}
  BY DEF Elems
<1>2. ASSUME NEW x \in S PROVE Elems(Append(q, x)) = Elems(q) \union {x}
  <2> DEFINE r == Append(q, x)
             n == Len(q)
  <2>1. /\ n \in Nat /\ DOMAIN q = 1..n /\ DOMAIN r = 1..n + 1 /\ r[n + 1] = x
        /\ \A i \in 1..n : r[i] = q[i]
    BY AppendProperties
  <2> HIDE DEF r, n
  <2>2. Elems(r) = Elems(q) \union {x}
    BY <2>1 DEF Elems
  <2> QED BY <2>2 DEF r
<1>3. ASSUME q # <<>>
      PROVE  /\ Head(q) \in Elems(q) /\ Elems(Tail(q)) \subseteq Elems(q)
             /\ Elems(q) \subseteq Elems(Tail(q)) \union {Head(q)}
  <2> DEFINE r == Tail(q)
             n == Len(q)
  <2>1. /\ n \in Nat \ {0} /\ DOMAIN q = 1..n /\ DOMAIN r = 1..n - 1 /\ Head(q) = q[1]
        /\ \A i \in 1..n - 1 : r[i] = q[i + 1]
    BY <1>3, HeadTailProperties
  <2> HIDE DEF r, n
  <2>2. Head(q) \in Elems(q)
    BY <2>1 DEF Elems
  <2>3. Elems(r) \subseteq Elems(q)
    BY <2>1 DEF Elems
  <2>4. ASSUME NEW i \in 1..n PROVE q[i] \in Elems(r) \union {Head(q)}
    <3>1. CASE i = 1
      BY <2>1, <3>1
    <3>2. CASE i # 1
      <4>1. i - 1 \in 1..n - 1 /\ q[i] = r[i - 1]
        BY <2>1, <3>2
      <4> QED BY <2>1, <4>1 DEF Elems
    <3> QED BY <3>1, <3>2
  <2>5. Elems(q) \subseteq Elems(r) \union {Head(q)}
    BY <2>1, <2>4 DEF Elems
  <2> QED BY <2>2, <2>3, <2>5 DEF r
<1> QED BY <1>1, <1>2, <1>3

\* What was sent are pieces.
LEMMA SentPieces ==
  ASSUME PlayerType
  PROVE  /\ Sent \subseteq Pieces /\ Ended \subseteq Sent
         /\ \A x \in Sent : x[1] \in Phrases /\ x[2] \in 1..Chunks /\ x[1] # None
<1>1. /\ Elems(mailbox) \subseteq Pieces \union {None} /\ Elems(finished) \subseteq Endings
      /\ playing \in Pieces \union {None}
  BY Elements DEF PlayerType
<1>2. Ended \subseteq Pieces
  BY <1>1 DEF Ended, Endings
<1>3. None \notin Pieces
  BY DEF Pieces
<1> QED BY <1>1, <1>2, <1>3 DEF Sent, Pieces

\* Only the pump sends pieces.
LEMMA SentStep ==
  ASSUME Types, PumpInv, [Next]_vars
  PROVE  \/ Sent' \subseteq Sent
         \/ PumpPlays /\ Sent' \subseteq Sent \union {Piece}
<1> DEFINE Goal == Sent' \subseteq Sent \/ (PumpPlays /\ Sent' \subseteq Sent \union {Piece})
<1>1. /\ mailbox \in Seq(Pieces \union {None}) /\ finished \in Seq(Endings)
      /\ playing \in Pieces \union {None} /\ PlayerType
  BY DEF Types, PlayerType
<1>2. ASSUME PumpPlays, UNCHANGED plannerVars PROVE Goal
  <2>1. Piece \in Pieces
    BY <1>2 DEF Types, PumpType, PumpRecords, PumpInv, PumpPlays, Resting, Piece, Pieces
  <2>2. mailbox' = Append(mailbox, Piece) /\ UNCHANGED <<playing, finished>>
    BY <1>2 DEF PumpPlays, Piece
  <2> HIDE DEF Piece
  <2>3. Elems(mailbox)' = Elems(mailbox) \union {Piece} /\ Ended' = Ended
    BY <1>1, <2>1, <2>2, Elements DEF Ended
  <2> QED BY <1>2, <2>2, <2>3 DEF Sent
<1>3. ASSUME PlayerIdle, UNCHANGED plannerVars PROVE Goal
  <2>1. mailbox # <<>> /\ UNCHANGED finished
    BY <1>3 DEF PlayerIdle
  <2>2. mailbox' \in {<<>>, Tail(mailbox)} /\ playing' \in {playing, Head(mailbox)}
    BY <1>3 DEF PlayerIdle
  <2>3. Elems(mailbox') \subseteq Elems(mailbox) /\ Head(mailbox) \in Elems(mailbox)
    BY <1>1, <2>1, <2>2, Elements
  <2> QED BY <2>1, <2>2, <2>3 DEF Sent, Ended
<1>4. ASSUME PlayerBusy, UNCHANGED plannerVars PROVE Goal
  <2>1. mailbox # <<>> /\ playing \in Pieces
    BY <1>1, <1>4 DEF PlayerBusy
  <2> DEFINE f == [key |-> playing, ok |-> FALSE]
  <2>2. f \in Endings /\ f.key = playing
    BY <2>1 DEF Endings
  <2>3. /\ mailbox' \in {<<>>, Tail(mailbox)} /\ playing' \in {playing, None}
        /\ finished' \in {finished, Append(finished, f)}
    BY <1>4 DEF PlayerBusy
  <2> HIDE DEF f
  <2>4. Elems(mailbox') \subseteq Elems(mailbox)
    BY <1>1, <2>1, <2>3, Elements
  <2>5. Elems(finished') \subseteq Elems(finished) \union {f}
    <3>1. Elems(Append(finished, f)) = Elems(finished) \union {f}
      BY <1>1, <2>2, Elements
    <3> QED BY <2>3, <3>1
  <2> QED BY <2>2, <2>3, <2>4, <2>5 DEF Sent, Ended
<1>5. ASSUME NEW ok \in BOOLEAN, PlayerEnds(ok), UNCHANGED plannerVars PROVE Goal
  <2> DEFINE f == [key |-> playing, ok |-> ok]
  <2>1. f \in Endings /\ f.key = playing
    BY <1>1, <1>5 DEF PlayerEnds, Endings
  <2>2. finished' = Append(finished, f) /\ playing' = None /\ UNCHANGED mailbox
    BY <1>5 DEF PlayerEnds
  <2> HIDE DEF f
  <2>3. Elems(finished') = Elems(finished) \union {f}
    BY <1>1, <2>1, <2>2, Elements
  <2> QED BY <2>1, <2>2, <2>3 DEF Sent, Ended
<1>6. ASSUME Deliver, UNCHANGED plannerVars PROVE Goal
  <2>1. finished # <<>> /\ finished' = Tail(finished) /\ UNCHANGED <<mailbox, playing>>
    BY <1>6 DEF Deliver
  <2>2. Elems(finished') \subseteq Elems(finished)
    BY <1>1, <2>1, Elements
  <2> QED BY <2>1, <2>2 DEF Sent, Ended
<1>7. ASSUME ResetStops, UNCHANGED plannerVars PROVE Goal
  <2>1. mailbox' = Append(mailbox, None) /\ UNCHANGED <<playing, finished>>
    BY <1>7 DEF ResetStops
  <2>2. Elems(mailbox') = Elems(mailbox) \union {None}
    BY <1>1, <2>1, Elements
  <2> QED BY <2>1, <2>2 DEF Sent, Ended
<1>8. ASSUME RescueStops, UNCHANGED plannerVars PROVE Goal
  <2>1. mailbox' = Append(mailbox, None) /\ UNCHANGED <<playing, finished>>
    BY <1>8 DEF RescueStops
  <2>2. Elems(mailbox') = Elems(mailbox) \union {None}
    BY <1>1, <2>1, Elements
  <2> QED BY <2>1, <2>2 DEF Sent, Ended
<1>9. ASSUME \/ Plan
             \/ RuntimeStarts
             \/ RuntimeStops
             \/ SwitchOff
             \/ SwitchOn
             \/ \E p \in Phrases : ReleaseDropped(p)
             \/ ReleaseWaiting
             \/ (\E p \in Phrases : Push(p)) /\ UNCHANGED plannerVars
             \/ (\E p \in Phrases, result \in Fetched : FinishPrefetch(p, result)) /\ UNCHANGED plannerVars
             \/ (PumpChecks \/ BeginNext \/ PumpClaims \/ PumpPolls \/ PumpStarts \/
                 PumpChecksChunk \/ PumpRegisters \/ PumpHears \/ PumpFinishes \/ ResetBumps \/
                 ResetCancels \/ WatchdogBites \/ WindowCloses \/
                 WatchdogWakes) /\ UNCHANGED plannerVars
             \/ UNCHANGED vars
      PROVE  Goal
  <2>1. UNCHANGED <<mailbox, playing, finished>>
    BY <1>9
    DEF Plan, RuntimeStarts, RuntimeStops, SwitchOff, SwitchOn, Push, ReleaseDropped,
        FinishPrefetch, ReleaseWaiting, PumpChecks, BeginNext, PumpClaims, PumpPolls,
        PumpStarts, PumpChecksChunk, PumpRegisters, PumpHears, PumpFinishes, ResetBumps,
        ResetCancels, WatchdogBites, WindowCloses, WatchdogWakes, Announce, AskReset, Asked,
        ClearQueue, Enable, GiveUp, SchedulePrefetch, vars, channelVars, plannerVars,
        queueVars, fetchVars, sinkVars
  <2> QED BY <2>1 DEF Sent, Ended, Elems
<1> QED
  BY <1>1, <1>2, <1>3, <1>4, <1>5, <1>6, <1>7, <1>8, <1>9 DEF Next, EnqueueStep, FetchStep,
  PumpStep, PlayerStep, ResetStep, RescueStep

\* A step that starts nothing: phrases and pieces only leave, and the pump stays with its piece
\* or lets its phrase go.
Calm ==
  /\ items' \in {items, <<>>}
  /\ Sent' \subseteq Sent
  /\ \A p \in Phrases : enq'[p].pc = "asked" => enq[p].pc = "asked"
  /\ \/ pump'.phrase = None
     \/ /\ pump'.phrase = pump.phrase /\ pump'.chunk = pump.chunk
        /\ pump'.pc \in {"chunk", "play"} => pump.pc \in {"chunk", "play"}

\* The pump takes a phrase, sends its first piece, or goes on to the next piece.
Begins == BeginNext /\ current = None /\ items # <<>>
FirstPiece == PumpStarts /\ ~Stale
NextPiece == PumpHears /\ waiter.answer = "ok" /\ pump.chunk < Chunks

\* Six steps start something.
LEMMA CalmSteps ==
  ASSUME Types, PumpInv, [Next]_vars
  PROVE  \/ Calm
         \/ Plan \/ (\E p \in Phrases : Push(p)) \/ Begins
         \/ PumpPlays \/ FirstPiece \/ NextPiece
<1> DEFINE Goal == \/ Calm
                   \/ Plan \/ (\E p \in Phrases : Push(p)) \/ Begins
                   \/ PumpPlays \/ FirstPiece \/ NextPiece
           Kept == /\ pump'.phrase = pump.phrase /\ pump'.chunk = pump.chunk
                   /\ pump'.pc \in {"chunk", "play"} => pump.pc \in {"chunk", "play"}
<1>1. pump \in PumpRecords /\ enq \in [Phrases -> [pc : {"none", "asked", "pushed"}, dropped : SUBSET Phrases]]
  BY DEF Types, PumpType, QueueType
<1>2. PumpPlays \/ Sent' \subseteq Sent
  BY SentStep
<1>3. ASSUME Plan PROVE Goal
  BY <1>3
<1>4. ASSUME NEW p \in Phrases, Push(p), UNCHANGED plannerVars PROVE Goal
  BY <1>4
<1>5. ASSUME PumpPlays, UNCHANGED plannerVars PROVE Goal
  BY <1>5
<1>6. ASSUME NEW p \in Phrases, ReleaseDropped(p) PROVE Goal
  <2>1. UNCHANGED <<items, pump>>
    BY <1>6 DEF ReleaseDropped, Announce, queueVars
  <2>2. \A q \in Phrases : enq'[q].pc = "asked" => enq[q].pc = "asked"
    BY <1>1, <1>6 DEF ReleaseDropped, Announce
  <2>3. PumpPlays \/ Calm
    BY <1>2, <2>1, <2>2 DEF Calm
  <2> QED BY <2>3
<1>7. ASSUME ReleaseWaiting PROVE Goal
  <2>1. UNCHANGED <<enq, pump>> /\ items' = <<>>
    BY <1>7 DEF ReleaseWaiting, ClearQueue
  <2>2. PumpPlays \/ Calm
    BY <1>2, <2>1 DEF Calm
  <2> QED BY <2>2
<1>8. ASSUME PumpChecks, UNCHANGED plannerVars PROVE Goal
  <2>1. UNCHANGED <<items, enq>>
    BY <1>8 DEF PumpChecks, queueVars
  <2>2. pump'.phrase = None
    <3>1. pump.phrase = None
      BY <1>8 DEF PumpInv, PumpChecks, Resting
    <3>2. pump' = Asleep \/ pump' = [pump EXCEPT !.pc = "begin", !.epoch = st.epoch]
      BY <1>8 DEF PumpChecks
    <3>3. CASE pump' = Asleep
      BY <3>3 DEF Asleep
    <3>4. CASE pump' = [pump EXCEPT !.pc = "begin", !.epoch = st.epoch]
      BY <1>1, <3>1, <3>4 DEF PumpRecords
    <3> QED BY <3>2, <3>3, <3>4
  <2>3. PumpPlays \/ Calm
    BY <1>2, <2>1, <2>2 DEF Calm
  <2> QED BY <2>3
<1>9. ASSUME BeginNext, UNCHANGED plannerVars PROVE Goal
  <2>1. CASE current # None \/ items = <<>>
    <3>1. UNCHANGED <<items, enq>> /\ pump'.phrase = None
      BY <1>9, <2>1 DEF BeginNext, queueVars, Asleep
    <3>2. PumpPlays \/ Calm
      BY <1>2, <3>1 DEF Calm
    <3> QED BY <3>2
  <2>2. CASE current = None /\ items # <<>>
    BY <1>9, <2>2 DEF Begins
  <2> QED BY <2>1, <2>2
<1>10. ASSUME PumpClaims, UNCHANGED plannerVars PROVE Goal
  <2>1. UNCHANGED <<items, enq>>
    BY <1>10 DEF PumpClaims, queueVars
  <2>2. Kept
    BY <1>1, <1>10 DEF PumpClaims, At, PumpRecords
  <2>3. PumpPlays \/ Calm
    BY <1>2, <2>1, <2>2 DEF Calm
  <2> QED BY <2>3
<1>11. ASSUME PumpPolls, UNCHANGED plannerVars PROVE Goal
  <2>1. UNCHANGED <<items, enq>>
    BY <1>11 DEF PumpPolls, queueVars
  <2>2. pump'.phrase = None \/ Kept
    <3>1. CASE GiveUp
      BY <3>1 DEF GiveUp, Asleep
    <3>2. CASE \E label \in {"start", "finish", "finish empty"} : At(label)
      BY <1>1, <3>2 DEF At, PumpRecords
    <3> QED BY <1>11, <3>1, <3>2 DEF PumpPolls
  <2>3. PumpPlays \/ Calm
    BY <1>2, <2>1, <2>2 DEF Calm
  <2> QED BY <2>3
<1>12. ASSUME PumpStarts, UNCHANGED plannerVars PROVE Goal
  <2>1. CASE Stale /\ GiveUp
    <3>1. UNCHANGED <<items, enq>> /\ pump'.phrase = None
      BY <1>12, <2>1 DEF PumpStarts, GiveUp, Asleep
    <3>2. PumpPlays \/ Calm
      BY <1>2, <3>1 DEF Calm
    <3> QED BY <3>2
  <2>2. CASE ~Stale
    BY <1>12, <2>2 DEF FirstPiece
  <2> QED BY <1>12, <2>1, <2>2 DEF PumpStarts
<1>13. ASSUME PumpChecksChunk, UNCHANGED plannerVars PROVE Goal
  <2>1. UNCHANGED <<items, enq>>
    BY <1>13 DEF PumpChecksChunk, queueVars
  <2>2. Kept
    BY <1>1, <1>13 DEF PumpChecksChunk, At, PumpRecords
  <2>3. PumpPlays \/ Calm
    BY <1>2, <2>1, <2>2 DEF Calm
  <2> QED BY <2>3
<1>14. ASSUME PumpRegisters, UNCHANGED plannerVars PROVE Goal
  <2>1. UNCHANGED <<items, enq>>
    BY <1>14 DEF PumpRegisters, queueVars
  <2>2. Kept
    BY <1>1, <1>14 DEF PumpRegisters, At, PumpRecords
  <2>3. PumpPlays \/ Calm
    BY <1>2, <2>1, <2>2 DEF Calm
  <2> QED BY <2>3
<1>15. ASSUME PumpHears, UNCHANGED plannerVars PROVE Goal
  <2>1. CASE waiter.answer = "ok" /\ pump.chunk < Chunks
    BY <1>15, <2>1 DEF NextPiece
  <2>2. CASE ~(waiter.answer = "ok" /\ pump.chunk < Chunks)
    <3>1. UNCHANGED <<items, enq>> /\ pump' = [pump EXCEPT !.pc = "finish"]
      BY <1>15, <2>2 DEF PumpHears, queueVars
    <3>2. Kept
      BY <1>1, <3>1 DEF PumpRecords
    <3>3. PumpPlays \/ Calm
      BY <1>2, <3>1, <3>2 DEF Calm
    <3> QED BY <3>3
  <2> QED BY <2>1, <2>2
<1>16. ASSUME PumpFinishes, UNCHANGED plannerVars PROVE Goal
  <2>1. UNCHANGED <<items, enq>>
    BY <1>16 DEF PumpFinishes, queueVars
  <2>2. pump'.phrase = None
    BY <1>16 DEF PumpFinishes, Asleep
  <2>3. PumpPlays \/ Calm
    BY <1>2, <2>1, <2>2 DEF Calm
  <2> QED BY <2>3
<1>17. ASSUME \/ RuntimeStarts
              \/ RuntimeStops
              \/ SwitchOff
              \/ SwitchOn
              \/ (\E p \in Phrases, result \in Fetched : FinishPrefetch(p, result)) /\ UNCHANGED plannerVars
              \/ (\E ok \in BOOLEAN : PlayerEnds(ok)) /\ UNCHANGED plannerVars
              \/ (PlayerIdle \/ PlayerBusy \/ Deliver \/ ResetBumps \/ ResetCancels \/
                  ResetStops \/ WatchdogBites \/ WindowCloses \/ RescueStops \/
                  WatchdogWakes) /\ UNCHANGED plannerVars
              \/ UNCHANGED vars
      PROVE  Goal
  <2>1. UNCHANGED <<items, enq, pump>>
    BY <1>17
    DEF RuntimeStarts, RuntimeStops, SwitchOff, SwitchOn, FinishPrefetch, PlayerIdle,
        PlayerBusy, PlayerEnds, Deliver, ResetBumps, ResetCancels, ResetStops, WatchdogBites,
        WindowCloses, RescueStops, WatchdogWakes, AskReset, Enable, SchedulePrefetch, vars,
        channelVars, plannerVars, queueVars, fetchVars, sinkVars
  <2>2. PumpPlays \/ Calm
    BY <1>2, <2>1 DEF Calm
  <2> QED BY <2>2
<1> QED
  BY <1>1, <1>2, <1>3, <1>4, <1>5, <1>6, <1>7, <1>8, <1>9, <1>10, <1>11, <1>12, <1>13, <1>14,
     <1>15, <1>16, <1>17 DEF Next,
  EnqueueStep, FetchStep, PumpStep, PlayerStep, ResetStep, RescueStep

\* Of what the step leaves alone of the queue, no phrase is new.
LEMMA Leftovers ==
  ASSUME items \in Seq(Phrases)
  PROVE  /\ Waiting = Elems(items) /\ Waiting \subseteq Phrases
         /\ \A q \in Seq(Phrases) : q \in {items, <<>>} => Elems(q) \subseteq Waiting
         /\ Elems(AdaptiveDrop(items)) \subseteq Waiting
         /\ (\A i, j \in DOMAIN items : i # j => items[i] # items[j]) =>
              LET q == AdaptiveDrop(items) IN \A i, j \in DOMAIN q : i # j => q[i] # q[j]
<1> DEFINE q == AdaptiveDrop(items)
           n == Len(items)
<1>1. Waiting = Elems(items) /\ Waiting \subseteq Phrases
  BY DEF Waiting, Elems
<1>2. \A r \in Seq(Phrases) : r \in {items, <<>>} => Elems(r) \subseteq Waiting
  BY DEF Waiting, Elems
<1>3. PICK lost \in 0..n : q = SubSeq(items, lost + 1, n)
  BY Cutting
<1>4. n \in Nat /\ DOMAIN items = 1..n
  OBVIOUS
<1>5. DOMAIN q = 1..n - lost /\ \A i \in 1..n - lost : q[i] = items[lost + i]
  <2>1. \A i \in lost + 1..n : items[i] \in Phrases
    BY <1>4
  <2> DEFINE r == SubSeq(items, lost + 1, n)
  <2>2. DOMAIN r = 1..n - lost /\ \A i \in 1..n - lost : r[i] = items[lost + i]
    <3> DEFINE m == lost + 1
    <3>1. m \in Int /\ n \in Int /\ \A i \in m..n : items[i] \in Phrases
      BY <1>4, <2>1
    <3>2. n - m + 1 = n - lost /\ (m <= n => n - lost > 0) /\ (~(m <= n) => n - lost = 0)
      BY <1>4
    <3>3. \A i \in 1..n - lost : m + i - 1 = lost + i
      BY <1>4
    <3>4. r = SubSeq(items, m, n)
      BY DEF r
    <3> HIDE DEF m, r
    <3>5. /\ r \in Seq(Phrases) /\ Len(r) = IF m <= n THEN n - m + 1 ELSE 0
          /\ \A i \in 1..n - m + 1 : r[i] = items[m + i - 1]
      BY <3>1, <3>4, SubSeqProperties
    <3>6. Len(r) = n - lost
      BY <3>2, <3>5
    <3>7. DOMAIN r = 1..n - lost
      BY <3>5, <3>6
    <3>8. \A i \in 1..n - lost : r[i] = items[lost + i]
      BY <3>2, <3>3, <3>5
    <3> QED BY <3>7, <3>8
  <2> HIDE DEF r
  <2> QED BY <1>3, <2>2 DEF r
<1> HIDE DEF q, n
<1>6. \A i \in 1..n - lost : lost + i \in 1..n
  BY <1>4
<1>7. Elems(q) \subseteq Waiting
  BY <1>1, <1>4, <1>5, <1>6 DEF Elems
<1>8. ASSUME \A i, j \in DOMAIN items : i # j => items[i] # items[j],
             NEW i \in DOMAIN q, NEW j \in DOMAIN q, i # j
      PROVE  q[i] # q[j]
  <2>1. lost + i \in 1..n /\ lost + j \in 1..n /\ lost + i # lost + j
    BY <1>4, <1>5, <1>6, <1>8
  <2> QED BY <1>4, <1>5, <1>8, <2>1
<1> QED BY <1>1, <1>2, <1>7, <1>8 DEF q

\* The phrases in the line after a new one joined, and after the first was taken.
LEMMA Joined ==
  ASSUME Types, NEW p \in Phrases, Push(p)
  PROVE  /\ Waiting' \subseteq Elems(AdaptiveDrop(items)) \union {p}
         /\ Waiting' \subseteq Waiting \union {p} /\ UNCHANGED <<pump, mailbox, playing, finished>>
         /\ (\A i, j \in DOMAIN items : i # j => items[i] # items[j]) /\ p \notin Waiting =>
              \A i, j \in DOMAIN items' : i # j => items'[i] # items'[j]
<1> DEFINE q == AdaptiveDrop(items)
           n == Len(q)
<1>1. items \in Seq(Phrases) /\ q \in Seq(Phrases)
  BY Cutting DEF Types, QueueType
<1>2. items' = Append(q, p) /\ UNCHANGED <<pump, mailbox, playing, finished>>
  BY DEF Push, sinkVars
<1>3. Elems(q) \subseteq Waiting
  BY <1>1, Leftovers
<1>4. (\A i, j \in DOMAIN items : i # j => items[i] # items[j]) =>
        \A i, j \in DOMAIN q : i # j => q[i] # q[j]
  BY <1>1, Leftovers
<1> HIDE DEF q
<1>5. /\ n \in Nat /\ DOMAIN q = 1..n /\ DOMAIN items' = 1..n + 1 /\ items'[n + 1] = p
      /\ \A i \in 1..n : items'[i] = q[i]
  BY <1>1, <1>2, AppendProperties
<1> HIDE DEF n
<1>6. \A i \in 1..n : q[i] \in Elems(q)
  BY <1>5 DEF Elems
<1>7. Waiting' \subseteq Elems(q) \union {p}
  <2>1. ASSUME NEW i \in DOMAIN items' PROVE items'[i] \in Elems(q) \union {p}
    BY <1>5, <1>6, <2>1
  <2> QED BY <2>1 DEF Waiting
<1>8. ASSUME \A i, j \in DOMAIN items : i # j => items[i] # items[j], p \notin Waiting,
             NEW i \in DOMAIN items', NEW j \in DOMAIN items', i # j
      PROVE  items'[i] # items'[j]
  <2>1. CASE i \in 1..n /\ j \in 1..n
    BY <1>4, <1>5, <1>8, <2>1
  <2>2. CASE i = n + 1
    <3>1. j \in 1..n
      BY <1>5, <1>8, <2>2
    <3> QED BY <1>3, <1>5, <1>6, <1>8, <2>2, <3>1
  <2>3. CASE j = n + 1
    <3>1. i \in 1..n
      BY <1>5, <1>8, <2>3
    <3> QED BY <1>3, <1>5, <1>6, <1>8, <2>3, <3>1
  <2> QED BY <1>5, <2>1, <2>2, <2>3
<1> QED BY <1>2, <1>3, <1>7, <1>8 DEF q

\* The first phrase of the line is taken; no other is lost or new.
LEMMA Taken ==
  ASSUME Types, Begins
  PROVE  /\ pump'.phrase = Head(items) /\ pump'.pc = "claim" /\ pump'.phrase \in Waiting
         /\ items' = Tail(items) /\ UNCHANGED <<enq, mailbox, playing, finished>>
         /\ Waiting' \subseteq Waiting
         /\ (\A i, j \in DOMAIN items : i # j => items[i] # items[j]) =>
              /\ \A i, j \in DOMAIN items' : i # j => items'[i] # items'[j]
              /\ pump'.phrase \notin Waiting'
<1>1. items \in Seq(Phrases) /\ pump \in PumpRecords /\ items # <<>>
  BY DEF Types, QueueType, PumpType, Begins
<1>2. /\ pump' = [pump EXCEPT !.pc = "claim", !.phrase = Head(items)]
      /\ items' = Tail(items) /\ UNCHANGED <<enq, mailbox, playing, finished>>
  BY DEF Begins, BeginNext, sinkVars
<1>3. pump'.phrase = Head(items) /\ pump'.pc = "claim"
  BY <1>1, <1>2 DEF PumpRecords
<1> DEFINE n == Len(items)
<1>4. /\ n \in Nat \ {0} /\ DOMAIN items = 1..n /\ DOMAIN items' = 1..n - 1 /\ Head(items) = items[1]
      /\ \A i \in 1..n - 1 : items'[i] = items[i + 1]
  BY <1>1, <1>2, HeadTailProperties
<1> HIDE DEF n
<1>5. Head(items) \in Waiting
  BY <1>4 DEF Waiting
<1>6. \A i \in 1..n - 1 : i + 1 \in 1..n /\ i + 1 # 1
  BY <1>4
<1>7. Waiting' \subseteq Waiting
  BY <1>4, <1>6 DEF Waiting
<1>8. ASSUME \A i, j \in DOMAIN items : i # j => items[i] # items[j]
      PROVE  /\ \A i, j \in DOMAIN items' : i # j => items'[i] # items'[j]
             /\ Head(items) \notin Waiting'
  <2>1. ASSUME NEW i \in DOMAIN items', NEW j \in DOMAIN items', i # j PROVE items'[i] # items'[j]
    <3>1. i + 1 \in 1..n /\ j + 1 \in 1..n /\ i + 1 # j + 1
      BY <1>4, <1>6, <2>1
    <3> QED BY <1>4, <1>8, <3>1
  <2>2. ASSUME NEW i \in DOMAIN items' PROVE items'[i] # Head(items)
    <3>1. i + 1 \in 1..n /\ i + 1 # 1 /\ 1 \in 1..n
      BY <1>4, <1>6
    <3> QED BY <1>4, <1>8, <3>1
  <2>3. Head(items) \notin Waiting'
    BY <2>2 DEF Waiting
  <2> QED BY <2>1, <2>3
<1> QED BY <1>2, <1>3, <1>5, <1>7, <1>8

\* A step after which another phrase lives is the push of that phrase.
LEMMA LivingStep ==
  ASSUME Types, PumpInv, [Next]_vars
  PROVE  \A p \in Phrases : Living(p)' => Living(p) \/ Push(p)
<1> SUFFICES ASSUME NEW p \in Phrases, Living(p)' PROVE Living(p) \/ Push(p)
  OBVIOUS
<1>1. items \in Seq(Phrases) /\ pump \in PumpRecords /\ PlayerType
  BY DEF Types, QueueType, PumpType
<1>2. /\ items' \in {items, <<>>} => Waiting' \subseteq Waiting
      /\ Living(p)' <=> p \in Waiting' \/ p = pump'.phrase \/ \E x \in Sent' : x[1] = p
      /\ Living(p) <=> p \in Waiting \/ p = pump.phrase \/ \E x \in Sent : x[1] = p
  BY DEF Waiting, Living, Apart
<1>3. CASE Calm
  BY <1>2, <1>3 DEF Calm
<1>4. CASE Plan
  <2>1. UNCHANGED <<items, pump, mailbox, playing, finished>>
    BY <1>4 DEF Plan, Asked, queueVars, sinkVars
  <2> QED BY <2>1 DEF Living, Apart, Waiting, Sent, Ended, Elems
<1>5. CASE \E q \in Phrases : Push(q)
  <2>1. PICK q \in Phrases : Push(q)
    BY <1>5
  <2>2. Waiting' \subseteq Waiting \union {q} /\ UNCHANGED <<pump, mailbox, playing, finished>>
    BY <2>1, Joined
  <2>3. Sent' = Sent
    BY <2>2 DEF Sent, Ended, Elems
  <2> QED BY <1>2, <2>1, <2>2, <2>3
<1>6. CASE Begins
  <2>1. /\ pump'.phrase \in Waiting /\ Waiting' \subseteq Waiting
        /\ UNCHANGED <<mailbox, playing, finished>>
    BY <1>6, Taken
  <2>2. Sent' = Sent
    BY <2>1 DEF Sent, Ended, Elems
  <2> QED BY <1>2, <2>1, <2>2
<1>7. CASE PumpPlays
  <2>1. UNCHANGED items /\ pump'.phrase = pump.phrase
    BY <1>1, <1>7 DEF PumpPlays, queueVars, At, PumpRecords
  <2>2. Sent' \subseteq Sent \union {Piece}
    BY SentStep
  <2> QED BY <1>2, <2>1, <2>2 DEF Piece
<1>8. CASE FirstPiece \/ NextPiece
  <2>1. UNCHANGED <<items, mailbox, playing, finished>>
    BY <1>8 DEF FirstPiece, NextPiece, PumpStarts, PumpHears, queueVars, sinkVars
  <2>2. pump'.phrase \in {pump.phrase, None}
    <3>1. CASE FirstPiece
      BY <1>1, <3>1 DEF FirstPiece, PumpStarts, PumpRecords
    <3>2. CASE NextPiece
      BY <1>1, <3>2 DEF NextPiece, PumpHears, PumpRecords
    <3> QED BY <1>8, <3>1, <3>2
  <2>3. Sent' = Sent
    BY <2>1 DEF Sent, Ended, Elems
  <2> QED BY <1>2, <2>1, <2>2, <2>3
<1> QED BY <1>3, <1>4, <1>5, <1>6, <1>7, <1>8, CalmSteps

\* A line is planned only when nothing is left of it.
LEMMA PlannedAnew ==
  ASSUME Types, KeysInv, NEW p \in Phrases, Forgotten(p), p \notin keys
  PROVE  p \notin Waiting /\ Apart(p) /\ enq[p].dropped = {}
<1>1. enq[p].pc = "none" /\ enq[p].dropped = {} /\ upsets \in Nat
  BY DEF Forgotten, KeysInv, Types, TaskType
<1>2. CASE upsets = 0
  BY <1>1, <1>2 DEF KeysInv, KeysKnown, Living
<1>3. CASE upsets # 0
  <2>1. /\ p \notin Waiting /\ p # pump.phrase
        /\ \A i \in DOMAIN finished : finished[i].key[1] # p
        /\ \A i \in DOMAIN mailbox : mailbox[i] # None => mailbox[i][1] # p
        /\ playing # None => playing[1] # p
    BY <1>1, <1>3 DEF Forgotten
  <2>2. \A x \in Sent : x[1] # p
    BY <2>1 DEF Sent, Ended, Elems
  <2> QED BY <1>1, <2>1, <2>2 DEF Apart
<1> QED BY <1>2, <1>3

\* Every phrase keeps to one life.
LEMMA LifeKept == Types /\ PumpInv /\ KeysInv /\ LifeInv /\ [Next]_vars => LifeInv'
<1> SUFFICES ASSUME Types, PumpInv, KeysInv, LifeInv, [Next]_vars PROVE LifeInv'
  OBVIOUS
<1> DEFINE Single(q) == \A i, j \in DOMAIN q : i # j => q[i] # q[j]
<1>1. /\ items \in Seq(Phrases) /\ pump \in PumpRecords /\ PlayerType
      /\ enq \in [Phrases -> [pc : {"none", "asked", "pushed"}, dropped : SUBSET Phrases]]
  BY DEF Types, QueueType, PumpType
<1>2. /\ \A p \in Phrases : enq[p].pc = "asked" => p \notin Waiting
      /\ Single(items)
      /\ \A p \in Phrases : enq[p].pc = "asked" \/ p \in Waiting => Apart(p)
      /\ \A x \in Sent :
           x[1] = pump.phrase => x[2] <= pump.chunk /\ (pump.pc \in {"chunk", "play"} => x[2] # pump.chunk)
  BY DEF LifeInv
<1>3. /\ \A x \in Sent : x[1] \in Phrases /\ x[2] \in 1..Chunks /\ x[1] # None
      /\ Waiting \subseteq Phrases
  BY <1>1, SentPieces, Leftovers
<1>4. ASSUME /\ \A p \in Phrases : enq'[p].pc = "asked" => p \notin Waiting'
             /\ Single(items')
             /\ \A p \in Phrases : enq'[p].pc = "asked" \/ p \in Waiting' =>
                  p # pump'.phrase /\ \A x \in Sent' : x[1] # p
             /\ \A x \in Sent' :
                  x[1] = pump'.phrase =>
                    x[2] <= pump'.chunk /\ (pump'.pc \in {"chunk", "play"} => x[2] # pump'.chunk)
      PROVE  LifeInv'
  BY <1>4 DEF LifeInv, Apart
<1>5. \A p : Apart(p) <=> p # pump.phrase /\ \A x \in Sent : x[1] # p
  BY DEF Apart
<1>6. CASE Calm
  <2>1. /\ Sent' \subseteq Sent /\ items' \in {items, <<>>}
        /\ \A p \in Phrases : enq'[p].pc = "asked" => enq[p].pc = "asked"
        /\ \/ pump'.phrase = None
           \/ /\ pump'.phrase = pump.phrase /\ pump'.chunk = pump.chunk
              /\ pump'.pc \in {"chunk", "play"} => pump.pc \in {"chunk", "play"}
    BY <1>6 DEF Calm
  <2>2. Waiting' \subseteq Waiting
    BY <2>1 DEF Waiting
  <2>3. Single(items')
    BY <1>2, <2>1
  <2>4. \A p \in Phrases : enq'[p].pc = "asked" \/ p \in Waiting' =>
          p # pump'.phrase /\ \A x \in Sent' : x[1] # p
    BY <1>2, <1>5, <2>1, <2>2
  <2>5. \A x \in Sent' :
          x[1] = pump'.phrase =>
            x[2] <= pump'.chunk /\ (pump'.pc \in {"chunk", "play"} => x[2] # pump'.chunk)
    BY <1>2, <1>3, <2>1
  <2>6. \A p \in Phrases : enq'[p].pc = "asked" => p \notin Waiting'
    BY <1>2, <2>1, <2>2
  <2> HIDE DEF Single
  <2> QED BY <1>4, <2>3, <2>4, <2>5, <2>6
<1>7. CASE Plan
  <2>1. PICK new \in SUBSET Phrases : Asked(new) /\ new \cap keys = {}
    <3>1. PICK block \in Blocks : \E visible \in SUBSET block \ {{}} : Asked(visible \ keys)
      BY <1>7 DEF Plan
    <3>2. PICK visible \in SUBSET block \ {{}} : Asked(visible \ keys)
      BY <3>1
    <3> QED BY <3>2
  <2>2. UNCHANGED <<items, pump, mailbox, playing, finished>>
    BY <2>1 DEF Asked, queueVars, sinkVars
  <2>3. \A p \in new : Forgotten(p)
    BY <2>1 DEF Asked
  <2>4. \A p \in new : p \notin Waiting /\ Apart(p)
    BY <2>1, <2>3, PlannedAnew
  <2>5. \A p \in Phrases : enq'[p].pc = "asked" => p \in new \/ enq[p].pc = "asked"
    BY <2>1 DEF Asked
  <2>6. Sent' = Sent /\ Waiting' = Waiting
    BY <2>2 DEF Sent, Ended, Elems, Waiting
  <2> HIDE DEF Single
  <2>7. Single(items')
    BY <1>2, <2>2
  <2>8. \A p \in Phrases : enq'[p].pc = "asked" \/ p \in Waiting' =>
          p # pump'.phrase /\ \A x \in Sent' : x[1] # p
    BY <1>2, <1>5, <2>2, <2>4, <2>5, <2>6
  <2> QED BY <1>2, <1>4, <2>2, <2>4, <2>5, <2>6, <2>7, <2>8
<1>8. CASE \E p \in Phrases : Push(p)
  <2>1. PICK p \in Phrases : Push(p)
    BY <1>8
  <2>2. enq[p].pc = "asked" /\ p \notin Waiting /\ Apart(p)
    BY <1>2, <2>1 DEF Push
  <2>3. /\ Waiting' \subseteq Waiting \union {p} /\ Single(items')
        /\ UNCHANGED <<pump, mailbox, playing, finished>>
    BY <1>2, <2>1, <2>2, Joined
  <2>4. \A q \in Phrases : enq'[q].pc = "asked" => q # p /\ enq[q].pc = "asked"
    BY <1>1, <2>1 DEF Push
  <2>5. Sent' = Sent
    BY <2>3 DEF Sent, Ended, Elems
  <2> HIDE DEF Single
  <2>6. \A q \in Phrases : enq'[q].pc = "asked" \/ q \in Waiting' =>
          q # pump'.phrase /\ \A x \in Sent' : x[1] # q
    BY <1>2, <1>5, <2>2, <2>3, <2>4, <2>5
  <2> QED BY <1>2, <1>4, <2>3, <2>4, <2>5, <2>6
<1>9. CASE Begins
  <2>1. /\ pump'.phrase \in Waiting /\ pump'.phrase \notin Waiting' /\ Waiting' \subseteq Waiting
        /\ Single(items') /\ UNCHANGED <<enq, mailbox, playing, finished>>
    BY <1>2, <1>9, Taken
  <2>2. Sent' = Sent /\ Apart(pump'.phrase)
    BY <1>2, <1>3, <2>1 DEF Sent, Ended, Elems
  <2> HIDE DEF Single
  <2>3. \A q \in Phrases : enq'[q].pc = "asked" \/ q \in Waiting' =>
          q # pump'.phrase /\ \A x \in Sent' : x[1] # q
    BY <1>2, <1>5, <2>1, <2>2
  <2> QED BY <1>2, <1>4, <1>5, <2>1, <2>2, <2>3
<1>10. CASE PumpPlays
  <2>1. /\ pump.pc = "play" /\ pump'.phrase = pump.phrase /\ pump'.chunk = pump.chunk
        /\ pump'.pc = "register" /\ UNCHANGED <<items, enq>>
    BY <1>1, <1>10 DEF PumpPlays, queueVars, At, PumpRecords
  <2>2. Sent' \subseteq Sent \union {Piece} /\ Waiting' = Waiting
    BY <2>1, SentStep DEF Waiting
  <2>3. Piece[1] = pump.phrase /\ Piece[2] = pump.chunk /\ pump.chunk \in Nat
    BY <1>1 DEF Piece, PumpRecords
  <2> HIDE DEF Single
  <2>4. \A q \in Phrases : enq'[q].pc = "asked" \/ q \in Waiting' =>
          q # pump'.phrase /\ \A x \in Sent' : x[1] # q
    BY <1>2, <1>5, <2>1, <2>2, <2>3
  <2>5. \A x \in Sent' :
          x[1] = pump'.phrase =>
            x[2] <= pump'.chunk /\ (pump'.pc \in {"chunk", "play"} => x[2] # pump'.chunk)
    BY <1>2, <2>1, <2>2, <2>3
  <2> QED BY <1>2, <1>4, <2>1, <2>2, <2>4, <2>5
<1>11. CASE FirstPiece \/ NextPiece
  <2>1. UNCHANGED <<items, enq, mailbox, playing, finished>>
    BY <1>11 DEF FirstPiece, NextPiece, PumpStarts, PumpHears, queueVars, sinkVars
  <2>2. pump'.phrase = pump.phrase /\ pump'.chunk = pump.chunk + 1 /\ pump.chunk \in Nat
    <3>1. CASE FirstPiece
      <4>1. pump' = [pump EXCEPT !.pc = "chunk", !.chunk = 1] /\ pump.chunk = 0
        BY <3>1 DEF FirstPiece, PumpStarts, PumpInv, Stale, GiveUp
      <4> QED BY <1>1, <4>1 DEF PumpRecords
    <3>2. CASE NextPiece
      <4>1. pump' = [pump EXCEPT !.pc = "chunk", !.chunk = @ + 1]
        BY <3>2 DEF NextPiece, PumpHears
      <4> QED BY <1>1, <4>1 DEF PumpRecords
    <3> QED BY <1>11, <3>1, <3>2
  <2>3. Sent' = Sent /\ Waiting' = Waiting
    BY <2>1 DEF Sent, Ended, Elems, Waiting
  <2> HIDE DEF Single
  <2>4. \A q \in Phrases : enq'[q].pc = "asked" \/ q \in Waiting' =>
          q # pump'.phrase /\ \A x \in Sent' : x[1] # q
    BY <1>2, <1>5, <2>1, <2>2, <2>3
  <2>5. \A x \in Sent' : x[1] = pump'.phrase => x[2] <= pump'.chunk /\ x[2] # pump'.chunk
    BY <1>2, <1>3, <2>2, <2>3
  <2> QED BY <1>2, <1>4, <2>1, <2>3, <2>4, <2>5
<1> QED BY <1>6, <1>7, <1>8, <1>9, <1>10, <1>11, CalmSteps

\* The upsets are counted, and a reset is one of them.
LEMMA UpsetsGrow ==
  ASSUME Types, PumpInv, [Next]_vars
  PROVE  /\ upsets' \in {upsets, upsets + 1}
         /\ reset'.pc # "none" => reset.pc # "none" \/ upsets' = upsets + 1
<1> DEFINE Goal == /\ upsets' \in {upsets, upsets + 1}
                   /\ reset'.pc # "none" => reset.pc # "none" \/ upsets' = upsets + 1
<1>1. reset \in [pc : {"none", "bump", "cancel", "queue", "stop"}, off : BOOLEAN]
  BY DEF Types, TaskType
<1>2. ASSUME RuntimeStops PROVE Goal
  BY <1>1, <1>2 DEF RuntimeStops, AskReset
<1>3. ASSUME SwitchOff PROVE Goal
  BY <1>1, <1>3 DEF SwitchOff, AskReset
<1>4. ASSUME ReleaseWaiting PROVE Goal
  BY <1>1, <1>4 DEF ReleaseWaiting, ClearQueue
<1>5. ASSUME ResetBumps, UNCHANGED plannerVars PROVE Goal
  BY <1>1, <1>5 DEF ResetBumps
<1>6. ASSUME ResetCancels, UNCHANGED plannerVars PROVE Goal
  BY <1>1, <1>6 DEF ResetCancels
<1>7. ASSUME ResetStops, UNCHANGED plannerVars PROVE Goal
  BY <1>1, <1>7 DEF ResetStops
<1>8. ASSUME WatchdogBites, UNCHANGED plannerVars PROVE Goal
  BY <1>1, <1>8 DEF WatchdogBites
<1>9. ASSUME WindowCloses, UNCHANGED plannerVars PROVE Goal
  BY <1>1, <1>9 DEF WindowCloses
<1>10. ASSUME \/ Plan
              \/ RuntimeStarts
              \/ SwitchOn
              \/ \E p \in Phrases : ReleaseDropped(p)
              \/ (\E p \in Phrases : Push(p)) /\ UNCHANGED plannerVars
              \/ (\E p \in Phrases, result \in Fetched : FinishPrefetch(p, result)) /\ UNCHANGED plannerVars
              \/ (\E ok \in BOOLEAN : PlayerEnds(ok)) /\ UNCHANGED plannerVars
              \/ (PumpChecks \/ BeginNext \/ PumpClaims \/ PumpPolls \/ PumpStarts \/
                  PumpChecksChunk \/ PumpPlays \/ PumpRegisters \/ PumpHears \/ PumpFinishes \/
                  PlayerIdle \/ PlayerBusy \/ Deliver \/ RescueStops \/
                  WatchdogWakes) /\ UNCHANGED plannerVars
              \/ UNCHANGED vars
      PROVE  Goal
  <2>1. UNCHANGED <<upsets, reset>>
    BY <1>10
    DEF Plan, RuntimeStarts, SwitchOn, Push, ReleaseDropped, FinishPrefetch, PumpChecks,
        BeginNext, PumpClaims, PumpPolls, PumpStarts, PumpChecksChunk, PumpPlays,
        PumpRegisters, PumpHears, PumpFinishes, PlayerIdle, PlayerBusy, PlayerEnds, Deliver,
        RescueStops, WatchdogWakes, Announce, Asked, Enable, GiveUp, SchedulePrefetch, vars,
        channelVars, plannerVars, queueVars, fetchVars, sinkVars
  <2> QED BY <2>1
<1> QED
  BY <1>1, <1>2, <1>3, <1>4, <1>5, <1>6, <1>7, <1>8, <1>9, <1>10 DEF Next, EnqueueStep,
  FetchStep, PumpStep, PlayerStep, ResetStep, RescueStep

\* Without an upset the planner keeps count of every phrase.
LEMMA KeysKept == Types /\ PumpInv /\ LifeInv /\ KeysInv /\ [Next]_vars => KeysInv'
<1> SUFFICES ASSUME Types, PumpInv, LifeInv, KeysInv, [Next]_vars PROVE KeysInv'
  OBVIOUS
<1> DEFINE Empty == \A p \in Phrases : enq'[p].pc # "pushed" => enq'[p].dropped = {}
           Goal == Empty /\ (upsets' = 0 => KeysKnown')
<1>1. /\ items \in Seq(Phrases) /\ keys \in SUBSET Phrases /\ upsets \in Nat
      /\ enq \in [Phrases -> [pc : {"none", "asked", "pushed"}, dropped : SUBSET Phrases]]
  BY DEF Types, QueueType, TaskType
<1>2. \A p \in Phrases : Living(p)' => Living(p) \/ enq[p].pc = "asked"
  BY LivingStep DEF Push
<1>3. /\ \A p \in Phrases : enq[p].pc # "pushed" => enq[p].dropped = {}
      /\ upsets' = 0 => upsets = 0 /\ KeysKnown
      /\ reset'.pc # "none" => upsets' > 0
      /\ reset.pc # "none" => upsets' # 0
  <2>1. /\ upsets' \in {upsets, upsets + 1}
        /\ reset'.pc # "none" => reset.pc # "none" \/ upsets' = upsets + 1
    BY UpsetsGrow
  <2>2. /\ \A p \in Phrases : enq[p].pc # "pushed" => enq[p].dropped = {}
        /\ reset.pc # "none" => upsets > 0
        /\ upsets = 0 => KeysKnown
    BY DEF KeysInv
  <2>3. /\ upsets' = 0 => upsets = 0
        /\ reset'.pc # "none" => upsets' > 0
        /\ reset.pc # "none" => upsets' # 0
    BY <1>1, <2>1, <2>2
  <2> QED BY <2>2, <2>3
<1>4. Goal => KeysInv'
  BY <1>3 DEF KeysInv
<1>5. ASSUME upsets' = 0
      PROVE  /\ \A p \in Phrases : enq[p].pc = "asked" \/ Living(p) => p \in keys
             /\ \A q \in Phrases : \A p \in enq[q].dropped :
                  p \in keys /\ enq[p].pc # "asked" /\ ~Living(p)
             /\ \A p, q \in Phrases : p # q => enq[p].dropped \cap enq[q].dropped = {}
  BY <1>3, <1>5 DEF KeysKnown
<1>6. ASSUME /\ \A p \in Phrases : enq'[p].pc = "asked" \/ Living(p)' => p \in keys'
             /\ \A q \in Phrases : \A p \in enq'[q].dropped :
                  p \in keys' /\ enq'[p].pc # "asked" /\ ~Living(p)'
             /\ \A p, q \in Phrases : p # q => enq'[p].dropped \cap enq'[q].dropped = {}
      PROVE  KeysKnown'
  BY <1>6 DEF KeysKnown
<1>7. ASSUME Plan PROVE Goal
  <2>1. PICK new \in SUBSET Phrases : Asked(new) /\ new \cap keys = {}
    <3>1. PICK block \in Blocks : \E visible \in SUBSET block \ {{}} : Asked(visible \ keys)
      BY <1>7 DEF Plan
    <3>2. PICK visible \in SUBSET block \ {{}} : Asked(visible \ keys)
      BY <3>1
    <3> QED BY <3>2
  <2>2. /\ keys' = keys \union new
        /\ \A p \in Phrases : IF p \in new THEN enq'[p].pc = "asked" /\ enq'[p].dropped = {}
                                           ELSE enq'[p] = enq[p]
    BY <2>1 DEF Asked
  <2>3. Empty
    BY <1>3, <2>2
  <2>4. ASSUME upsets' = 0 PROVE KeysKnown'
    <3>1. \A p \in Phrases : enq'[p].pc = "asked" \/ Living(p)' => p \in keys'
      BY <1>2, <1>5, <2>2, <2>4
    <3>2. \A q \in Phrases : \A p \in enq'[q].dropped :
            p \in keys' /\ enq'[p].pc # "asked" /\ ~Living(p)'
      <4>1. ASSUME NEW q \in Phrases, NEW p \in enq'[q].dropped
            PROVE  p \in keys' /\ enq'[p].pc # "asked" /\ ~Living(p)'
        <5>1. p \in enq[q].dropped /\ p \in Phrases
          BY <1>1, <2>2
        <5>2. p \in keys /\ enq[p].pc # "asked" /\ ~Living(p)
          BY <1>5, <2>4, <5>1
        <5> QED BY <1>2, <2>1, <2>2, <5>1, <5>2
      <4> QED BY <4>1
    <3>3. \A p, q \in Phrases : p # q => enq'[p].dropped \cap enq'[q].dropped = {}
      BY <1>5, <2>2, <2>4
    <3> QED BY <1>6, <3>1, <3>2, <3>3
  <2> QED BY <2>3, <2>4
<1>8. ASSUME NEW p \in Phrases, Push(p), UNCHANGED plannerVars PROVE Goal
  <2> DEFINE D == Waiting \ {AdaptiveDrop(items)[i] : i \in DOMAIN AdaptiveDrop(items)}
  <2>1. /\ enq' = [enq EXCEPT ![p] = [pc |-> "pushed", dropped |-> D]]
        /\ enq[p].pc = "asked" /\ UNCHANGED keys
    BY <1>8 DEF Push, plannerVars
  <2>2. /\ D \subseteq Waiting /\ D \cap Elems(AdaptiveDrop(items)) = {} /\ Waiting \subseteq Phrases
    BY <1>1, Leftovers DEF Elems
  <2> HIDE DEF D
  <2>3. /\ enq'[p].pc = "pushed" /\ enq'[p].dropped = D
        /\ \A q \in Phrases : q # p => enq'[q] = enq[q]
    BY <1>1, <2>1
  <2>4. Empty
    BY <1>3, <2>3
  <2>5. /\ p \notin Waiting /\ \A q \in Waiting : enq[q].pc # "asked" /\ Apart(q)
    BY <2>1, <2>2 DEF LifeInv
  <2>6. \A q \in D : enq'[q].pc # "asked" /\ ~Living(q)'
    <3>1. /\ Waiting' \subseteq Elems(AdaptiveDrop(items)) \union {p}
          /\ UNCHANGED <<pump, mailbox, playing, finished>>
      BY <1>8, Joined
    <3>2. \A q : Apart(q)' <=> Apart(q)
      BY <3>1 DEF Apart, Sent, Ended, Elems
    <3>3. \A q \in D : q \notin Waiting' /\ Apart(q)
      BY <2>2, <2>5, <3>1
    <3>4. \A q : Living(q)' <=> q \in Waiting' \/ ~Apart(q)'
      BY DEF Living
    <3> QED BY <2>2, <2>3, <2>5, <3>2, <3>3, <3>4
  <2>7. ASSUME upsets' = 0 PROVE KeysKnown'
    <3>1. \A q \in Phrases : enq'[q].pc = "asked" \/ Living(q)' => q \in keys'
      BY <1>2, <1>5, <2>1, <2>3, <2>7
    <3>2. ASSUME NEW r \in Phrases, NEW q \in enq'[r].dropped
          PROVE  q \in keys' /\ enq'[q].pc # "asked" /\ ~Living(q)'
      <4>1. CASE r = p
        <5>1. q \in D /\ q \in Waiting /\ q \in Phrases
          BY <2>2, <2>3, <4>1
        <5>2. Living(q)
          BY <5>1 DEF Living
        <5> QED BY <1>5, <2>1, <2>6, <2>7, <5>1, <5>2
      <4>2. CASE r # p
        <5>1. q \in enq[r].dropped /\ q \in Phrases
          BY <1>1, <2>3, <4>2
        <5>2. q \in keys /\ enq[q].pc # "asked" /\ ~Living(q)
          BY <1>5, <2>7, <5>1
        <5> QED BY <1>2, <2>1, <2>3, <5>1, <5>2
      <4> QED BY <4>1, <4>2
    <3>3. ASSUME NEW r \in Phrases, NEW q \in Phrases, r # q, NEW x \in enq'[r].dropped,
                 x \in enq'[q].dropped
          PROVE  FALSE
      <4>1. \A o \in Phrases : \A y \in enq[o].dropped : y \notin Waiting
        BY <1>5, <2>7 DEF Living
      <4>2. CASE r = p
        BY <2>2, <2>3, <3>3, <4>1, <4>2
      <4>3. CASE q = p
        BY <2>2, <2>3, <3>3, <4>1, <4>3
      <4>4. CASE r # p /\ q # p
        BY <1>5, <2>3, <2>7, <3>3, <4>4
      <4> QED BY <4>2, <4>3, <4>4
    <3> QED BY <1>6, <3>1, <3>2, <3>3
  <2> QED BY <2>4, <2>7
<1>9. ASSUME NEW p \in Phrases, ReleaseDropped(p) PROVE Goal
  <2>1. /\ keys' = keys \ enq[p].dropped
        /\ enq' = [enq EXCEPT ![p] = [pc |-> "none", dropped |-> {}]]
    BY <1>9 DEF ReleaseDropped, Announce
  <2>2. /\ enq'[p].pc = "none" /\ enq'[p].dropped = {}
        /\ \A q \in Phrases : q # p => enq'[q] = enq[q]
    BY <1>1, <2>1
  <2>3. Empty
    BY <1>3, <2>2
  <2>4. ASSUME upsets' = 0 PROVE KeysKnown'
    <3>1. ASSUME NEW q \in Phrases, enq'[q].pc = "asked" \/ Living(q)' PROVE q \in keys'
      <4>1. enq[q].pc = "asked" \/ Living(q)
        BY <1>2, <2>2, <3>1
      <4> QED BY <1>5, <2>1, <2>4, <4>1
    <3>2. ASSUME NEW r \in Phrases, NEW q \in enq'[r].dropped
          PROVE  q \in keys' /\ enq'[q].pc # "asked" /\ ~Living(q)'
      <4>1. r # p /\ q \in enq[r].dropped /\ q \in Phrases
        BY <1>1, <2>2
      <4>2. q \in keys /\ enq[q].pc # "asked" /\ ~Living(q) /\ q \notin enq[p].dropped
        BY <1>5, <2>4, <4>1
      <4> QED BY <1>2, <2>1, <2>2, <4>1, <4>2
    <3>3. \A r, q \in Phrases : r # q => enq'[r].dropped \cap enq'[q].dropped = {}
      BY <1>5, <2>2, <2>4
    <3> QED BY <1>6, <3>1, <3>2, <3>3
  <2> QED BY <2>3, <2>4
<1>10. ASSUME RuntimeStops PROVE Goal
  <2>1. upsets' = upsets + 1 /\ UNCHANGED enq
    BY <1>10 DEF RuntimeStops, AskReset
  <2>2. upsets' # 0
    BY <1>1, <2>1
  <2> QED BY <1>3, <2>1, <2>2
<1>11. ASSUME ReleaseWaiting PROVE Goal
  <2>1. reset.pc # "none" /\ UNCHANGED enq
    BY <1>11 DEF ReleaseWaiting, ClearQueue
  <2> QED BY <1>3, <2>1
<1>12. ASSUME \/ RuntimeStarts
              \/ SwitchOff
              \/ SwitchOn
              \/ (\E p \in Phrases, result \in Fetched : FinishPrefetch(p, result)) /\ UNCHANGED plannerVars
              \/ (\E ok \in BOOLEAN : PlayerEnds(ok)) /\ UNCHANGED plannerVars
              \/ (PumpChecks \/ BeginNext \/ PumpClaims \/ PumpPolls \/ PumpStarts \/
                  PumpChecksChunk \/ PumpPlays \/ PumpRegisters \/ PumpHears \/ PumpFinishes \/
                  PlayerIdle \/ PlayerBusy \/ Deliver \/ ResetBumps \/ ResetCancels \/
                  ResetStops \/ WatchdogBites \/ WindowCloses \/ RescueStops \/
                  WatchdogWakes) /\ UNCHANGED plannerVars
              \/ UNCHANGED vars
      PROVE  Goal
  <2>1. UNCHANGED <<enq, keys>>
    BY <1>12
    DEF RuntimeStarts, SwitchOff, SwitchOn, FinishPrefetch, PumpChecks, BeginNext, PumpClaims,
        PumpPolls, PumpStarts, PumpChecksChunk, PumpPlays, PumpRegisters, PumpHears,
        PumpFinishes, PlayerIdle, PlayerBusy, PlayerEnds, Deliver, ResetBumps, ResetCancels,
        ResetStops, WatchdogBites, WindowCloses, RescueStops, WatchdogWakes, AskReset, Enable,
        GiveUp, SchedulePrefetch, vars, channelVars, plannerVars, queueVars, fetchVars,
        sinkVars
  <2>2. Empty
    BY <1>3, <2>1
  <2>3. ASSUME upsets' = 0 PROVE KeysKnown'
    <3>1. \A p \in Phrases : enq'[p].pc = "asked" \/ Living(p)' => p \in keys'
      BY <1>2, <1>5, <2>1, <2>3
    <3>2. ASSUME NEW q \in Phrases, NEW p \in enq'[q].dropped
          PROVE  p \in keys' /\ enq'[p].pc # "asked" /\ ~Living(p)'
      <4>1. p \in enq[q].dropped /\ p \in Phrases
        BY <1>1, <2>1
      <4> QED BY <1>2, <1>5, <2>1, <2>3, <4>1
    <3>3. \A p, q \in Phrases : p # q => enq'[p].dropped \cap enq'[q].dropped = {}
      BY <1>5, <2>1, <2>3
    <3> QED BY <1>6, <3>1, <3>2, <3>3
  <2> QED BY <2>2, <2>3
<1>13. Goal
  BY <1>7, <1>8, <1>9, <1>10, <1>11, <1>12
  DEF Next, EnqueueStep, FetchStep, PumpStep, PlayerStep, ResetStep, RescueStep
<1> QED BY <1>4, <1>13

\* The pump never goes on while a voice is heard that nobody will stop.
LEMMA VoiceKept == Types /\ PumpInv /\ LifeInv /\ VoiceInv /\ [Next]_vars => VoiceInv'
<1> SUFFICES ASSUME Types, PumpInv, LifeInv, VoiceInv, [Next]_vars PROVE VoiceInv'
  OBVIOUS
<1>1. /\ pump \in PumpRecords /\ PlayerType
      /\ mailbox \in Seq(Pieces \union {None}) /\ finished \in Seq(Endings)
      /\ reset \in [pc : {"none", "bump", "cancel", "queue", "stop"}, off : BOOLEAN]
  BY DEF Types, PumpType, PlayerType, TaskType
<1>2. /\ StopComing <=> None \in Elems(mailbox) \/ reset.pc \in {"queue", "stop"}
      /\ StopComing' <=> None \in Elems(mailbox') \/ reset'.pc \in {"queue", "stop"}
  BY DEF StopComing, Elems
<1>3. OneSent => Piece # None /\ Piece \in Pieces
  <2>1. ASSUME OneSent PROVE pump.phrase \in Phrases /\ pump.chunk \in 1..Chunks
    BY <1>1, <2>1 DEF OneSent, PumpInv, Resting, PumpRecords
  <2> QED BY <2>1 DEF Piece, Pieces
<1>4. \A x : mailbox = <<x>> => Head(mailbox) = x /\ Tail(mailbox) = <<>> /\ mailbox # <<>>
  OBVIOUS
<1>5. ASSUME PumpChecks \/ BeginNext \/ PumpClaims \/ PumpPolls \/
             PumpStarts \/ PumpChecksChunk \/ PumpHears \/ PumpFinishes
      PROVE  VoiceInv'
  <2>1. UNCHANGED <<mailbox, playing, reset>> /\ ~OneSent
    BY <1>5
    DEF PumpChecks, BeginNext, PumpClaims, PumpPolls, PumpStarts, PumpChecksChunk, PumpHears,
        PumpFinishes, sinkVars, OneSent
  <2> QED BY <1>2, <2>1 DEF VoiceInv, Silent
<1>6. ASSUME PumpPlays, UNCHANGED plannerVars PROVE VoiceInv'
  <2>1. /\ pump.pc = "play" /\ mailbox' = Append(mailbox, Piece)
        /\ UNCHANGED <<playing, finished, waiter, reset>>
    BY <1>6 DEF PumpPlays, Piece
  <2>2. pump'.pc = "register" /\ Piece' = Piece
    BY <1>1, <1>6 DEF PumpPlays, At, PumpRecords, Piece
  <2>3. Piece \in Pieces /\ waiter.answer = "none"
    BY <1>1, <2>1 DEF PumpInv, Resting, PumpRecords, Piece, Pieces
  <2>4. CASE StopComing
    <3>1. Elems(mailbox') = Elems(mailbox) \union {Piece}
      BY <1>1, <2>1, <2>3, Elements
    <3> QED BY <1>2, <2>1, <2>4, <3>1 DEF VoiceInv
  <2>5. CASE Silent
    <3>1. Piece \notin Ended
      <4>1. Piece[1] = pump.phrase /\ Piece[2] = pump.chunk
        BY DEF Piece
      <4> HIDE DEF Piece
      <4> QED BY <1>1, <2>1, <4>1, SentPieces DEF LifeInv
    <3>2. mailbox' = <<Piece>> /\ playing' = None /\ Ended' = Ended
      BY <2>1, <2>5 DEF Silent, Ended
    <3>3. OneSent'
      BY <2>1, <2>2, <2>3, <3>1, <3>2 DEF OneSent
    <3> QED BY <3>3 DEF VoiceInv
  <2>6. ~OneSent
    BY <2>1 DEF OneSent
  <2> QED BY <2>4, <2>5, <2>6 DEF VoiceInv
<1>7. ASSUME PumpRegisters, UNCHANGED plannerVars PROVE VoiceInv'
  <2>1. UNCHANGED <<mailbox, playing, finished, reset>> /\ waiter'.answer = "none"
    BY <1>7 DEF PumpRegisters, sinkVars
  <2>2. pump'.pc = "await" /\ Piece' = Piece
    BY <1>1, <1>7 DEF PumpRegisters, At, PumpRecords, Piece
  <2>3. StopComing => StopComing'
    BY <1>2, <2>1
  <2>4. Silent => Silent'
    BY <2>1 DEF Silent
  <2>5. OneSent => OneSent'
    <3>1. Ended' = Ended
      BY <2>1 DEF Ended
    <3> QED BY <2>1, <2>2, <3>1 DEF OneSent
  <2> QED BY <2>3, <2>4, <2>5 DEF VoiceInv
<1>8. ASSUME RuntimeStops PROVE VoiceInv'
  <2>1. /\ UNCHANGED <<mailbox, playing, finished, pump, waiter>>
        /\ reset.pc \notin {"queue", "stop"}
    BY <1>8 DEF RuntimeStops, AskReset, sinkVars
  <2>2. StopComing => StopComing'
    BY <1>2, <2>1
  <2>3. (Silent => Silent') /\ (OneSent => OneSent')
    BY <2>1 DEF Silent, OneSent, Ended, Piece
  <2> QED BY <2>2, <2>3 DEF VoiceInv
<1>9. ASSUME SwitchOff PROVE VoiceInv'
  <2>1. /\ UNCHANGED <<mailbox, playing, finished, pump, waiter>>
        /\ reset.pc \notin {"queue", "stop"}
    BY <1>9 DEF SwitchOff, AskReset, sinkVars
  <2>2. StopComing => StopComing'
    BY <1>2, <2>1
  <2>3. (Silent => Silent') /\ (OneSent => OneSent')
    BY <2>1 DEF Silent, OneSent, Ended, Piece
  <2> QED BY <2>2, <2>3 DEF VoiceInv
<1>10. ASSUME ReleaseWaiting PROVE VoiceInv'
  <2>1. reset'.pc = "stop"
    BY <1>1, <1>10 DEF ReleaseWaiting, ClearQueue
  <2> QED BY <1>2, <2>1 DEF VoiceInv
<1>11. ASSUME ResetBumps, UNCHANGED plannerVars PROVE VoiceInv'
  <2>1. /\ UNCHANGED <<mailbox, playing, finished, pump, waiter>>
        /\ reset.pc \notin {"queue", "stop"}
    BY <1>11 DEF ResetBumps, sinkVars
  <2>2. StopComing => StopComing'
    BY <1>2, <2>1
  <2>3. (Silent => Silent') /\ (OneSent => OneSent')
    BY <2>1 DEF Silent, OneSent, Ended, Piece
  <2> QED BY <2>2, <2>3 DEF VoiceInv
<1>12. ASSUME ResetCancels, UNCHANGED plannerVars PROVE VoiceInv'
  <2>1. reset'.pc = "queue"
    BY <1>1, <1>12 DEF ResetCancels
  <2> QED BY <1>2, <2>1 DEF VoiceInv
<1>13. ASSUME ResetStops, UNCHANGED plannerVars PROVE VoiceInv'
  <2>1. mailbox' = Append(mailbox, None)
    BY <1>13 DEF ResetStops
  <2>2. Elems(mailbox') = Elems(mailbox) \union {None}
    BY <1>1, <2>1, Elements
  <2> QED BY <1>2, <2>2 DEF VoiceInv
<1>14. ASSUME RescueStops, UNCHANGED plannerVars PROVE VoiceInv'
  <2>1. mailbox' = Append(mailbox, None)
    BY <1>14 DEF RescueStops
  <2>2. Elems(mailbox') = Elems(mailbox) \union {None}
    BY <1>1, <2>1, Elements
  <2> QED BY <1>2, <2>2 DEF VoiceInv
<1>15. ASSUME PlayerIdle, UNCHANGED plannerVars PROVE VoiceInv'
  <2>1. playing = None /\ mailbox # <<>> /\ UNCHANGED <<finished, pump, waiter, reset>>
    BY <1>15 DEF PlayerIdle
  <2>2. CASE Head(mailbox) = None
    <3>1. Silent'
      BY <1>15, <2>1, <2>2 DEF PlayerIdle, Silent
    <3> QED BY <3>1 DEF VoiceInv
  <2>3. CASE Head(mailbox) # None
    <3>1. mailbox' = Tail(mailbox) /\ playing' = Head(mailbox)
      BY <1>15, <2>3 DEF PlayerIdle
    <3>2. CASE StopComing
      <4>1. None \in Elems(mailbox) => None \in Elems(mailbox')
        BY <1>1, <2>1, <2>3, <3>1, Elements
      <4> QED BY <1>2, <2>1, <3>2, <4>1 DEF VoiceInv
    <3>3. CASE OneSent
      <4>1. mailbox = <<Piece>>
        BY <1>3, <2>1, <3>3 DEF OneSent
      <4>2. playing' = Piece /\ mailbox' = <<>> /\ Piece' = Piece /\ Ended' = Ended
        BY <1>4, <2>1, <3>1, <4>1 DEF Piece, Ended
      <4>3. OneSent'
        BY <2>1, <3>3, <4>2 DEF OneSent
      <4> QED BY <4>3 DEF VoiceInv
    <3> QED BY <2>1, <3>2, <3>3 DEF VoiceInv, Silent
  <2> QED BY <2>2, <2>3
<1>16. ASSUME PlayerBusy, UNCHANGED plannerVars PROVE VoiceInv'
  <2>1. playing # None /\ mailbox # <<>> /\ UNCHANGED <<pump, waiter, reset>>
    BY <1>16 DEF PlayerBusy
  <2>2. StopComing
    BY <2>1 DEF VoiceInv, Silent, OneSent
  <2>3. CASE Head(mailbox) = None
    <3>1. Silent'
      BY <1>16, <2>3 DEF PlayerBusy, Silent
    <3> QED BY <3>1 DEF VoiceInv
  <2>4. CASE Head(mailbox) # None
    <3>1. mailbox' = Tail(mailbox)
      BY <1>16, <2>4 DEF PlayerBusy
    <3>2. None \in Elems(mailbox) => None \in Elems(mailbox')
      BY <1>1, <2>1, <2>4, <3>1, Elements
    <3> QED BY <1>2, <2>1, <2>2, <3>2 DEF VoiceInv
  <2> QED BY <2>3, <2>4
<1>17. ASSUME NEW ok \in BOOLEAN, PlayerEnds(ok), UNCHANGED plannerVars PROVE VoiceInv'
  <2>1. playing # None /\ playing' = None /\ UNCHANGED <<mailbox, reset>>
    BY <1>17 DEF PlayerEnds
  <2>2. StopComing => StopComing'
    BY <1>2, <2>1
  <2>3. OneSent => Silent'
    BY <2>1 DEF OneSent, Silent
  <2> QED BY <2>1, <2>2, <2>3 DEF VoiceInv, Silent
<1>18. ASSUME Deliver, UNCHANGED plannerVars PROVE VoiceInv'
  <2>1. /\ finished # <<>> /\ finished' = Tail(finished)
        /\ UNCHANGED <<mailbox, playing, pump, reset>>
    BY <1>18 DEF Deliver
  <2>2. StopComing => StopComing'
    BY <1>2, <2>1
  <2>3. Silent => Silent'
    BY <2>1 DEF Silent
  <2>4. ASSUME OneSent PROVE OneSent'
    <3>1. /\ Head(finished) \in Elems(finished) /\ Elems(finished') \subseteq Elems(finished)
          /\ Elems(finished) \subseteq Endings
      BY <1>1, <2>1, Elements
    <3>2. Ended' \subseteq Ended /\ Head(finished).key \in Ended /\ Head(finished).key \in Pieces
      BY <3>1 DEF Ended, Endings
    <3>3. waiter.key \in {None, Piece} /\ None \notin Pieces
      BY <2>4 DEF PumpInv, OneSent, Pieces
    <3>4. waiter.key # Head(finished).key
      BY <2>4, <3>2, <3>3 DEF OneSent
    <3>5. UNCHANGED waiter
      BY <1>18, <3>4 DEF Deliver
    <3>6. Piece' = Piece
      BY <2>1 DEF Piece
    <3> QED BY <2>1, <2>4, <3>2, <3>5, <3>6 DEF OneSent
  <2> QED BY <2>2, <2>3, <2>4 DEF VoiceInv
<1>19. ASSUME \/ Plan
              \/ RuntimeStarts
              \/ SwitchOn
              \/ \E p \in Phrases : ReleaseDropped(p)
              \/ (\E p \in Phrases : Push(p)) /\ UNCHANGED plannerVars
              \/ (\E p \in Phrases, result \in Fetched : FinishPrefetch(p, result)) /\ UNCHANGED plannerVars
              \/ (WatchdogBites \/ WindowCloses \/ WatchdogWakes) /\ UNCHANGED plannerVars
              \/ UNCHANGED vars
      PROVE  VoiceInv'
  <2>1. UNCHANGED <<mailbox, playing, finished, pump, waiter, reset>>
    BY <1>19
    DEF Plan, RuntimeStarts, SwitchOn, Push, ReleaseDropped, FinishPrefetch, WatchdogBites,
        WindowCloses, WatchdogWakes, Announce, Asked, Enable, SchedulePrefetch, vars,
        channelVars, plannerVars, queueVars, fetchVars, sinkVars
  <2>2. StopComing => StopComing'
    BY <1>2, <2>1
  <2>3. (Silent => Silent') /\ (OneSent => OneSent')
    BY <2>1 DEF Silent, OneSent, Ended, Piece
  <2> QED BY <2>2, <2>3 DEF VoiceInv
<1> QED
  BY <1>5, <1>6, <1>7, <1>8, <1>9, <1>10, <1>11, <1>12, <1>13, <1>14, <1>15, <1>16, <1>17,
     <1>18, <1>19
  DEF Next, EnqueueStep, FetchStep, PumpStep, PlayerStep, ResetStep, RescueStep

-----------------------------------------------------------------------------
(* Bounds *)

LineBound == Len(items) <= IF Cap = 1 THEN 2 ELSE Cap
CounterBound == st.inflight <= PrefetchAhead

\* Each reset and each recovery moves the epoch once, if at all.
Owed == (IF reset.pc = "bump" THEN 1 ELSE 0) + (IF rescue.phrase # None THEN 1 ELSE 0)
EpochBound == upsets <= MaxUpsets /\ st.epoch + Owed <= upsets

\* The line is cut when it is full.
LEMMA LineKept == Types /\ LineBound /\ [Next]_vars => LineBound'
<1> SUFFICES ASSUME Types, LineBound, [Next]_vars PROVE LineBound'
  OBVIOUS
<1>1. items \in Seq(Phrases) /\ Len(items) \in Nat
  BY DEF Types, QueueType
<1>2. ASSUME NEW p \in Phrases, Push(p), UNCHANGED plannerVars PROVE LineBound'
  <2> DEFINE q == AdaptiveDrop(items)
             low == IF Cap > 1 THEN Cap \div 2 ELSE 1
             n == Len(items)
  <2>1. items' = Append(q, p) /\ q \in Seq(Phrases)
    BY <1>1, <1>2, Cutting DEF Push
  <2>2. (Len(q) = n /\ n < Cap) \/ Len(q) = low
    <3>1. CASE n < Cap
      BY <3>1 DEF AdaptiveDrop
    <3>2. CASE n >= Cap
      <4>1. q = SubSeq(items, n - low + 1, n)
        <5>1. ~(n < Cap)
          BY <1>1, <3>2
        <5> QED BY <5>1, FullCut, Zenon
      <4>2. low \in 1..Cap
        BY HalfFull
      <4> DEFINE m == n - low + 1
      <4>3. m \in 1..n /\ n - m + 1 = low /\ DOMAIN items = 1..n
        <5> HIDE DEF low
        <5> QED BY <1>1, <3>2, <4>2
      <4>4. \A i \in m..n : items[i] \in Phrases
        BY <1>1, <4>3
      <4>5. q = SubSeq(items, m, n)
        BY <4>1
      <4> HIDE DEF q, low, m
      <4>6. Len(q) = IF m <= n THEN n - m + 1 ELSE 0
        BY <1>1, <4>3, <4>4, <4>5, SubSeqProperties
      <4> QED BY <1>1, <4>3, <4>6
    <3> QED BY <1>1, <3>1, <3>2
  <2>3. Len(q) \in Nat /\ Len(items') = Len(q) + 1
    <3> HIDE DEF q
    <3> QED BY <2>1
  <2>4. low + 1 <= IF Cap = 1 THEN 2 ELSE Cap
    OBVIOUS
  <2> HIDE DEF q, low
  <2> QED BY <1>1, <2>2, <2>3, <2>4 DEF LineBound
<1>3. ASSUME ReleaseWaiting PROVE LineBound'
  <2>1. items' = <<>>
    BY <1>3 DEF ReleaseWaiting, ClearQueue
  <2> QED BY <2>1 DEF LineBound
<1>4. ASSUME BeginNext, UNCHANGED plannerVars PROVE LineBound'
  <2>1. CASE current # None \/ items = <<>>
    <3>1. UNCHANGED items
      BY <1>4, <2>1 DEF BeginNext, queueVars
    <3> QED BY <3>1 DEF LineBound
  <2>2. CASE current = None /\ items # <<>>
    <3>1. items' = Tail(items)
      BY <1>4, <2>2 DEF BeginNext
    <3>2. Len(items') <= Len(items) /\ Len(items') \in Nat
      BY <1>1, <2>2, <3>1
    <3> QED BY <1>1, <3>2 DEF LineBound
  <2> QED BY <2>1, <2>2
<1>5. ASSUME \/ Plan
             \/ RuntimeStarts
             \/ RuntimeStops
             \/ SwitchOff
             \/ SwitchOn
             \/ \E p \in Phrases : ReleaseDropped(p)
             \/ (\E p \in Phrases, result \in Fetched : FinishPrefetch(p, result)) /\ UNCHANGED plannerVars
             \/ (\E ok \in BOOLEAN : PlayerEnds(ok)) /\ UNCHANGED plannerVars
             \/ (PumpChecks \/ PumpClaims \/ PumpPolls \/ PumpStarts \/ PumpChecksChunk \/
                 PumpPlays \/ PumpRegisters \/ PumpHears \/ PumpFinishes \/ PlayerIdle \/
                 PlayerBusy \/ Deliver \/ ResetBumps \/ ResetCancels \/ ResetStops \/
                 WatchdogBites \/ WindowCloses \/ RescueStops \/
                 WatchdogWakes) /\ UNCHANGED plannerVars
             \/ UNCHANGED vars
      PROVE  LineBound'
  <2>1. UNCHANGED items
    BY <1>5
    DEF Plan, RuntimeStarts, RuntimeStops, SwitchOff, SwitchOn, ReleaseDropped, FinishPrefetch,
        PumpChecks, PumpClaims, PumpPolls, PumpStarts, PumpChecksChunk, PumpPlays,
        PumpRegisters, PumpHears, PumpFinishes, PlayerIdle, PlayerBusy, PlayerEnds, Deliver,
        ResetBumps, ResetCancels, ResetStops, WatchdogBites, WindowCloses, RescueStops,
        WatchdogWakes, Announce, AskReset, Asked, Enable, GiveUp, SchedulePrefetch, vars,
        channelVars, plannerVars, queueVars, fetchVars, sinkVars
  <2> QED BY <2>1 DEF LineBound
<1> QED
  BY <1>1, <1>2, <1>3, <1>4, <1>5 DEF Next, EnqueueStep, FetchStep, PumpStep, PlayerStep,
  ResetStep, RescueStep

\* A fetch is scheduled only while fewer run than may.
LEMMA ScheduledWithin ==
  ASSUME items \in Seq(Phrases), fetches \in [Phrases -> Nat],
         NEW s \in States, NEW known \in Audio, SchedulePrefetch(s, known),
         s.inflight <= PrefetchAhead
  PROVE  CounterBound'
<1> DEFINE lacking == {i \in DOMAIN items : known[items[i]] \notin Fetched}
           before(i) == {j \in lacking : j < i}
           rank(i) == Cardinality(before(i))
           taken == {i \in lacking : s.inflight + rank(i) < PrefetchAhead}
           room == PrefetchAhead - s.inflight
           g == [i \in taken |-> rank(i)]
<1>1. st' = [s EXCEPT !.inflight = @ + Cardinality(taken)]
  BY DEF SchedulePrefetch
<1>2. s.inflight \in Nat /\ room \in Nat
  BY DEF States
<1>3. lacking \subseteq Nat /\ IsFiniteSet(lacking)
  <2>1. DOMAIN items = 1..Len(items) /\ Len(items) \in Nat
    OBVIOUS
  <2>2. IsFiniteSet(1..Len(items))
    <3>1. 1 \in Int /\ Len(items) \in Int
      BY <2>1
    <3> QED BY <3>1, FS_Interval
  <2>3. lacking \subseteq 1..Len(items)
    BY <2>1
  <2> HIDE DEF lacking
  <2> QED BY <2>1, <2>2, <2>3, FS_Subset
<1> HIDE DEF lacking
<1>4. \A i : IsFiniteSet(before(i)) /\ rank(i) \in Nat
  <2> TAKE i
  <2>1. before(i) \in SUBSET lacking
    OBVIOUS
  <2> HIDE DEF before
  <2> QED BY <1>3, <2>1, FS_Subset, FS_CardinalityType
<1>5. ASSUME NEW i \in lacking, NEW j \in lacking, i < j PROVE rank(i) < rank(j)
  <2> DEFINE U == before(i)
             V == before(j)
  <2>1. U \in SUBSET V /\ i \in V /\ i \notin U /\ IsFiniteSet(V)
    <3>1. U \in SUBSET V /\ i \in V /\ i \notin U
      BY <1>3, <1>5
    <3> QED BY <1>4, <3>1
  <2> HIDE DEF U, V
  <2>2. IsFiniteSet(U) /\ Cardinality(U) <= Cardinality(V) /\ Cardinality(U) # Cardinality(V)
    BY <2>1, FS_Subset
  <2>3. Cardinality(U) \in Nat /\ Cardinality(V) \in Nat
    BY <2>1, <2>2, FS_CardinalityType
  <2>4. Cardinality(U) < Cardinality(V)
    BY <2>2, <2>3
  <2> QED BY <2>4 DEF U, V
<1> HIDE DEF rank
<1> DEFINE R == 0..room - 1
<1>6. g \in Injection(taken, R)
  <2>1. ASSUME NEW i \in taken PROVE g[i] \in R
    <3>1. g[i] = rank(i) /\ rank(i) \in Nat /\ s.inflight + rank(i) < PrefetchAhead
      BY <1>4
    <3>2. rank(i) \in 0..room - 1
      BY <1>2, <3>1
    <3> QED BY <3>1, <3>2
  <2>2. \A i, j \in taken : g[i] = g[j] => i = j
    <3>1. ASSUME NEW i \in taken, NEW j \in taken, g[i] = g[j] PROVE i = j
      <4>1. i \in lacking /\ j \in lacking /\ rank(i) = rank(j)
        BY <3>1
      <4>2. rank(i) \in Nat /\ rank(j) \in Nat /\ i \in Nat /\ j \in Nat
        BY <1>3, <1>4, <4>1
      <4>3. ~(i < j) /\ ~(j < i)
        BY <1>5, <4>1, <4>2
      <4> QED BY <4>2, <4>3
    <3> QED BY <3>1
  <2>3. g = [i \in taken |-> g[i]] /\ DOMAIN g = taken
    OBVIOUS
  <2> HIDE DEF g, taken, R
  <2>4. g \in [taken -> R]
    BY <2>1, <2>3
  <2> QED BY <2>2, <2>4 DEF Injection, IsInjective
<1>7. IsFiniteSet(R) /\ Cardinality(R) = room
  <2> DEFINE top == room - 1
  <2>1. 0 \in Int /\ top \in Int
    BY <1>2
  <2>2. (IF 0 > top THEN 0 ELSE top - 0 + 1) = room
    BY <1>2
  <2> HIDE DEF room, top
  <2>3. IsFiniteSet(0..top) /\ Cardinality(0..top) = IF 0 > top THEN 0 ELSE top - 0 + 1
    BY <2>1, FS_Interval
  <2>4. Cardinality(0..top) = room
    BY <2>2, <2>3
  <2> QED BY <2>3, <2>4 DEF top
<1> HIDE DEF taken, g, R
<1>8. IsFiniteSet(taken) /\ Cardinality(taken) <= room
  BY <1>6, <1>7, FS_Injection
<1>9. Cardinality(taken) \in Nat /\ st'.inflight = s.inflight + Cardinality(taken)
  BY <1>1, <1>8, FS_CardinalityType DEF States
<1> QED BY <1>2, <1>8, <1>9 DEF CounterBound

\* The counter of the fetches stays within its limit.
LEMMA CounterKept == Types /\ PumpInv /\ CounterBound /\ [Next]_vars => CounterBound'
<1> SUFFICES ASSUME Types, PumpInv, CounterBound, [Next]_vars PROVE CounterBound'
  OBVIOUS
<1>1. /\ items \in Seq(Phrases) /\ st \in States /\ audio \in Audio
      /\ fetches \in [Phrases -> Nat] /\ pump.phrase \in Phrases \union {None}
      /\ rescue.phrase \in Phrases \union {None} /\ st.inflight \in Nat
      /\ st.inflight <= PrefetchAhead
  BY DEF Types, QueueType, StateType, States, PumpType, PumpRecords, TaskType, CounterBound
<1>2. ASSUME SwitchOn PROVE CounterBound'
  <2>1. st' \in {st, [st EXCEPT !.enabled = TRUE]} /\ UNCHANGED fetches
    BY <1>2 DEF SwitchOn, Enable, channelVars, fetchVars
  <2>2. st'.inflight = st.inflight
    BY <1>1, <2>1 DEF States
  <2> QED BY <1>1, <2>1, <2>2 DEF CounterBound
<1>3. ASSUME NEW p \in Phrases, ReleaseDropped(p) PROVE CounterBound'
  <2>1. Known(p) \in Audio
    BY <1>1 DEF Known, Audio
  <2>2. SchedulePrefetch(st, Known(p))
    BY <1>3 DEF ReleaseDropped, Announce
  <2> QED BY <1>1, <2>1, <2>2, ScheduledWithin
<1>4. ASSUME NEW p \in Phrases, NEW result \in Fetched, FinishPrefetch(p, result), UNCHANGED plannerVars
      PROVE  CounterBound'
  <2> DEFINE n == IF st.inflight = 0 THEN 0 ELSE st.inflight - 1
  <2>1. st' = [st EXCEPT !.inflight = n]
    BY <1>4 DEF FinishPrefetch
  <2>2. n <= PrefetchAhead
    BY <1>1
  <2> HIDE DEF n
  <2>3. st'.inflight = n
    BY <1>1, <2>1 DEF States
  <2> QED BY <2>2, <2>3 DEF CounterBound
<1>5. ASSUME PumpClaims, UNCHANGED plannerVars PROVE CounterBound'
  <2>1. pump.phrase \in Phrases
    BY <1>1, <1>5 DEF PumpInv, PumpClaims, Resting
  <2> DEFINE known == [audio EXCEPT ![pump.phrase] = IF @ = "absent" THEN "pending" ELSE @]
             s == [st EXCEPT !.claim = TRUE]
  <2>2. known \in Audio /\ s \in States /\ s.inflight = st.inflight
    BY <1>1, <2>1 DEF Audio, States
  <2>3. SchedulePrefetch(s, known)
    BY <1>5 DEF PumpClaims
  <2> HIDE DEF known, s
  <2> QED BY <1>1, <2>2, <2>3, ScheduledWithin
<1>6. ASSUME PumpPolls, UNCHANGED plannerVars PROVE CounterBound'
  <2>1. /\ UNCHANGED fetches
        /\ \/ UNCHANGED st
           \/ st' = [st EXCEPT !.claim = FALSE]
    BY <1>6 DEF PumpPolls, GiveUp
  <2>2. st'.inflight = st.inflight
    BY <1>1, <2>1 DEF States
  <2> QED BY <1>1, <2>1, <2>2 DEF CounterBound
<1>7. ASSUME PumpStarts, UNCHANGED plannerVars PROVE CounterBound'
  <2>1. /\ UNCHANGED fetches
        /\ \/ st' = [st EXCEPT !.speaking = TRUE, !.claim = FALSE]
           \/ st' = [st EXCEPT !.claim = FALSE]
    BY <1>7 DEF PumpStarts, GiveUp
  <2>2. st'.inflight = st.inflight
    BY <1>1, <2>1 DEF States
  <2> QED BY <1>1, <2>1, <2>2 DEF CounterBound
<1>8. ASSUME PumpFinishes, UNCHANGED plannerVars PROVE CounterBound'
  <2>1. pump.phrase \in Phrases
    BY <1>1, <1>8 DEF PumpInv, PumpFinishes, Resting
  <2> DEFINE known == [audio EXCEPT ![pump.phrase] = "absent"]
  <2>2. known \in Audio
    BY <1>1, <2>1 DEF Audio
  <2>3. Quiet(st) \in States /\ Quiet(st).inflight = st.inflight
    BY <1>1, StatesClosed
  <2>4. CASE SchedulePrefetch(Quiet(st), known)
    <3> HIDE DEF known
    <3> QED BY <1>1, <2>2, <2>3, <2>4, ScheduledWithin
  <2>5. CASE st' = Quiet(st) /\ UNCHANGED fetches
    BY <1>1, <2>3, <2>5 DEF CounterBound
  <2> QED BY <1>8, <2>4, <2>5 DEF PumpFinishes
<1>9. ASSUME ResetBumps, UNCHANGED plannerVars PROVE CounterBound'
  <2>2. CASE reset.off /\ ~st.enabled
    BY <1>1, <1>9, <2>2 DEF ResetBumps, CounterBound
  <2>3. CASE ~(reset.off /\ ~st.enabled)
    <3> DEFINE b == BumpEpoch(st)
    <3>1. b \in States
      BY <1>1, StatesClosed
    <3>2. st' = [b EXCEPT !.inflight = 0, !.enabled = b.enabled /\ ~reset.off]
      BY <1>9, <2>3 DEF ResetBumps
    <3> HIDE DEF b
    <3>3. st'.inflight = 0
      BY <3>1, <3>2 DEF States
    <3> QED BY <3>3 DEF CounterBound
  <2> QED BY <2>2, <2>3
<1>10. ASSUME WatchdogWakes, UNCHANGED plannerVars PROVE CounterBound'
  <2>1. rescue.phrase \in Phrases
    BY <1>1, <1>10 DEF Types, TaskType, WatchdogWakes
  <2> DEFINE known == [audio EXCEPT ![rescue.phrase] = "absent"]
  <2>2. known \in Audio
    BY <1>1, <2>1 DEF Audio
  <2>3. SchedulePrefetch(BumpEpoch(st), known)
    BY <1>10 DEF WatchdogWakes
  <2>4. BumpEpoch(st) \in States /\ BumpEpoch(st).inflight = st.inflight
    BY <1>1, StatesClosed
  <2> HIDE DEF known
  <2> QED BY <1>1, <2>2, <2>3, <2>4, ScheduledWithin
<1>11. ASSUME \/ Plan
              \/ RuntimeStarts
              \/ RuntimeStops
              \/ SwitchOff
              \/ ReleaseWaiting
              \/ (\E p \in Phrases : Push(p)) /\ UNCHANGED plannerVars
              \/ (\E ok \in BOOLEAN : PlayerEnds(ok)) /\ UNCHANGED plannerVars
              \/ (PumpChecks \/ BeginNext \/ PumpChecksChunk \/ PumpPlays \/ PumpRegisters \/
                  PumpHears \/ PlayerIdle \/ PlayerBusy \/ Deliver \/ ResetCancels \/
                  ResetStops \/ WatchdogBites \/ WindowCloses \/
                  RescueStops) /\ UNCHANGED plannerVars
              \/ UNCHANGED vars
      PROVE  CounterBound'
  <2>1. UNCHANGED st
    BY <1>11
    DEF Plan, RuntimeStarts, RuntimeStops, SwitchOff, Push, ReleaseWaiting, PumpChecks,
        BeginNext, PumpChecksChunk, PumpPlays, PumpRegisters, PumpHears, PlayerIdle,
        PlayerBusy, PlayerEnds, Deliver, ResetCancels, ResetStops, WatchdogBites, WindowCloses,
        RescueStops, AskReset, Asked, ClearQueue, vars, channelVars, plannerVars, queueVars,
        fetchVars, sinkVars
  <2> QED BY <2>1 DEF CounterBound
<1> QED
  BY <1>1, <1>2, <1>3, <1>4, <1>5, <1>6, <1>7, <1>8, <1>9, <1>10, <1>11 DEF Next, EnqueueStep,
  FetchStep, PumpStep, PlayerStep, ResetStep, RescueStep

\* The epoch moves no more often than the channel is upset.
LEMMA EpochKept == Types /\ PumpInv /\ EpochBound /\ [Next]_vars => EpochBound'
<1> SUFFICES ASSUME Types, PumpInv, EpochBound, [Next]_vars PROVE EpochBound'
  OBVIOUS
<1> DEFINE a == IF reset.pc = "bump" THEN 1 ELSE 0
           b == IF rescue.phrase # None THEN 1 ELSE 0
           c == IF reset'.pc = "bump" THEN 1 ELSE 0
           d == IF rescue'.phrase # None THEN 1 ELSE 0
<1>1. /\ items \in Seq(Phrases) /\ st \in States /\ audio \in Audio
      /\ fetches \in [Phrases -> Nat] /\ pump.phrase \in Phrases \union {None}
      /\ rescue \in [pc : {"none", "stop", "bump"}, phrase : Phrases \union {None}]
      /\ reset \in [pc : {"none", "bump", "cancel", "queue", "stop"}, off : BOOLEAN]
      /\ rescue.phrase \in Phrases \union {None} /\ st.epoch \in Nat /\ upsets \in Nat
      /\ upsets <= MaxUpsets /\ st.epoch + a + b <= upsets
  BY DEF Types, QueueType, StateType, States, PumpType, PumpRecords, TaskType, EpochBound, Owed
<1>2. ASSUME st'.epoch \in Nat, upsets' \in Nat, upsets' <= MaxUpsets, st'.epoch + c + d <= upsets'
      PROVE  EpochBound'
  BY <1>2 DEF EpochBound, Owed
<1>3. ASSUME st'.epoch = st.epoch, UNCHANGED <<reset, rescue, upsets>> PROVE EpochBound'
  BY <1>1, <1>2, <1>3
<1>4. ASSUME SwitchOn PROVE EpochBound'
  <2>1. st' \in {st, [st EXCEPT !.enabled = TRUE]} /\ UNCHANGED <<reset, rescue, upsets>>
    BY <1>4 DEF SwitchOn, Enable, channelVars
  <2>2. st'.epoch = st.epoch
    BY <1>1, <2>1 DEF States
  <2> QED BY <1>3, <2>1, <2>2
<1>5. ASSUME NEW p \in Phrases, ReleaseDropped(p) PROVE EpochBound'
  <2>1. Known(p) \in Audio
    BY <1>1 DEF Known, Audio
  <2>2. SchedulePrefetch(st, Known(p)) /\ UNCHANGED <<reset, rescue, upsets>>
    BY <1>5 DEF ReleaseDropped, Announce
  <2>3. st'.epoch = st.epoch
    BY <1>1, <2>1, <2>2, Scheduled
  <2> QED BY <1>3, <2>2, <2>3
<1>6. ASSUME NEW p \in Phrases, NEW result \in Fetched, FinishPrefetch(p, result), UNCHANGED plannerVars
      PROVE  EpochBound'
  <2> DEFINE n == IF st.inflight = 0 THEN 0 ELSE st.inflight - 1
  <2>1. st' = [st EXCEPT !.inflight = n] /\ UNCHANGED <<reset, rescue, upsets>>
    BY <1>6 DEF FinishPrefetch
  <2> HIDE DEF n
  <2>2. st'.epoch = st.epoch
    BY <1>1, <2>1 DEF States
  <2> QED BY <1>3, <2>1, <2>2
<1>7. ASSUME PumpClaims, UNCHANGED plannerVars PROVE EpochBound'
  <2>1. pump.phrase \in Phrases
    BY <1>1, <1>7 DEF PumpInv, PumpClaims, Resting
  <2> DEFINE known == [audio EXCEPT ![pump.phrase] = IF @ = "absent" THEN "pending" ELSE @]
             s == [st EXCEPT !.claim = TRUE]
  <2>2. known \in Audio /\ s \in States /\ s.epoch = st.epoch
    BY <1>1, <2>1 DEF Audio, States
  <2>3. SchedulePrefetch(s, known) /\ UNCHANGED <<reset, rescue, upsets>>
    BY <1>7 DEF PumpClaims
  <2> HIDE DEF known, s
  <2>4. st'.epoch = st.epoch
    BY <1>1, <2>2, <2>3, Scheduled
  <2> QED BY <1>3, <2>3, <2>4
<1>8. ASSUME PumpPolls, UNCHANGED plannerVars PROVE EpochBound'
  <2>1. st' \in {st, [st EXCEPT !.claim = FALSE]} /\ UNCHANGED <<reset, rescue, upsets>>
    BY <1>8 DEF PumpPolls, GiveUp
  <2>2. st'.epoch = st.epoch
    BY <1>1, <2>1 DEF States
  <2> QED BY <1>3, <2>1, <2>2
<1>9. ASSUME PumpStarts, UNCHANGED plannerVars PROVE EpochBound'
  <2>1. st' \in {[st EXCEPT !.speaking = TRUE, !.claim = FALSE], [st EXCEPT !.claim = FALSE]} /\ UNCHANGED <<reset, rescue, upsets>>
    BY <1>9 DEF PumpStarts, GiveUp
  <2>2. st'.epoch = st.epoch
    BY <1>1, <2>1 DEF States
  <2> QED BY <1>3, <2>1, <2>2
<1>10. ASSUME PumpFinishes, UNCHANGED plannerVars PROVE EpochBound'
  <2>1. pump.phrase \in Phrases /\ UNCHANGED <<reset, rescue, upsets>>
    BY <1>1, <1>10 DEF PumpInv, PumpFinishes, Resting
  <2> DEFINE known == [audio EXCEPT ![pump.phrase] = "absent"]
  <2>2. known \in Audio
    BY <1>1, <2>1 DEF Audio
  <2>3. Quiet(st) \in States /\ Quiet(st).epoch = st.epoch
    BY <1>1, StatesClosed
  <2>4. CASE SchedulePrefetch(Quiet(st), known)
    <3> HIDE DEF known
    <3>1. st'.epoch = st.epoch
      BY <1>1, <2>2, <2>3, <2>4, Scheduled
    <3> QED BY <1>3, <2>1, <3>1
  <2>5. CASE st' = Quiet(st)
    BY <1>3, <2>1, <2>3, <2>5
  <2> QED BY <1>10, <2>4, <2>5 DEF PumpFinishes
<1>11. ASSUME ResetBumps, UNCHANGED plannerVars PROVE EpochBound'
  <2>1. reset.pc = "bump" /\ reset'.pc # "bump" /\ UNCHANGED <<rescue, upsets>>
    BY <1>1, <1>11 DEF ResetBumps
  <2>2. st'.epoch \in {st.epoch, st.epoch + 1}
    <3>1. CASE reset.off /\ ~st.enabled
      BY <1>11, <3>1 DEF ResetBumps
    <3>2. CASE ~(reset.off /\ ~st.enabled)
      <4> DEFINE e == BumpEpoch(st)
      <4>1. e \in States /\ e.epoch = st.epoch + 1
        BY <1>1, StatesClosed
      <4>2. st' = [e EXCEPT !.inflight = 0, !.enabled = e.enabled /\ ~reset.off]
        BY <1>11, <3>2 DEF ResetBumps
      <4> HIDE DEF e
      <4> QED BY <4>1, <4>2 DEF States
    <3> QED BY <3>1, <3>2
  <2>3. a = 1 /\ c = 0 /\ d = b
    BY <2>1
  <2> HIDE DEF a, b, c, d
  <2>4. b \in Nat
    BY DEF b
  <2> DEFINE e == st.epoch
             f == st'.epoch
  <2>5. e \in Nat /\ f \in {e, e + 1} /\ upsets \in Nat /\ upsets <= MaxUpsets /\ e + a + b <= upsets
    BY <1>1, <2>2
  <2> HIDE DEF e, f
  <2>6. f \in Nat /\ f + c + d <= upsets
    BY <2>3, <2>4, <2>5
  <2> QED BY <1>2, <2>1, <2>5, <2>6 DEF f
<1>12. ASSUME WatchdogWakes, UNCHANGED plannerVars PROVE EpochBound'
  <2>1. /\ rescue.phrase \in Phrases /\ UNCHANGED <<reset, upsets>>
        /\ rescue' = NoTask
    BY <1>1, <1>12 DEF Types, TaskType, WatchdogWakes
  <2> DEFINE known == [audio EXCEPT ![rescue.phrase] = "absent"]
  <2>2. known \in Audio
    BY <1>1, <2>1 DEF Audio
  <2>3. SchedulePrefetch(BumpEpoch(st), known)
    BY <1>12 DEF WatchdogWakes
  <2>4. BumpEpoch(st) \in States /\ BumpEpoch(st).epoch = st.epoch + 1
    BY <1>1, StatesClosed
  <2> HIDE DEF known
  <2>5. st'.epoch = st.epoch + 1
    BY <1>1, <2>2, <2>3, <2>4, Scheduled
  <2>6. b = 1 /\ d = 0 /\ c = a
    BY <2>1 DEF NoTask
  <2>7. a \in Nat
    OBVIOUS
  <2> HIDE DEF a, b, c, d
  <2> QED BY <1>1, <1>2, <2>1, <2>5, <2>6, <2>7
<1>13. ASSUME RuntimeStops PROVE EpochBound'
  <2>1. /\ reset.pc = "none" /\ reset'.pc = "bump" /\ upsets < MaxUpsets /\ upsets' = upsets + 1
        /\ UNCHANGED <<st, rescue>>
    BY <1>13 DEF RuntimeStops, AskReset
  <2>2. a = 0 /\ c = 1 /\ d = b
    BY <2>1
  <2>3. b \in Nat
    OBVIOUS
  <2> HIDE DEF a, b, c, d
  <2> QED BY <1>1, <1>2, <2>1, <2>2, <2>3
<1>14. ASSUME SwitchOff PROVE EpochBound'
  <2>1. /\ reset.pc = "none" /\ reset'.pc = "bump" /\ upsets < MaxUpsets /\ upsets' = upsets + 1
        /\ UNCHANGED <<st, rescue>>
    BY <1>14 DEF SwitchOff, AskReset
  <2>2. a = 0 /\ c = 1 /\ d = b
    BY <2>1
  <2>3. b \in Nat
    OBVIOUS
  <2> HIDE DEF a, b, c, d
  <2> QED BY <1>1, <1>2, <2>1, <2>2, <2>3
<1>15. ASSUME ReleaseWaiting PROVE EpochBound'
  <2>1. reset.pc # "bump" /\ reset'.pc # "bump" /\ UNCHANGED <<st, rescue, upsets>>
    BY <1>1, <1>15 DEF ReleaseWaiting, ClearQueue
  <2> QED BY <1>1, <1>2, <2>1
<1>16. ASSUME ResetCancels, UNCHANGED plannerVars PROVE EpochBound'
  <2>1. reset.pc # "bump" /\ reset'.pc # "bump" /\ UNCHANGED <<st, rescue, upsets>>
    BY <1>1, <1>16 DEF ResetCancels
  <2> QED BY <1>1, <1>2, <2>1
<1>17. ASSUME ResetStops, UNCHANGED plannerVars PROVE EpochBound'
  <2>1. reset.pc # "bump" /\ reset'.pc # "bump" /\ UNCHANGED <<st, rescue, upsets>>
    BY <1>1, <1>17 DEF ResetStops
  <2> QED BY <1>1, <1>2, <2>1
<1>18. ASSUME WatchdogBites, UNCHANGED plannerVars PROVE EpochBound'
  <2>1. upsets < MaxUpsets /\ upsets' = upsets + 1 /\ UNCHANGED <<st, reset>>
    BY <1>18 DEF WatchdogBites
  <2>2. c = a /\ d <= b + 1
    BY <2>1
  <2>3. a \in Nat /\ b \in Nat /\ d \in Nat
    OBVIOUS
  <2> DEFINE e == st.epoch
  <2>4. e \in Nat /\ upsets \in Nat /\ e + a + b <= upsets
    BY <1>1
  <2> HIDE DEF a, b, c, d, e
  <2>5. e + c + d <= upsets + 1 /\ upsets + 1 \in Nat /\ upsets + 1 <= MaxUpsets
    BY <2>1, <2>2, <2>3, <2>4
  <2> QED BY <1>2, <2>1, <2>4, <2>5 DEF e
<1>19. ASSUME WindowCloses, UNCHANGED plannerVars PROVE EpochBound'
  <2>1. upsets < MaxUpsets /\ upsets' = upsets + 1 /\ UNCHANGED <<st, reset>>
    BY <1>19 DEF WindowCloses
  <2>2. c = a /\ d <= b + 1
    BY <2>1
  <2>3. a \in Nat /\ b \in Nat /\ d \in Nat
    OBVIOUS
  <2> DEFINE e == st.epoch
  <2>4. e \in Nat /\ upsets \in Nat /\ e + a + b <= upsets
    BY <1>1
  <2> HIDE DEF a, b, c, d, e
  <2>5. e + c + d <= upsets + 1 /\ upsets + 1 \in Nat /\ upsets + 1 <= MaxUpsets
    BY <2>1, <2>2, <2>3, <2>4
  <2> QED BY <1>2, <2>1, <2>4, <2>5 DEF e
<1>20. ASSUME RescueStops, UNCHANGED plannerVars PROVE EpochBound'
  <2>1. UNCHANGED <<st, reset, upsets>> /\ rescue'.phrase = rescue.phrase
    BY <1>1, <1>20 DEF RescueStops, NoTask
  <2> QED BY <1>1, <1>2, <2>1
<1>21. ASSUME \/ Plan
              \/ RuntimeStarts
              \/ (\E p \in Phrases : Push(p)) /\ UNCHANGED plannerVars
              \/ (\E ok \in BOOLEAN : PlayerEnds(ok)) /\ UNCHANGED plannerVars
              \/ (PumpChecks \/ BeginNext \/ PumpChecksChunk \/ PumpPlays \/ PumpRegisters \/
                  PumpHears \/ PlayerIdle \/ PlayerBusy \/ Deliver) /\ UNCHANGED plannerVars
              \/ UNCHANGED vars
      PROVE  EpochBound'
  <2>1. UNCHANGED <<st, reset, rescue, upsets>>
    BY <1>21
    DEF Plan, RuntimeStarts, Push, PumpChecks, BeginNext, PumpChecksChunk, PumpPlays,
        PumpRegisters, PumpHears, PlayerIdle, PlayerBusy, PlayerEnds, Deliver, Asked, vars,
        channelVars, plannerVars, queueVars, fetchVars, sinkVars
  <2> QED BY <2>1, <1>3
<1> QED
  BY <1>4, <1>5, <1>6, <1>7, <1>8, <1>9, <1>10, <1>11, <1>12, <1>13, <1>14, <1>15, <1>16,
     <1>17, <1>18, <1>19, <1>20, <1>21
  DEF Next, EnqueueStep, FetchStep, PumpStep, PlayerStep, ResetStep, RescueStep

-----------------------------------------------------------------------------
(* Theorems *)

\* The queue, the channel, the pump and the player, and what they keep between them.
SpeechInv ==
  /\ Types
  /\ PumpInv /\ LifeInv /\ KeysInv /\ VoiceInv
  /\ NoPhraseForgotten /\ Roused /\ NoFetchLeaked
  /\ LineBound /\ CounterBound /\ EpochBound

\* It holds when the application starts.
LEMMA SpeechStarts == Init => SpeechInv
<1> SUFFICES ASSUME Init PROVE SpeechInv
  OBVIOUS
<1> USE DEF Init, ChannelInit
<1>1. QueueType
  <2>1. <<>> \in Seq(Phrases)
    BY EmptySeq
  <2> QED BY <2>1 DEF QueueType
<1>2. StateType
  BY DEF StateType, States, Audio, Fetched
<1>3. TaskType
  BY DEF TaskType, NoTask
<1>4. PlayerType
  <2>1. <<>> \in Seq(Pieces \union {None}) /\ <<>> \in Seq(Endings)
    BY EmptySeq
  <2> QED BY <2>1 DEF PlayerType
<1>5. PumpType
  BY PumpShapes DEF PumpType
<1>6. pump.pc = "wait" /\ pump.phrase = None /\ pump.chunk = 0 /\ pump.epoch = 0
  BY DEF Asleep
<1>7. PumpInv
  BY <1>6 DEF PumpInv, Resting
<1>8. Waiting = {} /\ Sent = {}
  BY DEF Waiting, Sent, Ended, Elems
<1>9. \A p \in Phrases : enq[p].pc = "none" /\ enq[p].dropped = {} /\ ~Living(p)
  BY <1>6, <1>8 DEF Living, Apart
<1>10. LifeInv
  BY <1>8, <1>9 DEF LifeInv
<1>11. KeysInv
  BY <1>9 DEF KeysInv, KeysKnown
<1>12. VoiceInv
  BY DEF VoiceInv, Silent
<1>13. NoPhraseForgotten /\ Roused
  BY <1>6 DEF NoPhraseForgotten, Roused
<1>14. NoFetchLeaked
  <2>1. fetches \in [Phrases -> Nat] /\ st.inflight = 0
    OBVIOUS
  <2>2. Cardinality(Fetches) \in Nat
    BY <2>1, UnderFinite DEF Fetches, Under
  <2> QED BY <2>1, <2>2 DEF NoFetchLeaked
<1>15. LineBound /\ CounterBound /\ EpochBound
  BY DEF LineBound, CounterBound, EpochBound, Owed, NoTask
<1> QED BY <1>1, <1>2, <1>3, <1>4, <1>5, <1>7, <1>10, <1>11, <1>12, <1>13, <1>14, <1>15
        DEF SpeechInv, Types

\* Every step keeps it.
LEMMA SpeechKept == SpeechInv /\ [Next]_vars => SpeechInv'
<1> SUFFICES ASSUME SpeechInv, [Next]_vars PROVE SpeechInv'
  OBVIOUS
<1>1. /\ Types /\ PumpInv /\ LifeInv /\ KeysInv /\ VoiceInv /\ NoPhraseForgotten /\ Roused
      /\ NoFetchLeaked /\ LineBound /\ CounterBound /\ EpochBound
  BY DEF SpeechInv
<1>2. QueueType' /\ StateType' /\ TaskType' /\ PlayerType' /\ PumpType' /\ PumpInv'
  BY <1>1, QueueTypeKept, StateTypeKept, TaskTypeKept, PlayerTypeKept, PumpKept
<1>3. LifeInv' /\ KeysInv' /\ VoiceInv'
  BY <1>1, LifeKept, KeysKept, VoiceKept
<1>4. NoPhraseForgotten' /\ Roused' /\ NoFetchLeaked'
  BY <1>1, WakeKept, FetchKept
<1>5. LineBound' /\ CounterBound' /\ EpochBound'
  BY <1>1, LineKept, CounterKept, EpochKept
<1> QED BY <1>2, <1>3, <1>4, <1>5 DEF SpeechInv, Types

\* So it holds always.
LEMMA AlwaysSpeechInv == Spec => []SpeechInv
BY SpeechStarts, SpeechKept, PTL DEF Spec

\* Type correctness: the queue is never longer than a full one, no more fetches are counted than
\* the channel allows, and the epoch moves once for each upset at most.
THEOREM SpeechTypeCorrect == Spec => []SpeechTypeOK
<1>1. SpeechInv => SpeechTypeOK
  <2> SUFFICES ASSUME SpeechInv PROVE SpeechTypeOK
    OBVIOUS
  <2>1. /\ items \in Seq(Phrases) /\ current \in Phrases \union {None} /\ keys \in SUBSET Phrases
        /\ st \in States /\ fetches \in [Phrases -> Nat] /\ playing \in Pieces \union {None}
        /\ pump \in PumpRecords /\ upsets \in Nat
        /\ waiter \in [key : Pieces \union {None}, answer : {"none", "ok", "failed"}]
    BY DEF SpeechInv, Types, QueueType, StateType, TaskType, PlayerType, PumpType
  <2>2. st.inflight \in Nat /\ st.epoch \in Nat
    BY <2>1 DEF States
  <2>3. pump.phrase \in Phrases \union {None} /\ waiter.key \in Pieces \union {None}
    BY <2>1 DEF PumpRecords
  <2>4. st.inflight \in 0..PrefetchAhead
    BY <2>2 DEF SpeechInv, CounterBound
  <2>5. st.epoch \in 0..MaxUpsets
    <3>1. Owed \in Nat
      BY DEF Owed
    <3> QED BY <2>1, <2>2, <3>1 DEF SpeechInv, EpochBound
  <2> QED BY <2>1, <2>3, <2>4, <2>5 DEF SpeechTypeOK, SpeechInv, LineBound
<1> QED BY <1>1, AlwaysSpeechInv, PTL

\* Whatever resets, recoveries and wake-ups are mixed, the pump sleeps with an idle queue and no
\* flag up, no phrase waits for a pump that nobody will wake, and no fetch is counted for good.
THEOREM ChannelCanAlwaysSpeak == Spec => []NothingLeftBehind
<1>1. SpeechInv => NothingLeftBehind
  BY DEF SpeechInv, NothingLeftBehind, PumpLeavesNothing, PumpInv, Resting
<1> QED BY <1>1, AlwaysSpeechInv, PTL

\* A voice that is heard is that of the pump's phrase, or a stop for it is on its way.
THEOREM VoiceStaysCurrent == Spec => []VoiceIsCurrent
<1>1. SpeechInv => VoiceIsCurrent
  BY DEF SpeechInv, VoiceIsCurrent, VoiceInv, Silent, OneSent, Piece
<1> QED BY <1>1, AlwaysSpeechInv, PTL

\* Until something is reset, no line is planned again while it waits or is spoken.
THEOREM LinesAreSpokenOnce == Spec => []LineSpokenOnce
<1>1. SpeechInv => LineSpokenOnce
  <2> SUFFICES ASSUME SpeechInv, upsets = 0
               PROVE  /\ \A i, j \in DOMAIN items : i # j => items[i] # items[j]
                      /\ Waiting \union ({pump.phrase} \ {None}) \subseteq keys
    BY DEF LineSpokenOnce
  <2>1. Waiting \subseteq Phrases /\ pump.phrase \in Phrases \union {None}
    BY Leftovers DEF SpeechInv, Types, QueueType, PumpType, PumpRecords
  <2>2. \A p \in Phrases : Living(p) => p \in keys
    BY DEF SpeechInv, KeysInv, KeysKnown
  <2>3. \A p \in Waiting \union ({pump.phrase} \ {None}) : Living(p)
    BY DEF Living, Apart
  <2> QED BY <2>1, <2>2, <2>3 DEF SpeechInv, LifeInv
<1> QED BY <1>1, AlwaysSpeechInv, PTL

\* The line and the voice of Speaker are the queue and the pump's phrase.
SpeakerStep ==
  \/ \E p \in Phrases : Ordered!Join(p)
  \/ Ordered!Speak \/ Ordered!Fall \/ Ordered!Empty
  \/ UNCHANGED <<items, pump.phrase>>

\* Each step of the channel is one of the speaker, or none.
LEMMA StepsAreSpoken == Types /\ PumpInv /\ [Next]_vars => SpeakerStep
<1> SUFFICES ASSUME Types, PumpInv, [Next]_vars PROVE SpeakerStep
  OBVIOUS
<1>1. items \in Seq(Phrases) /\ pump \in PumpRecords
  BY DEF Types, QueueType, PumpType
<1>2. ASSUME UNCHANGED items, pump'.phrase = None PROVE SpeakerStep
  BY <1>2 DEF SpeakerStep, Ordered!Fall
<1>3. ASSUME UNCHANGED items, pump'.phrase = pump.phrase PROVE SpeakerStep
  BY <1>3 DEF SpeakerStep
<1>4. ASSUME NEW p \in Phrases, Push(p), UNCHANGED plannerVars PROVE SpeakerStep
  <2>1. items' = Append(AdaptiveDrop(items), p) /\ UNCHANGED pump
    BY <1>4 DEF Push
  <2>2. \E lost \in 0..Len(items) : AdaptiveDrop(items) = SubSeq(items, lost + 1, Len(items))
    BY <1>1, Cutting
  <2>3. Ordered!Join(p)
    BY <2>1, <2>2 DEF Ordered!Join
  <2> QED BY <2>3 DEF SpeakerStep
<1>5. ASSUME ReleaseWaiting PROVE SpeakerStep
  <2>1. items' = <<>> /\ UNCHANGED pump
    BY <1>5 DEF ReleaseWaiting, ClearQueue
  <2> QED BY <2>1 DEF SpeakerStep, Ordered!Empty
<1>6. ASSUME PumpChecks, UNCHANGED plannerVars PROVE SpeakerStep
  <2>1. /\ UNCHANGED items
        /\ pump' = Asleep \/ pump' = [pump EXCEPT !.pc = "begin", !.epoch = st.epoch]
    BY <1>6 DEF PumpChecks, queueVars
  <2>2. CASE pump' = Asleep
    BY <1>2, <2>1, <2>2 DEF Asleep
  <2>3. CASE pump' = [pump EXCEPT !.pc = "begin", !.epoch = st.epoch]
    <3>1. pump'.phrase = pump.phrase
      BY <1>1, <2>3 DEF PumpRecords
    <3> QED BY <1>3, <2>1, <3>1
  <2> QED BY <2>1, <2>2, <2>3
<1>7. ASSUME BeginNext, UNCHANGED plannerVars PROVE SpeakerStep
  <2>1. CASE current # None \/ items = <<>>
    <3>1. UNCHANGED items /\ pump'.phrase = None
      BY <1>7, <2>1 DEF BeginNext, queueVars, Asleep
    <3> QED BY <1>2, <3>1
  <2>2. CASE current = None /\ items # <<>>
    <3>1. pump.phrase = None
      BY <1>7 DEF BeginNext, PumpInv, Resting
    <3>2. items' = Tail(items) /\ pump'.phrase = Head(items)
      BY <1>7, <2>2, Taken DEF Begins
    <3> QED BY <2>2, <3>1, <3>2 DEF SpeakerStep, Ordered!Speak
  <2> QED BY <2>1, <2>2
<1>8. ASSUME PumpClaims, UNCHANGED plannerVars PROVE SpeakerStep
  <2>1. UNCHANGED items /\ pump'.phrase = pump.phrase
    BY <1>1, <1>8 DEF PumpClaims, At, PumpRecords, queueVars
  <2> QED BY <1>3, <2>1
<1>9. ASSUME PumpPolls, UNCHANGED plannerVars PROVE SpeakerStep
  <2>1. UNCHANGED items
    BY <1>9 DEF PumpPolls
  <2>2. CASE GiveUp
    <3>1. pump'.phrase = None
      BY <2>2 DEF GiveUp, Asleep
    <3> QED BY <1>2, <2>1, <3>1
  <2>3. CASE \E label \in {"start", "finish", "finish empty"} : At(label)
    <3>1. pump'.phrase = pump.phrase
      BY <1>1, <2>3 DEF At, PumpRecords
    <3> QED BY <1>3, <2>1, <3>1
  <2> QED BY <1>9, <2>2, <2>3 DEF PumpPolls
<1>10. ASSUME PumpStarts, UNCHANGED plannerVars PROVE SpeakerStep
  <2>1. UNCHANGED items
    BY <1>10 DEF PumpStarts
  <2>2. CASE GiveUp
    <3>1. pump'.phrase = None
      BY <2>2 DEF GiveUp, Asleep
    <3> QED BY <1>2, <2>1, <3>1
  <2>3. CASE pump' = [pump EXCEPT !.pc = "chunk", !.chunk = 1]
    <3>1. pump'.phrase = pump.phrase
      BY <1>1, <2>3 DEF PumpRecords
    <3> QED BY <1>3, <2>1, <3>1
  <2> QED BY <1>10, <2>2, <2>3 DEF PumpStarts
<1>11. ASSUME PumpChecksChunk, UNCHANGED plannerVars PROVE SpeakerStep
  <2>1. UNCHANGED items /\ pump'.phrase = pump.phrase
    BY <1>1, <1>11 DEF PumpChecksChunk, At, PumpRecords, queueVars
  <2> QED BY <1>3, <2>1
<1>12. ASSUME PumpPlays, UNCHANGED plannerVars PROVE SpeakerStep
  <2>1. UNCHANGED items /\ pump'.phrase = pump.phrase
    BY <1>1, <1>12 DEF PumpPlays, At, PumpRecords, queueVars
  <2> QED BY <1>3, <2>1
<1>13. ASSUME PumpRegisters, UNCHANGED plannerVars PROVE SpeakerStep
  <2>1. UNCHANGED items /\ pump'.phrase = pump.phrase
    BY <1>1, <1>13 DEF PumpRegisters, At, PumpRecords, queueVars
  <2> QED BY <1>3, <2>1
<1>14. ASSUME PumpHears, UNCHANGED plannerVars PROVE SpeakerStep
  <2>1. /\ UNCHANGED items
        /\ pump' \in {[pump EXCEPT !.pc = "chunk", !.chunk = @ + 1], [pump EXCEPT !.pc = "finish"]}
    BY <1>14 DEF PumpHears, queueVars
  <2>2. pump'.phrase = pump.phrase
    BY <1>1, <2>1 DEF PumpRecords
  <2> QED BY <1>3, <2>1, <2>2
<1>15. ASSUME PumpFinishes, UNCHANGED plannerVars PROVE SpeakerStep
  <2>1. UNCHANGED items /\ pump'.phrase = None
    BY <1>15 DEF PumpFinishes, Asleep
  <2> QED BY <1>2, <2>1
<1>16. ASSUME \/ Plan
              \/ RuntimeStarts
              \/ RuntimeStops
              \/ SwitchOff
              \/ SwitchOn
              \/ \E p \in Phrases : ReleaseDropped(p)
              \/ (\E p \in Phrases, result \in Fetched : FinishPrefetch(p, result)) /\ UNCHANGED plannerVars
              \/ (\E ok \in BOOLEAN : PlayerEnds(ok)) /\ UNCHANGED plannerVars
              \/ (PlayerIdle \/ PlayerBusy \/ Deliver \/ ResetBumps \/ ResetCancels \/
                  ResetStops \/ WatchdogBites \/ WindowCloses \/ RescueStops \/
                  WatchdogWakes) /\ UNCHANGED plannerVars
              \/ UNCHANGED vars
      PROVE  SpeakerStep
  <2>1. UNCHANGED <<items, pump>>
    BY <1>16
    DEF Plan, RuntimeStarts, RuntimeStops, SwitchOff, SwitchOn, ReleaseDropped, FinishPrefetch,
        PlayerIdle, PlayerBusy, PlayerEnds, Deliver, ResetBumps, ResetCancels, ResetStops,
        WatchdogBites, WindowCloses, RescueStops, WatchdogWakes, Announce, AskReset, Asked,
        Enable, SchedulePrefetch, vars, channelVars, plannerVars, queueVars, fetchVars,
        sinkVars
  <2> QED BY <2>1, <1>3
<1> QED
  BY <1>4, <1>5, <1>6, <1>7, <1>8, <1>9, <1>10, <1>11, <1>12, <1>13, <1>14, <1>15, <1>16
  DEF Next, EnqueueStep, FetchStep, PumpStep, PlayerStep, ResetStep, RescueStep

\* The channel implements Speaker: phrases are spoken one at a time in the order of the queue,
\* which loses only its oldest ones, or all.
THEOREM ChannelSpeaksInOrder == Spec => SpeaksInOrder
<1>1. Init => Ordered!SpeakerInit
  BY DEF Init, ChannelInit, Asleep, Ordered!SpeakerInit
<1>2. SpeechInv /\ [Next]_vars =>
        [(\E p \in Phrases : Ordered!Join(p)) \/ Ordered!Speak \/ Ordered!Fall
          \/ Ordered!Empty]_(Ordered!speakerVars)
  BY StepsAreSpoken DEF SpeechInv, SpeakerStep, Ordered!speakerVars
<1> QED BY <1>1, <1>2, AlwaysSpeechInv, PTL DEF Spec, SpeaksInOrder, Ordered!SpeakerSpec
=================================================================================
