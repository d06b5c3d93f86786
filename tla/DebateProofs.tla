----------------------------- MODULE DebateProofs -----------------------------
(***************************************************************************)
(* Proofs about Debate: its types, that nobody's words are invented or     *)
(* taken from another round, and that no turn is recorded twice.           *)
(***************************************************************************)
EXTENDS Debate, WellFoundedInduction, TLAPS

LEMMA AppendFacts ==
    ASSUME NEW S, NEW list \in Seq(S), NEW v \in S
    PROVE  /\ Append(list, v) \in Seq(S)
           /\ Len(Append(list, v)) = Len(list) + 1
           /\ \A i \in DOMAIN Append(list, v) :
                \/ i \in DOMAIN list /\ Append(list, v)[i] = list[i]
                \/ Append(list, v)[i] = v
OBVIOUS

\* What an answered turn adds to a list.
Honest(msg) == msg.by \in Pushers /\ msg.what # "silent" => Answer(msg.by, msg.round) \in accepted

LEMMA AppendOwn ==
    ASSUME NEW list \in Seq(Messages), NEW msg \in Messages, Own(list), Honest(msg)
    PROVE  Own(Append(list, msg))
<1>1. \A i \in DOMAIN Append(list, msg) :
          \/ i \in DOMAIN list /\ Append(list, msg)[i] = list[i]
          \/ Append(list, msg)[i] = msg
  BY AppendFacts
<1>2. QED
  BY <1>1 DEF Own, Honest

LEMMA OwnStays ==
    ASSUME NEW list, Own(list), accepted \subseteq accepted'
    PROVE  Own(list)'
BY DEF Own

\* The types of what an executor has, and of the rest.
LEMMA Types ==
    ASSUME TypeOK
    PROVE  /\ roster \in Seq(Agents) /\ messages \in Seq(Messages)
           /\ at \in [Runs -> Places]
           /\ turn \in [Runs -> (0..Rounds) \X (0..MaxParticipants)]
           /\ order \in [Runs -> Seq(Agents)] /\ mine \in [Runs -> Seq(Messages)]
           /\ fresh \in [Runs -> BOOLEAN] /\ known \in [Runs -> Statuses]
           /\ req \in [Requests -> Calls]
BY DEF TypeOK

LEMMA FaultCounts ==
    ASSUME TypeOK, Fault
    PROVE  faults' \in 0..MaxFaults
BY DebateAssumption DEF TypeOK, Fault

-------------------------------------------------------------------------------
(* Turns.                                                                    *)

\* A turn is passed on within the order that the executor read.
LEMMA PassOnTypes ==
    ASSUME TypeOK, TurnsAreTaken, NEW x \in Runs, at[x] \in Taking, PassOn(x)
    PROVE  /\ turn' \in [Runs -> (0..Rounds) \X (0..MaxParticipants)]
           /\ at' \in [Runs -> Places]
           /\ at'[x] \in {"turn", "round"}
           /\ at'[x] = "turn" => turn'[x][1] \in 1..Rounds /\ turn'[x][2] \in 1..Len(order[x])
           /\ \A y \in Runs \ {x} : at'[y] = at[y] /\ turn'[y] = turn[y]
<1>1. /\ turn[x][1] \in 1..Rounds /\ turn[x][2] \in 1..Len(order[x])
      /\ Len(order[x]) \in 1..MaxParticipants
  BY DEF TurnsAreTaken, Taking, Closed
<1> DEFINE next == <<turn[x][1], turn[x][2] + 1>>
           none == <<turn[x][1], 0>>
<1>2. CASE turn[x][2] < Len(order[x])
  <2>1. next \in (0..Rounds) \X (0..MaxParticipants) /\ next[1] = turn[x][1] /\ next[2] \in 1..Len(order[x])
    BY <1>1, <1>2, DebateAssumption
  <2>2. turn' = [turn EXCEPT ![x] = next] /\ at' = [at EXCEPT ![x] = "turn"]
    BY <1>2 DEF PassOn
  <2> HIDE DEF next
  <2>3. QED
    BY <1>1, <2>1, <2>2, Types DEF Places
<1>3. CASE ~(turn[x][2] < Len(order[x]))
  <2>1. none \in (0..Rounds) \X (0..MaxParticipants)
    BY <1>1, DebateAssumption
  <2>2. turn' = [turn EXCEPT ![x] = none] /\ at' = [at EXCEPT ![x] = "round"]
    BY <1>3 DEF PassOn
  <2> HIDE DEF none
  <2>3. QED
    BY <2>1, <2>2, Types DEF Places
<1>4. QED
  BY <1>2, <1>3

LEMMA SpeakerSpeaks ==
    ASSUME TypeOK, TurnsAreTaken, NEW x \in Runs, at[x] \in Taking
    PROVE  Speaker(x) \in Agents /\ turn[x][1] \in 1..Rounds + 1
<1>1. turn[x][2] \in 1..Len(order[x]) /\ order[x] \in Seq(Agents) /\ turn[x][1] \in 1..Rounds
  BY Types DEF TurnsAreTaken
<1>2. QED
  BY <1>1, DebateAssumption DEF Speaker

\* A debate with an executor at work is not pending.
LEMMA WorkIsNoPending ==
    ASSUME PendingIsQuiet, NEW x \in Runs, at[x] \notin {"idle", "starting", "cut"}
    PROVE  status # "pending"
BY DEF PendingIsQuiet

\* A message is recorded.
LEMMA RecordKeepsInv ==
    ASSUME DebateInv, NEW x \in Runs, at[x] \in Taking, NEW what \in {"said", "heard", "silent"},
           Speaker(x) \in Pushers /\ what # "silent" => Answer(Speaker(x), turn[x][1]) \in accepted,
           Record(x, what), faults' \in 0..MaxFaults
    PROVE  DebateInv'
<1> DEFINE msg == [by |-> Speaker(x), round |-> turn[x][1], what |-> what]
<1>0. /\ TypeOK /\ TurnsAreTaken /\ RequestsFit /\ PendingIsQuiet /\ ListsAreOwn /\ WordsAreOwn
      /\ status # "pending"
  BY WorkIsNoPending DEF DebateInv, Taking
<1>1. msg \in Messages /\ Honest(msg)
  BY <1>0, SpeakerSpeaks DEF Messages, Honest
<1>2. /\ mine' = [mine EXCEPT ![x] = Append(mine[x], msg)]
      /\ messages' = (IF fresh[x] THEN Append(mine[x], msg) ELSE messages)
      /\ fresh' = [fresh EXCEPT ![x] = FALSE]
      /\ PassOn(x)
      /\ UNCHANGED <<status, round, roster, order, known, req, calls, accepted, early>>
  BY DEF Record, Saved, callVars
<1> HIDE DEF msg
<1>3. Append(mine[x], msg) \in Seq(Messages)
  BY <1>0, <1>1, Types, AppendFacts
<1>4. TypeOK'
  BY <1>0, <1>2, <1>3, PassOnTypes DEF TypeOK
<1>5. TurnsAreTaken'
  BY <1>0, <1>2, PassOnTypes DEF TurnsAreTaken, Taking, Closed
<1>6. RequestsFit' /\ PendingIsQuiet'
  BY <1>0, <1>2, PassOnTypes DEF RequestsFit, PendingIsQuiet
<1>7. Own(Append(mine[x], msg))
  BY <1>0, <1>1, Types, AppendOwn DEF ListsAreOwn
<1>8. \A y \in Runs : Own(mine'[y])
  BY <1>0, <1>2, <1>7, Types DEF ListsAreOwn
<1>9. WordsAreOwn'
  <2>1. Own(messages')
    BY <1>0, <1>2, <1>7 DEF WordsAreOwn
  <2>2. QED
    BY <1>2, <2>1 DEF WordsAreOwn, Own
<1>10. ListsAreOwn'
  <2>1. \A y \in Runs : at'[y] = "heard" => Answer(Speaker(y)', turn'[y][1]) \in accepted
    BY <1>0, <1>2, PassOnTypes DEF ListsAreOwn, Speaker
  <2>2. QED
    BY <1>0, <1>2, <1>8, <2>1 DEF ListsAreOwn, Own
<1>11. QED
  BY <1>4, <1>5, <1>6, <1>9, <1>10 DEF DebateInv

-------------------------------------------------------------------------------
(* The executor's other steps.                                               *)

LEMMA Parts ==
    ASSUME DebateInv
    PROVE  TypeOK /\ TurnsAreTaken /\ RequestsFit /\ PendingIsQuiet /\ ListsAreOwn /\ WordsAreOwn
BY DEF DebateInv

LEMMA StartKeepsInv ==
    ASSUME DebateInv, NEW x \in Runs, Start(x)
    PROVE  DebateInv'
<1> USE Parts
<1>1. /\ at' = [at EXCEPT ![x] = "starting"]
      /\ order' = [order EXCEPT ![x] = roster]
      /\ mine' = [mine EXCEPT ![x] = messages]
      /\ early' = early \cup TurnsOf(messages)
      /\ UNCHANGED <<row, turn, fresh, known, req, calls, accepted, faults>>
      /\ at[x] = "idle" /\ status = "pending"
  BY DEF Start, callVars
<1>2. TurnsOf(messages) \subseteq External \X (1..Rounds + 1)
  <2>1. \A i \in DOMAIN messages : messages[i] \in Messages /\ messages[i].by \in External
    BY <1>1, Types DEF PendingIsQuiet, ByExternal
  <2>2. QED
    BY <2>1 DEF TurnsOf, Answer, Messages
<1>3. TypeOK'
  BY <1>1, <1>2 DEF TypeOK, row, Places
<1>4. TurnsAreTaken'
  BY <1>1, DebateAssumption DEF TurnsAreTaken, TypeOK, row, Taking, Closed
<1>5. RequestsFit' /\ PendingIsQuiet'
  BY <1>1, Types DEF RequestsFit, PendingIsQuiet, ByExternal, row
<1>6. ListsAreOwn'
  <2>1. \A y \in Runs : Own(mine'[y])
    BY <1>1, Types DEF ListsAreOwn, WordsAreOwn
  <2>2. \A y \in Runs : at'[y] = "heard" => at[y] = "heard" /\ Speaker(y)' = Speaker(y)
    BY <1>1, Types DEF Speaker
  <2>3. QED
    BY <1>1, <2>1, <2>2 DEF ListsAreOwn, Own
<1>7. WordsAreOwn'
  BY <1>1 DEF WordsAreOwn, Own, row
<1>8. QED
  BY <1>3, <1>4, <1>5, <1>6, <1>7 DEF DebateInv

\* A status is assigned: the row's stays or is one that is not pending.
LEMMA SetStatusTypes ==
    ASSUME TypeOK, NEW x \in Runs, NEW s \in Statuses \ {"pending"}, SetStatus(x, s),
           status # "pending" \/ known[x] # s
    PROVE  /\ status' \in Statuses \ {"pending"}
           /\ known' \in [Runs -> Statuses]
           /\ \A y \in Runs \ {x} : known'[y] = known[y]
BY DEF SetStatus, Assigned, TypeOK

\* An executor goes on without touching lists, and not to a turn.
LEMMA MoveKeepsInv ==
    ASSUME DebateInv, NEW x \in Runs, at[x] \notin Closed,
           NEW place \in {"round", "verdict"},
           at' = [at EXCEPT ![x] = place],
           status' \in Statuses \ {"pending"}, known' \in [Runs -> Statuses],
           \A y \in Runs \ {x} : known'[y] = known[y],
           UNCHANGED <<round, roster, messages, turn, order, mine, fresh, callVars, histVars>>
    PROVE  DebateInv'
<1> USE Parts
<1>1. UNCHANGED <<req, calls, accepted, early, faults>>
  BY DEF callVars, histVars
<1>2. \A y \in Runs : at'[y] = at[y] \/ (y = x /\ at'[y] \notin Taking /\ at'[y] \notin Closed)
  BY Types DEF Taking, Closed
<1>3. TypeOK'
  BY <1>1, Types DEF TypeOK, Places
<1>4. TurnsAreTaken' /\ RequestsFit'
  BY <1>1, <1>2 DEF TurnsAreTaken, RequestsFit
<1>5. ListsAreOwn' /\ WordsAreOwn'
  BY <1>1, <1>2 DEF ListsAreOwn, WordsAreOwn, Own, Speaker, Taking
<1>6. PendingIsQuiet'
  <2>1. at'[x] = place /\ \A y \in Runs \ {x} : at'[y] = at[y]
    BY Types
  <2>2. QED
    BY <2>1 DEF PendingIsQuiet
<1>7. QED
  BY <1>3, <1>4, <1>5, <1>6 DEF DebateInv

LEMMA BeginRoundKeepsInv ==
    ASSUME DebateInv, NEW x \in Runs, BeginRound(x)
    PROVE  DebateInv'
<1> USE Parts
<1> DEFINE first == <<turn[x][1] + 1, 1>>
<1>1. /\ at[x] = "round" /\ turn[x][1] < Rounds
      /\ round' = turn[x][1] + 1
      /\ turn' = [turn EXCEPT ![x] = first]
      /\ at' = [at EXCEPT ![x] = "turn"]
      /\ UNCHANGED <<status, roster, messages, order, mine, fresh, known, req, calls, accepted, early,
                     faults>>
  BY DEF BeginRound, callVars, histVars
<1>2. /\ turn[x] \in (0..Rounds) \X (0..MaxParticipants)
      /\ Len(order[x]) \in 1..MaxParticipants
  BY <1>1, Types DEF TurnsAreTaken, Closed
<1>3. /\ first \in (0..Rounds) \X (0..MaxParticipants)
      /\ first[1] \in 1..Rounds /\ first[2] \in 1..Len(order[x])
      /\ round' \in 0..Rounds
  BY <1>1, <1>2, DebateAssumption
<1> HIDE DEF first
<1>4. TypeOK'
  BY <1>1, <1>3, Types DEF TypeOK, Places
<1>5. /\ \A y \in Runs \ {x} : at'[y] = at[y] /\ turn'[y] = turn[y]
      /\ at'[x] = "turn" /\ turn'[x] = first
  BY <1>1, Types
<1>6. TurnsAreTaken'
  BY <1>1, <1>2, <1>3, <1>5 DEF TurnsAreTaken, Taking, Closed
<1>7. RequestsFit' /\ PendingIsQuiet'
  BY <1>1, <1>5, WorkIsNoPending DEF RequestsFit, PendingIsQuiet
<1>8. ListsAreOwn' /\ WordsAreOwn'
  BY <1>1, <1>5 DEF ListsAreOwn, WordsAreOwn, Own, Speaker
<1>9. QED
  BY <1>4, <1>6, <1>7, <1>8 DEF DebateInv

LEMMA SkipKeepsInv ==
    ASSUME DebateInv, NEW x \in Runs, Skip(x)
    PROVE  DebateInv'
<1> USE Parts
<1>1. /\ at[x] = "turn" /\ at[x] \in Taking
      /\ PassOn(x) /\ faults' \in 0..MaxFaults
      /\ UNCHANGED <<status, round, roster, messages, order, mine, fresh, known, req, calls, accepted,
                     early>>
  BY FaultCounts DEF Skip, row, callVars, Taking
<1>2. TypeOK'
  BY <1>1, PassOnTypes DEF TypeOK
<1>3. TurnsAreTaken'
  BY <1>1, PassOnTypes DEF TurnsAreTaken, Taking, Closed
<1>4. RequestsFit' /\ PendingIsQuiet'
  BY <1>1, PassOnTypes, WorkIsNoPending DEF RequestsFit, PendingIsQuiet
<1>5. ListsAreOwn' /\ WordsAreOwn'
  BY <1>1, PassOnTypes DEF ListsAreOwn, WordsAreOwn, Own, Speaker
<1>6. QED
  BY <1>2, <1>3, <1>4, <1>5 DEF DebateInv

\* The first of some numbers is one of them.
LEMMA FirstIsOne ==
    ASSUME NEW S \in SUBSET Nat, S # {}
    PROVE  First(S) \in S
<1> DEFINE Less == {p \in Nat \X Nat : p[1] < p[2]}
<1>1. IsWellFoundedOn(Less, Nat)
  BY NatLessThanWellFounded, Zenon DEF OpToRel
<1>2. PICK i \in S : \A j \in S : ~(<<j, i>> \in Less)
  BY <1>1, WFMin
<1>3. \A j \in S : j < i => <<j, i>> \in Less
  OBVIOUS
<1> HIDE DEF Less
<1>4. \A j \in S : ~(j < i)
  BY <1>2, <1>3
<1>5. \A j \in S : i <= j
  BY <1>4
<1>6. QED
  BY <1>5, Zenon DEF First

LEMMA PollKeepsInv ==
    ASSUME DebateInv, NEW x \in Runs, Poll(x)
    PROVE  DebateInv'
<1> USE Parts
<1>1. /\ at[x] = "turn" /\ Speaker(x) \in Pushers
      /\ fresh' = [fresh EXCEPT ![x] = TRUE]
      /\ known' = [known EXCEPT ![x] = status]
      /\ UNCHANGED <<status, round, roster, messages, turn, order, mine, req, calls, accepted, early,
                     faults>>
  BY DEF Poll, row, callVars, histVars
<1>2. PICK place \in Taking : at' = [at EXCEPT ![x] = place]
  BY <1>1, Types DEF Poll, Taking
<1>3. at'[x] = "heard" => Answer(Speaker(x), turn[x][1]) \in accepted
  <2>1. SUFFICES ASSUME at'[x] = "heard"
                 PROVE  Answer(Speaker(x), turn[x][1]) \in accepted
    OBVIOUS
  <2> DEFINE i == First(AnswersTo(x))
  <2>2. AnswersTo(x) # {} /\ messages[i].what # "silent"
    BY <1>1, <2>1, Types DEF Poll
  <2>3. i \in AnswersTo(x)
    <3>1. AnswersTo(x) \in SUBSET Nat
      BY Types DEF AnswersTo
    <3>2. QED
      BY <2>2, <3>1, FirstIsOne
  <2>4. /\ i \in DOMAIN messages
        /\ messages[i].by = Speaker(x) /\ messages[i].round = turn[x][1]
    BY <2>3 DEF AnswersTo
  <2> HIDE DEF i
  <2>5. QED
    BY <1>1, <2>2, <2>4 DEF WordsAreOwn, Own
<1>4. \A y \in Runs \ {x} : at'[y] = at[y]
  BY <1>2, Types
<1>5. TypeOK'
  BY <1>1, <1>2, Types DEF TypeOK, Places, Taking
<1>6. TurnsAreTaken'
  BY <1>1, <1>2, <1>4, Types DEF TurnsAreTaken, Taking, Closed
<1>7. RequestsFit' /\ PendingIsQuiet'
  <2>1. \A y \in Runs \ {x} : known'[y] = known[y]
    BY <1>1, Types
  <2>2. QED
    BY <1>1, <1>2, <1>4, <2>1, Types, WorkIsNoPending DEF RequestsFit, PendingIsQuiet, Taking
<1>8. ListsAreOwn' /\ WordsAreOwn'
  BY <1>1, <1>3, <1>4 DEF ListsAreOwn, WordsAreOwn, Own, Speaker
<1>9. QED
  BY <1>5, <1>6, <1>7, <1>8 DEF DebateInv

\* The executor's local state is gone.
LEMMA CloseKeepsInv ==
    ASSUME DebateInv, NEW x \in Runs, NEW place \in {"ended", "cut"}, Close(x, place),
           messages' \in Seq(Messages), Own(messages'),
           \/ status' \in Statuses \ {"pending"}
           \/ UNCHANGED <<status, messages>> /\ place = "cut",
           faults' \in 0..MaxFaults,
           UNCHANGED <<round, roster, callVars, early>>
    PROVE  DebateInv'
<1> USE Parts
<1>1. /\ at' = [at EXCEPT ![x] = place]
      /\ turn' = [turn EXCEPT ![x] = <<0, 0>>]
      /\ order' = [order EXCEPT ![x] = <<>>]
      /\ mine' = [mine EXCEPT ![x] = <<>>]
      /\ fresh' = [fresh EXCEPT ![x] = TRUE]
      /\ known' = [known EXCEPT ![x] = "pending"]
      /\ UNCHANGED <<req, calls, accepted, early>>
  BY DEF Close, callVars
<1>2. /\ at'[x] = place
      /\ \A y \in Runs \ {x} : /\ at'[y] = at[y] /\ turn'[y] = turn[y] /\ order'[y] = order[y]
                               /\ mine'[y] = mine[y] /\ known'[y] = known[y]
      /\ Own(mine'[x])
  BY <1>1, Types DEF Own
<1>3. TypeOK'
  <2>1. <<0, 0>> \in (0..Rounds) \X (0..MaxParticipants)
    BY DebateAssumption
  <2>2. turn' \in [Runs -> (0..Rounds) \X (0..MaxParticipants)]
    BY <1>1, <2>1, Types
  <2>3. status' \in Statuses
    BY DEF TypeOK
  <2>4. at' \in [Runs -> Places] /\ known' \in [Runs -> Statuses]
    BY <1>1, Types DEF Places, Statuses
  <2>5. order' \in [Runs -> Seq(Agents)] /\ mine' \in [Runs -> Seq(Messages)]
    BY <1>1, Types
  <2>6. QED
    BY <1>1, <2>2, <2>3, <2>4, <2>5 DEF TypeOK
<1>4. TurnsAreTaken' /\ RequestsFit'
  BY <1>1, <1>2 DEF TurnsAreTaken, RequestsFit, Taking, Closed
<1>5. PendingIsQuiet'
  BY <1>1, <1>2 DEF PendingIsQuiet
<1>6. ListsAreOwn' /\ WordsAreOwn'
  BY <1>1, <1>2 DEF ListsAreOwn, WordsAreOwn, Own, Speaker
<1>7. QED
  BY <1>3, <1>4, <1>5, <1>6 DEF DebateInv

LEMMA CompleteKeepsInv ==
    ASSUME DebateInv, NEW x \in Runs, Complete(x)
    PROVE  DebateInv'
<1> USE Parts
<1>1. /\ status' = Assigned(x, "completed")
      /\ Close(x, "ended")
      /\ messages' \in {Saved(x, Verdict), messages}
      /\ UNCHANGED <<round, roster, callVars, early, faults>>
      /\ at[x] \in {"round", "verdict"}
  BY DEF Complete, RoundsOver, histVars
<1>2. Verdict \in Messages /\ Honest(Verdict)
  BY DebateAssumption DEF Verdict, Messages, Honest, Agents, External
<1>3. Append(mine[x], Verdict) \in Seq(Messages) /\ Own(Append(mine[x], Verdict))
  BY <1>2, Types, AppendFacts, AppendOwn DEF ListsAreOwn
<1>4. messages' \in Seq(Messages) /\ Own(messages')
  BY <1>1, <1>3, Types DEF Saved, WordsAreOwn
<1>5. status' \in Statuses \ {"pending"}
  BY <1>1, WorkIsNoPending DEF Assigned, TypeOK, Statuses
<1>6. faults' \in 0..MaxFaults
  BY <1>1 DEF TypeOK
<1>7. QED
  BY <1>1, <1>4, <1>5, <1>6, CloseKeepsInv

LEMMA CutKeepsInv ==
    ASSUME DebateInv, NEW x \in Runs, Cut(x)
    PROVE  DebateInv'
<1>1. /\ Close(x, "cut") /\ faults' \in 0..MaxFaults
      /\ UNCHANGED <<status, messages, round, roster, callVars, early>>
  BY Parts, FaultCounts DEF Cut, row
<1>2. messages' \in Seq(Messages) /\ Own(messages')
  BY <1>1, Parts, Types DEF WordsAreOwn
<1>3. QED
  BY <1>1, <1>2, CloseKeepsInv

LEMMA RunKeepsInv ==
    ASSUME DebateInv, NEW x \in Runs, RunStep(x)
    PROVE  DebateInv'
<1> USE Parts
<1>1. CASE Open(x)
  <2>1. at[x] = "starting" /\ SetStatus(x, "active") /\ known[x] # "active"
    BY <1>1 DEF Open, PendingIsQuiet
  <2>2. /\ status' \in Statuses \ {"pending"} /\ known' \in [Runs -> Statuses]
        /\ \A y \in Runs \ {x} : known'[y] = known[y]
    BY <2>1, SetStatusTypes DEF Statuses
  <2>3. QED
    BY <1>1, <2>1, <2>2, MoveKeepsInv DEF Open, Closed
<1>2. CASE Synthesize(x)
  <2>1. at[x] = "round" /\ SetStatus(x, "synthesizing") /\ status # "pending"
    BY <1>2, WorkIsNoPending DEF Synthesize, RoundsOver
  <2>2. /\ status' \in Statuses \ {"pending"} /\ known' \in [Runs -> Statuses]
        /\ \A y \in Runs \ {x} : known'[y] = known[y]
    BY <2>1, SetStatusTypes DEF Statuses
  <2>3. QED
    BY <1>2, <2>1, <2>2, MoveKeepsInv DEF Synthesize, Closed
<1>3. CASE Speak(x)
  <2>1. /\ at[x] \in Taking /\ Record(x, "said") /\ Speaker(x) \notin Pushers
        /\ faults' \in 0..MaxFaults
    BY <1>3 DEF Speak, Taking, External, TypeOK
  <2>2. QED
    BY <2>1, RecordKeepsInv
<1>4. CASE Callback(x)
  <2>1. /\ at[x] \in Taking
        /\ Record(x, "heard") \/ Record(x, "silent")
        /\ Speaker(x) \notin Pushers /\ faults' \in 0..MaxFaults
    BY <1>4, FaultCounts, DebateAssumption DEF Callback, Taking, TypeOK
  <2>2. QED
    BY <1>4, <2>1, RecordKeepsInv DEF Callback, Taking
<1>5. CASE RecordAnswer(x)
  <2>1. /\ at[x] \in Taking /\ Record(x, at[x]) /\ at[x] \in {"heard", "silent"}
        /\ at[x] # "silent" => Answer(Speaker(x), turn[x][1]) \in accepted
        /\ faults' \in 0..MaxFaults
    BY <1>5 DEF RecordAnswer, Taking, ListsAreOwn, TypeOK
  <2>2. CASE at[x] = "heard"
    BY <2>1, <2>2, RecordKeepsInv
  <2>3. CASE at[x] = "silent"
    BY <2>1, <2>3, RecordKeepsInv
  <2>4. QED
    BY <2>1, <2>2, <2>3
<1>6. QED
  BY <1>1, <1>2, <1>3, <1>4, <1>5, BeginRoundKeepsInv, SkipKeepsInv, PollKeepsInv, CompleteKeepsInv
     DEF RunStep

-------------------------------------------------------------------------------
(* The other requests.                                                       *)

\* A request is made: what it has read fits what it will write.
LEMMA AskKeepsInv ==
    ASSUME DebateInv, NEW q \in Requests, NEW op \in {"join", "respond", "stop", "edit"},
           NEW who \in External \cup {None}, NEW r \in 0..Rounds + 1,
           NEW seen \in Seq(Messages) \cup Seq(Agents), Ask(q, op, who, r, seen),
           op = "join" => who \in External /\ seen = roster /\ Len(roster) < MaxParticipants,
           op = "respond" => who \in External /\ r \in 1..Rounds + 1 /\ seen = messages
    PROVE  DebateInv'
<1> USE Parts
<1> DEFINE asked == [op |-> op, who |-> who, round |-> r, seen |-> seen]
<1>1. /\ req' = [req EXCEPT ![q] = asked]
      /\ calls' \in 0..MaxCalls
      /\ UNCHANGED <<status, round, roster, messages, at, turn, order, mine, fresh, known, accepted,
                     early, faults>>
  BY DebateAssumption DEF Ask, TypeOK, row, runVars, histVars
<1>2. asked \in Calls
  BY DEF Calls, Agents
<1>3. asked.op = op /\ asked.who = who /\ asked.round = r /\ asked.seen = seen
  OBVIOUS
<1> HIDE DEF asked
<1>4. \A p \in Requests : req'[p] = IF p = q THEN asked ELSE req[p]
  BY <1>1, Types
<1>5. TypeOK'
  BY <1>1, <1>2 DEF TypeOK
<1>6. TurnsAreTaken'
  BY <1>1 DEF TurnsAreTaken
<1>7. RequestsFit'
  BY <1>1, <1>3, <1>4, Types DEF RequestsFit
<1>8. PendingIsQuiet'
  BY <1>1, <1>3, <1>4 DEF PendingIsQuiet, ByExternal
<1>9. ListsAreOwn' /\ WordsAreOwn'
  BY <1>1, <1>3, <1>4 DEF ListsAreOwn, WordsAreOwn, Own, Speaker
<1>10. QED
  BY <1>5, <1>6, <1>7, <1>8, <1>9 DEF DebateInv

\* A request ends without a message.
LEMMA FinishKeepsInv ==
    ASSUME DebateInv, NEW q \in Requests, req' = [req EXCEPT ![q] = Nothing],
           roster' \in Seq(Agents), Len(roster') \in 1..MaxParticipants,
           status' = status \/ status' = "completed",
           UNCHANGED <<round, messages, runVars, calls, accepted, histVars>>
    PROVE  DebateInv'
<1> USE Parts
<1>1. UNCHANGED <<at, turn, order, mine, fresh, known, early, faults>>
  BY DEF runVars, histVars
<1>2. Nothing \in Calls /\ Nothing.op = None
  BY DebateAssumption DEF Nothing, Calls
<1>3. \A p \in Requests : req'[p] = IF p = q THEN Nothing ELSE req[p]
  BY Types
<1>4. TypeOK'
  BY <1>1, <1>2, Types DEF TypeOK, Statuses
<1>5. TurnsAreTaken'
  BY <1>1, Types DEF TurnsAreTaken
<1>6. RequestsFit'
  BY <1>2, <1>3, DebateAssumption DEF RequestsFit
<1>7. PendingIsQuiet'
  BY <1>1, <1>2, <1>3, DebateAssumption DEF PendingIsQuiet, ByExternal
<1>8. ListsAreOwn' /\ WordsAreOwn'
  BY <1>1, <1>2, <1>3, DebateAssumption DEF ListsAreOwn, WordsAreOwn, Own, Speaker
<1>9. QED
  BY <1>4, <1>5, <1>6, <1>7, <1>8 DEF DebateInv

LEMMA FinishRespondKeepsInv ==
    ASSUME DebateInv, NEW q \in Requests, FinishRespond(q)
    PROVE  DebateInv'
<1> USE Parts
<1> DEFINE msg == [by |-> req[q].who, round |-> req[q].round, what |-> "pushed"]
           answer == Answer(req[q].who, req[q].round)
<1>1. /\ req[q].op = "respond"
      /\ req' = [req EXCEPT ![q] = Nothing]
      /\ messages' = Append(req[q].seen, msg)
      /\ accepted' = accepted \cup {answer}
      /\ UNCHANGED <<round, at, turn, order, mine, fresh, known, calls, early, faults, status, roster>>
  BY DEF FinishRespond, Finish, runVars, histVars
<1>2. /\ req[q].who \in External /\ req[q].round \in 1..Rounds + 1
      /\ req[q].seen \in Seq(Messages) /\ Own(req[q].seen)
  BY <1>1 DEF RequestsFit, ListsAreOwn
<1>3. msg \in Messages /\ msg.by = req[q].who /\ answer = Answer(msg.by, msg.round)
  BY <1>2 DEF Messages, Agents
<1>4. answer \in External \X (1..Rounds + 1)
  BY <1>2 DEF Answer
<1> HIDE DEF msg, answer
<1>5. /\ messages' \in Seq(Messages)
      /\ \A i \in DOMAIN messages' :
            \/ i \in DOMAIN req[q].seen /\ messages'[i] = req[q].seen[i]
            \/ messages'[i] = msg
  BY <1>1, <1>2, <1>3, AppendFacts
<1>6. Nothing \in Calls /\ Nothing.op = None
  BY DebateAssumption DEF Nothing, Calls
<1>7. \A p \in Requests : req'[p] = IF p = q THEN Nothing ELSE req[p]
  BY <1>1, Types
<1>8. TypeOK'
  BY <1>1, <1>4, <1>5, <1>6, Types DEF TypeOK
<1>9. TurnsAreTaken' /\ RequestsFit'
  BY <1>1, <1>6, <1>7, DebateAssumption DEF TurnsAreTaken, RequestsFit
<1>10. PendingIsQuiet'
  BY <1>1, <1>2, <1>3, <1>5, <1>6, <1>7, DebateAssumption DEF PendingIsQuiet, ByExternal
<1>11. WordsAreOwn'
  BY <1>1, <1>2, <1>3, <1>5 DEF WordsAreOwn, Own
<1>12. ListsAreOwn'
  BY <1>1, <1>6, <1>7, DebateAssumption DEF ListsAreOwn, Own, Speaker
<1>13. QED
  BY <1>8, <1>9, <1>10, <1>11, <1>12 DEF DebateInv

LEMMA RequestKeepsInv ==
    ASSUME DebateInv, NEW q \in Requests, RequestNext(q)
    PROVE  DebateInv'
<1> USE Parts
<1>1. ASSUME NEW e \in External, Join(q, e)
      PROVE  DebateInv'
  <2>1. /\ 0 \in 0..Rounds + 1 /\ roster \in Seq(Agents)
        /\ Len(roster) < MaxParticipants /\ Ask(q, "join", e, 0, roster)
    BY <1>1, Types, DebateAssumption DEF Join
  <2>2. QED
    BY <2>1, AskKeepsInv
<1>2. ASSUME NEW e \in External, NEW r \in 1..Rounds + 1, Respond(q, e, r)
      PROVE  DebateInv'
  <2>1. r \in 0..Rounds + 1 /\ messages \in Seq(Messages) /\ Ask(q, "respond", e, r, messages)
    BY <1>2, Types, DebateAssumption DEF Respond
  <2>2. QED
    BY <2>1, AskKeepsInv
<1>3. CASE Stop(q) \/ Edit(q)
  <2>1. PICK op \in {"stop", "edit"} : Ask(q, op, None, 0, <<>>)
    BY <1>3 DEF Stop, Edit
  <2>2. 0 \in 0..Rounds + 1 /\ <<>> \in Seq(Messages)
    BY DebateAssumption
  <2>3. QED
    BY <2>1, <2>2, AskKeepsInv
<1>4. CASE FinishJoin(q)
  <2>1. /\ roster' = Append(req[q].seen, req[q].who)
        /\ req[q].seen \in Seq(Agents) /\ Len(req[q].seen) < MaxParticipants
        /\ req[q].who \in Agents
    BY <1>4 DEF FinishJoin, Finish, RequestsFit, Agents
  <2>2. roster' \in Seq(Agents) /\ Len(roster') \in 1..MaxParticipants
    BY <2>1, AppendFacts, DebateAssumption
  <2>3. QED
    BY <1>4, <2>2, FinishKeepsInv DEF FinishJoin, Finish
<1>5. CASE FinishStop(q)
  <2>1. roster' \in Seq(Agents) /\ Len(roster') \in 1..MaxParticipants
    BY <1>5, Types, DebateAssumption DEF FinishStop, TurnsAreTaken, TypeOK
  <2>2. QED
    BY <1>5, <2>1, FinishKeepsInv DEF FinishStop, Finish
<1>6. CASE FinishEdit(q)
  <2>1. roster' \in Seq(Agents) /\ Len(roster') \in 1..MaxParticipants
    BY <1>6, DebateAssumption DEF FinishEdit
  <2>2. QED
    BY <1>6, <2>1, FinishKeepsInv DEF FinishEdit, Finish
<1>7. QED
  BY <1>1, <1>2, <1>3, <1>4, <1>5, <1>6, FinishRespondKeepsInv DEF RequestNext

-------------------------------------------------------------------------------
(* The theorems.                                                             *)

LEMMA InitInv ==
    ASSUME Init
    PROVE  DebateInv
<1>1. roster \in Seq(Agents) /\ Len(roster) \in 1..MaxParticipants
  <2>1. CASE roster = Internal
    BY <2>1, DebateAssumption
  <2>2. CASE Len(Internal) < MaxParticipants /\ roster \in {Append(Internal, e) : e \in Pushers}
    <3>1. PICK e \in Agents : roster = Append(Internal, e)
      BY <2>2 DEF Agents, External
    <3>2. QED
      BY <2>2, <3>1, AppendFacts, DebateAssumption
  <2>3. QED
    BY <2>1, <2>2 DEF Init
<1>2. Nothing \in Calls /\ Nothing.op = None /\ <<0, 0>> \in (0..Rounds) \X (0..MaxParticipants)
  BY DebateAssumption DEF Nothing, Calls
<1>3. TypeOK
  BY <1>1, <1>2, DebateAssumption DEF Init, TypeOK, Statuses, Places
<1>4. TurnsAreTaken /\ RequestsFit
  BY <1>1, <1>2, DebateAssumption DEF Init, TurnsAreTaken, RequestsFit, Taking, Closed
<1>5. PendingIsQuiet
  BY <1>2, DebateAssumption DEF Init, PendingIsQuiet, ByExternal
<1>6. ListsAreOwn /\ WordsAreOwn
  BY <1>2, DebateAssumption DEF Init, ListsAreOwn, WordsAreOwn, Own
<1>7. QED
  BY <1>3, <1>4, <1>5, <1>6 DEF DebateInv

LEMMA NextKeepsInv ==
    ASSUME DebateInv, [Next]_vars
    PROVE  DebateInv'
<1>1. CASE UNCHANGED vars
  <2>1. UNCHANGED <<status, round, roster, messages, at, turn, order, mine, fresh, known, req, calls,
                    accepted, early, faults>>
    BY <1>1 DEF vars, row, runVars, callVars, histVars
  <2>2. TypeOK' /\ TurnsAreTaken' /\ RequestsFit' /\ PendingIsQuiet'
    BY <2>1, Parts DEF TypeOK, TurnsAreTaken, RequestsFit, PendingIsQuiet, ByExternal
  <2>3. ListsAreOwn' /\ WordsAreOwn'
    BY <2>1, Parts DEF ListsAreOwn, WordsAreOwn, Own, Speaker
  <2>4. QED
    BY <2>2, <2>3 DEF DebateInv
<1>2. QED
  BY <1>1, StartKeepsInv, RunKeepsInv, CutKeepsInv, RequestKeepsInv DEF Next

\* The inductive invariant: executors are at turns they have, and every list that
\* anybody is about to write is honest.
THEOREM DebateInvariant == Spec => []DebateInv
BY InitInv, NextKeepsInv, PTL DEF Spec

\* Every variable keeps its type, the limit on participants included.
THEOREM TypeCorrect == Spec => []TypeOK
<1>1. DebateInv => TypeOK
  BY DEF DebateInv
<1>2. QED
  BY <1>1, DebateInvariant, PTL

\* What a pushing agent is recorded to have answered in a round, it was told was
\* accepted for that round, whoever writes back which list when (DebateExecutor,
\* respond_to_debate).
THEOREM WordsAreAccepted == Spec => []WordsAreOwn
<1>1. DebateInv => WordsAreOwn
  BY DEF DebateInv
<1>2. QED
  BY <1>1, DebateInvariant, PTL

-------------------------------------------------------------------------------
(* Every turn once.                                                          *)

LEMMA OnceParts ==
    ASSUME DebateInv, OnceInv
    PROVE  /\ TypeOK /\ TurnsAreTaken /\ RequestsFit /\ PendingIsQuiet
           /\ NobodyTwice /\ OnlyHadTurns /\ ListsAreOnce /\ Once(messages)
BY DEF DebateInv, OnceInv, OnceEach

\* A message of a turn that the list has no other of.
LEMMA AppendOnce ==
    ASSUME NEW list \in Seq(Messages), NEW msg \in Messages, Once(list),
           Answer(msg.by, msg.round) \in TurnsOf(list) => Answer(msg.by, msg.round) \in early
    PROVE  Once(Append(list, msg))
<1> DEFINE longer == Append(list, msg)
<1>1. /\ longer \in Seq(Messages) /\ DOMAIN longer = DOMAIN list \cup {Len(list) + 1}
      /\ longer[Len(list) + 1] = msg
      /\ \A i \in DOMAIN list : longer[i] = list[i]
  OBVIOUS
<1> HIDE DEF longer
<1>2. \A i \in DOMAIN list : list[i].by = msg.by /\ list[i].round = msg.round
                                  => Answer(msg.by, msg.round) \in early
  BY DEF TurnsOf
<1>3. Once(longer)
  BY <1>1, <1>2 DEF Once
<1>4. QED
  BY <1>3 DEF longer

\* One more in a list that does not have it.
LEMMA AppendInjective ==
    ASSUME NEW S, NEW list \in Seq(S), NEW v \in S, IsInjective(list),
           \A i \in DOMAIN list : list[i] # v
    PROVE  IsInjective(Append(list, v))
<1> DEFINE longer == Append(list, v)
<1>1. /\ DOMAIN longer = DOMAIN list \cup {Len(list) + 1}
      /\ longer[Len(list) + 1] = v
      /\ \A i \in DOMAIN list : longer[i] = list[i]
  OBVIOUS
<1> HIDE DEF longer
<1>2. IsInjective(longer)
  BY <1>1 DEF IsInjective
<1>3. QED
  BY <1>2 DEF longer

\* The turn that an executor is at is not in its list, unless it was early.
LEMMA TurnIsNew ==
    ASSUME DebateInv, OnceInv, NEW x \in Runs, at[x] \in Taking,
           Answer(Speaker(x), turn[x][1]) \in TurnsOf(mine[x])
    PROVE  Answer(Speaker(x), turn[x][1]) \in early
<1> USE OnceParts
<1>1. PICK i \in DOMAIN mine[x] : mine[x][i].by = Speaker(x) /\ mine[x][i].round = turn[x][1]
  BY DEF TurnsOf, Answer
<1>2. /\ turn[x][1] \in 1..Rounds /\ turn[x][2] \in 1..Len(order[x])
      /\ order[x] \in Seq(Agents) /\ IsInjective(order[x])
  BY Types DEF TurnsAreTaken, NobodyTwice
<1>3. ~ Had(x, Speaker(x), turn[x][1])
  BY <1>2, DebateAssumption DEF Had, Speaker, IsInjective
<1>4. QED
  BY <1>1, <1>3 DEF OnlyHadTurns

\* Passing the turn on, an executor has had it.
LEMMA PassOnHad ==
    ASSUME DebateInv, NEW x \in Runs, at[x] \in Taking, PassOn(x), UNCHANGED order, NEW e, NEW r,
           Had(x, e, r) \/ (e = Speaker(x) /\ r = turn[x][1])
    PROVE  Had(x, e, r)'
<1> USE Parts
<1>1. /\ turn[x][1] \in 1..Rounds /\ turn[x][2] \in 1..Len(order[x])
      /\ Len(order[x]) \in 1..MaxParticipants
  BY DEF TurnsAreTaken, Taking, Closed
<1>2. r < turn[x][1] \/ (r = turn[x][1] /\ \E k \in 1..turn[x][2] : e = order[x][k])
  BY <1>1, DebateAssumption DEF Had, Speaker
<1>3. CASE turn[x][2] < Len(order[x])
  <2>1. turn'[x] = <<turn[x][1], turn[x][2] + 1>> /\ order' = order
    BY <1>3, Types DEF PassOn
  <2>2. turn'[x][1] = turn[x][1] /\ turn'[x][2] - 1 = turn[x][2]
    BY <1>1, <2>1
  <2>3. QED
    BY <1>2, <2>1, <2>2 DEF Had
<1>4. CASE ~ (turn[x][2] < Len(order[x]))
  <2>1. turn'[x] = <<turn[x][1], 0>> /\ at'[x] = "round"
    BY <1>4, Types DEF PassOn
  <2>2. turn'[x][1] = turn[x][1] /\ at'[x] \notin Taking
    BY <2>1 DEF Taking
  <2>3. QED
    BY <1>2, <2>2 DEF Had
<1>5. QED
  BY <1>3, <1>4

\* An executor goes on, and no list changes.
LEMMA GoingOnIsOnce ==
    ASSUME DebateInv, OnceInv, NEW x \in Runs,
           \A e : \A r \in Nat : Had(x, e, r) => Had(x, e, r)',
           \A y \in Runs \ {x} : at'[y] = at[y] /\ turn'[y] = turn[y],
           UNCHANGED <<roster, messages, order, mine, req, early>>
    PROVE  OnceInv'
<1> USE OnceParts
<1>1. NobodyTwice'
  BY DEF NobodyTwice
<1>2. OnlyHadTurns'
  <2>1. ASSUME NEW y \in Runs \ {x}
        PROVE  \A e : \A r \in Nat : Had(y, e, r) => Had(y, e, r)'
    BY DEF Had
  <2>2. \A y \in Runs : \A e : \A r \in Nat : Had(y, e, r) => Had(y, e, r)'
    BY <2>1
  <2>3. \A y \in Runs : \A i \in DOMAIN mine[y] : mine[y][i].round \in Nat
    <3>1. \A y \in Runs : \A i \in DOMAIN mine[y] : mine[y][i] \in Messages
      BY Types
    <3>2. \A m \in Messages : m.round \in Nat
      BY DebateAssumption DEF Messages
    <3>3. QED
      BY <3>1, <3>2
  <2>4. QED
    BY <2>2, <2>3 DEF OnlyHadTurns
<1>3. ListsAreOnce' /\ OnceEach'
  BY DEF ListsAreOnce, OnceEach, Once
<1>4. QED
  BY <1>1, <1>2, <1>3 DEF OnceInv

LEMMA RecordIsOnce ==
    ASSUME DebateInv, OnceInv, NEW x \in Runs, at[x] \in Taking,
           NEW what \in {"said", "heard", "silent"}, Record(x, what)
    PROVE  OnceInv'
<1> USE OnceParts
<1> DEFINE msg == [by |-> Speaker(x), round |-> turn[x][1], what |-> what]
           longer == Append(mine[x], msg)
<1>1. /\ mine' = [mine EXCEPT ![x] = longer]
      /\ messages' \in {longer, messages}
      /\ PassOn(x)
      /\ UNCHANGED <<roster, order, req, early>>
  BY DEF Record, Saved, callVars
<1>2. msg \in Messages /\ msg.by = Speaker(x) /\ msg.round = turn[x][1]
  BY SpeakerSpeaks DEF Messages
<1>3. mine[x] \in Seq(Messages) /\ Once(mine[x])
  BY Types DEF ListsAreOnce
<1> HIDE DEF msg
<1>4. Once(longer)
  BY <1>2, <1>3, TurnIsNew, AppendOnce
<1>5. \A i \in DOMAIN longer : \/ i \in DOMAIN mine[x] /\ longer[i] = mine[x][i]
                               \/ longer[i] = msg
  BY <1>2, <1>3, AppendFacts
<1> HIDE DEF longer
<1>6. \A y \in Runs : mine'[y] = IF y = x THEN longer ELSE mine[y]
  BY <1>1, Types
<1>7. \A y \in Runs \ {x} : at'[y] = at[y] /\ turn'[y] = turn[y]
  BY <1>1, PassOnTypes
<1>8. NobodyTwice'
  BY <1>1 DEF NobodyTwice
<1>9. OnlyHadTurns'
  <2>1. ASSUME NEW i \in DOMAIN longer
        PROVE  \/ Answer(longer[i].by, longer[i].round) \in early
               \/ /\ longer[i].by = Speaker(x) /\ longer[i].round = turn[x][1]
               \/ Had(x, longer[i].by, longer[i].round)
    BY <1>2, <1>5 DEF OnlyHadTurns
  <2>2. \A e, r : Had(x, e, r) \/ (e = Speaker(x) /\ r = turn[x][1]) => Had(x, e, r)'
    BY <1>1, PassOnHad
  <2>3. \A y \in Runs \ {x} : \A e, r : Had(y, e, r) => Had(y, e, r)'
    BY <1>1, <1>7 DEF Had
  <2>4. QED
    BY <1>1, <1>6, <2>1, <2>2, <2>3 DEF OnlyHadTurns
<1>10. ListsAreOnce' /\ OnceEach'
  BY <1>1, <1>4, <1>6 DEF ListsAreOnce, OnceEach, Once
<1>11. QED
  BY <1>8, <1>9, <1>10 DEF OnceInv

\* The executor's local state is gone.
LEMMA CloseIsOnce ==
    ASSUME DebateInv, OnceInv, NEW x \in Runs, NEW place, Close(x, place),
           Once(messages'), UNCHANGED <<roster, req, early>>
    PROVE  OnceInv'
<1> USE OnceParts
<1>1. /\ order' = [order EXCEPT ![x] = <<>>] /\ mine' = [mine EXCEPT ![x] = <<>>]
      /\ turn' = [turn EXCEPT ![x] = <<0, 0>>] /\ at' = [at EXCEPT ![x] = place]
  BY DEF Close
<1>2. /\ order'[x] = <<>> /\ mine'[x] = <<>>
      /\ \A y \in Runs \ {x} : /\ at'[y] = at[y] /\ turn'[y] = turn[y]
                               /\ order'[y] = order[y] /\ mine'[y] = mine[y]
  BY <1>1, Types
<1>3. NobodyTwice'
  BY <1>2 DEF NobodyTwice, IsInjective
<1>4. OnlyHadTurns'
  BY <1>2 DEF OnlyHadTurns, Had
<1>5. ListsAreOnce' /\ OnceEach'
  BY <1>2 DEF ListsAreOnce, OnceEach, Once
<1>6. QED
  BY <1>3, <1>4, <1>5 DEF OnceInv

LEMMA CompleteIsOnce ==
    ASSUME DebateInv, OnceInv, NEW x \in Runs, Complete(x)
    PROVE  OnceInv'
<1> USE OnceParts
<1>1. /\ messages' \in {Append(mine[x], Verdict), messages}
      /\ Close(x, "ended") /\ UNCHANGED <<roster, req, early>>
  BY DEF Complete, Saved, callVars, histVars
<1>2. /\ Verdict \in Messages /\ Verdict.by = Synthesizer /\ Verdict.round = Rounds + 1
      /\ mine[x] \in Seq(Messages) /\ Once(mine[x])
  <2>1. Verdict \in Messages /\ Verdict.by = Synthesizer /\ Verdict.round = Rounds + 1
    BY DebateAssumption DEF Verdict, Messages
  <2>2. mine[x] \in Seq(Messages) /\ Once(mine[x])
    BY Types DEF ListsAreOnce
  <2>3. QED
    BY <2>1, <2>2
<1>3. Answer(Verdict.by, Verdict.round) \in TurnsOf(mine[x])
          => Answer(Verdict.by, Verdict.round) \in early
  <2>1. ASSUME NEW i \in DOMAIN mine[x],
               mine[x][i].by = Verdict.by, mine[x][i].round = Verdict.round
        PROVE  ~ Had(x, mine[x][i].by, mine[x][i].round)
    BY <1>2, <2>1, Types, DebateAssumption DEF Had
  <2>2. QED
    BY <2>1 DEF TurnsOf, Answer, OnlyHadTurns
<1>4. Once(messages')
  BY <1>1, <1>2, <1>3, AppendOnce
<1>5. QED
  BY <1>1, <1>4, CloseIsOnce

LEMMA StartIsOnce ==
    ASSUME DebateInv, OnceInv, NEW x \in Runs, Start(x)
    PROVE  OnceInv'
<1> USE OnceParts
<1>1. /\ order' = [order EXCEPT ![x] = roster]
      /\ mine' = [mine EXCEPT ![x] = messages]
      /\ at' = [at EXCEPT ![x] = "starting"]
      /\ early' = early \cup TurnsOf(messages)
      /\ UNCHANGED <<roster, messages, turn, req>>
  BY DEF Start, row, callVars
<1>2. /\ order'[x] = roster /\ mine'[x] = messages
      /\ \A y \in Runs \ {x} : at'[y] = at[y] /\ order'[y] = order[y] /\ mine'[y] = mine[y]
  BY <1>1, Types
<1>3. NobodyTwice'
  BY <1>1, <1>2 DEF NobodyTwice, IsInjective
<1>4. OnlyHadTurns'
  <2>1. \A i \in DOMAIN messages : Answer(messages[i].by, messages[i].round) \in early'
    BY <1>1 DEF TurnsOf
  <2>2. ASSUME NEW y \in Runs \ {x}
        PROVE  \A e, r : Had(y, e, r) => Had(y, e, r)'
    BY <1>1, <1>2 DEF Had
  <2>3. QED
    BY <1>1, <1>2, <2>1, <2>2 DEF OnlyHadTurns
<1>5. ListsAreOnce' /\ OnceEach'
  <2>1. \A y \in Runs : Once(mine[y])
    BY DEF ListsAreOnce
  <2>2. Once(messages)' /\ \A y \in Runs : Once(mine[y])'
    BY <1>1, <1>2, <2>1 DEF Once
  <2>3. \A q \in Requests : req'[q].op = "respond" =>
          Once(req[q].seen)' /\ Answer(req[q].who, req[q].round)' \notin TurnsOf(req[q].seen)'
    BY <1>1 DEF ListsAreOnce, Once, TurnsOf, Answer
  <2>4. QED
    BY <2>2, <2>3 DEF ListsAreOnce, OnceEach
<1>6. QED
  BY <1>3, <1>4, <1>5 DEF OnceInv

LEMMA RunIsOnce ==
    ASSUME DebateInv, OnceInv, NEW x \in Runs, RunStep(x) \/ Cut(x)
    PROVE  OnceInv'
<1> USE OnceParts
<1>1. CASE Open(x) \/ Synthesize(x)
  <2>1. /\ at[x] \notin Taking
        /\ at' \in {[at EXCEPT ![x] = "round"], [at EXCEPT ![x] = "verdict"]}
        /\ UNCHANGED <<turn, roster, messages, order, mine, req, early>>
    BY <1>1 DEF Open, Synthesize, RoundsOver, Taking, callVars, histVars
  <2>2. /\ at'[x] \notin Taking
        /\ \A y \in Runs \ {x} : at'[y] = at[y]
    BY <2>1, Types DEF Taking
  <2>3. \A e, r : Had(x, e, r) => Had(x, e, r)'
    BY <2>1, <2>2 DEF Had
  <2>4. QED
    BY <2>1, <2>2, <2>3, GoingOnIsOnce
<1>2. CASE BeginRound(x)
  <2>1. /\ at[x] = "round" /\ turn' = [turn EXCEPT ![x] = <<turn[x][1] + 1, 1>>]
        /\ at' = [at EXCEPT ![x] = "turn"]
        /\ UNCHANGED <<roster, messages, order, mine, req, early>>
    BY <1>2 DEF BeginRound, callVars, histVars
  <2>2. /\ turn'[x][1] = turn[x][1] + 1 /\ turn[x][1] \in Nat
        /\ \A y \in Runs \ {x} : at'[y] = at[y] /\ turn'[y] = turn[y]
    BY <2>1, Types, DebateAssumption
  <2>3. ASSUME NEW e, NEW r \in Nat, Had(x, e, r)
        PROVE  Had(x, e, r)'
    <3>1. r < turn[x][1] \/ r = turn[x][1]
      BY <2>3 DEF Had
    <3>2. r < turn'[x][1]
      BY <2>2, <3>1
    <3>3. QED
      BY <3>2 DEF Had
  <2>4. QED
    BY <2>1, <2>2, <2>3, GoingOnIsOnce
<1>3. CASE Skip(x)
  <2>1. /\ at[x] \in Taking /\ PassOn(x)
        /\ UNCHANGED <<roster, messages, order, mine, req, early>>
    BY <1>3 DEF Skip, Taking, row, callVars
  <2>2. \A y \in Runs \ {x} : at'[y] = at[y] /\ turn'[y] = turn[y]
    BY <2>1, PassOnTypes
  <2>3. \A e, r : Had(x, e, r) => Had(x, e, r)'
    BY <2>1, PassOnHad
  <2>4. QED
    BY <2>1, <2>2, <2>3, GoingOnIsOnce
<1>4. CASE Poll(x)
  <2>1. /\ at[x] = "turn" /\ \E place \in Taking : at' = [at EXCEPT ![x] = place]
        /\ UNCHANGED <<turn, roster, messages, order, mine, req, early>>
    BY <1>4, Types DEF Poll, Taking, row, callVars, histVars
  <2>2. /\ at[x] \in Taking /\ at'[x] \in Taking
        /\ \A y \in Runs \ {x} : at'[y] = at[y]
    BY <2>1, Types DEF Taking
  <2>3. \A e, r : Had(x, e, r) => Had(x, e, r)'
    BY <2>1, <2>2 DEF Had
  <2>4. QED
    BY <2>1, <2>2, <2>3, GoingOnIsOnce
<1>5. CASE Speak(x) \/ Callback(x) \/ RecordAnswer(x)
  <2>1. at[x] \in Taking /\ \E what \in {"said", "heard", "silent"} : Record(x, what)
    BY <1>5 DEF Speak, Callback, RecordAnswer, Taking
  <2>2. QED
    BY <2>1, RecordIsOnce
<1>6. CASE Cut(x)
  <2>1. Close(x, "cut") /\ UNCHANGED <<roster, messages, req, early>>
    BY <1>6 DEF Cut, row, callVars
  <2>2. Once(messages')
    BY <2>1 DEF Once
  <2>3. QED
    BY <2>1, <2>2, CloseIsOnce
<1>7. QED
  BY <1>1, <1>2, <1>3, <1>4, <1>5, <1>6, CompleteIsOnce DEF RunStep

LEMMA RequestIsOnce ==
    ASSUME DebateInv, OnceInv, NEW q \in Requests, RequestNext(q)
    PROVE  OnceInv'
<1> USE OnceParts
<1>1. ASSUME NEW op, NEW who, NEW r, NEW seen, Ask(q, op, who, r, seen),
             op = "join" => seen = roster /\ \A i \in DOMAIN roster : roster[i] # who,
             op = "respond" => seen = messages /\ Answer(who, r) \notin TurnsOf(messages)
      PROVE  OnceInv'
  <2> DEFINE asked == [op |-> op, who |-> who, round |-> r, seen |-> seen]
  <2>1. /\ req' = [req EXCEPT ![q] = asked]
        /\ UNCHANGED <<roster, messages, at, turn, order, mine, early>>
    BY <1>1 DEF Ask, row, runVars, histVars
  <2>2. asked.op = op /\ asked.who = who /\ asked.round = r /\ asked.seen = seen
    OBVIOUS
  <2> HIDE DEF asked
  <2>3. \A p \in Requests : req'[p] = IF p = q THEN asked ELSE req[p]
    BY <2>1, Types
  <2>4. NobodyTwice'
    BY <1>1, <2>1, <2>2, <2>3 DEF NobodyTwice
  <2>5. OnlyHadTurns'
    BY <2>1 DEF OnlyHadTurns, Had
  <2>6. ListsAreOnce' /\ OnceEach'
    BY <1>1, <2>1, <2>2, <2>3 DEF ListsAreOnce, OnceEach, Once
  <2>7. QED
    BY <2>4, <2>5, <2>6 DEF OnceInv
<1>2. ASSUME IsInjective(roster'), Once(messages'), req' = [req EXCEPT ![q] = Nothing],
             UNCHANGED <<runVars, histVars>>
      PROVE  OnceInv'
  <2>1. UNCHANGED <<at, turn, order, mine, early>>
    BY <1>2 DEF runVars, histVars
  <2>2. \A p \in Requests : req'[p] = IF p = q THEN Nothing ELSE req[p]
    BY <1>2, Types
  <2>3. Nothing.op = None /\ None \notin {"join", "respond"}
    BY DebateAssumption DEF Nothing
  <2>4. NobodyTwice'
    BY <1>2, <2>1, <2>2, <2>3 DEF NobodyTwice
  <2>5. OnlyHadTurns'
    BY <2>1 DEF OnlyHadTurns, Had
  <2>6. ListsAreOnce' /\ OnceEach'
    BY <1>2, <2>1, <2>2, <2>3 DEF ListsAreOnce, OnceEach, Once
  <2>7. QED
    BY <2>4, <2>5, <2>6 DEF OnceInv
<1>3. ASSUME NEW e \in External, Join(q, e)
      PROVE  OnceInv'
  BY <1>1, <1>3 DEF Join
<1>4. ASSUME NEW e \in External, NEW r \in 1..Rounds + 1, Respond(q, e, r)
      PROVE  OnceInv'
  BY <1>1, <1>4 DEF Respond
<1>5. CASE Stop(q) \/ Edit(q)
  BY <1>1, <1>5 DEF Stop, Edit
<1>6. CASE FinishJoin(q)
  <2>1. /\ req[q].seen \in Seq(Agents) /\ IsInjective(req[q].seen) /\ req[q].who \in Agents
        /\ \A i \in DOMAIN req[q].seen : req[q].seen[i] # req[q].who
    BY <1>6 DEF FinishJoin, Finish, RequestsFit, NobodyTwice, Agents
  <2>2. IsInjective(roster')
    BY <1>6, <2>1, AppendInjective DEF FinishJoin
  <2>3. Once(messages')
    BY <1>6 DEF FinishJoin, Finish, histVars, Once
  <2>4. QED
    BY <1>2, <1>6, <2>2, <2>3 DEF FinishJoin, Finish
<1>7. CASE FinishRespond(q)
  <2> DEFINE msg == [by |-> req[q].who, round |-> req[q].round, what |-> "pushed"]
  <2>1. /\ req[q].op = "respond" /\ messages' = Append(req[q].seen, msg) /\ UNCHANGED <<roster, early>>
    BY <1>7 DEF FinishRespond, Finish, histVars
  <2>2. /\ req[q].seen \in Seq(Messages) /\ Once(req[q].seen)
        /\ Answer(req[q].who, req[q].round) \notin TurnsOf(req[q].seen)
    BY <2>1 DEF RequestsFit, ListsAreOnce
  <2>3. msg \in Messages /\ msg.by = req[q].who /\ msg.round = req[q].round
    BY <2>1 DEF RequestsFit, Messages, Agents
  <2> HIDE DEF msg
  <2>4. Once(messages')
    BY <2>1, <2>2, <2>3, AppendOnce
  <2>5. IsInjective(roster')
    BY <2>1 DEF NobodyTwice
  <2>6. QED
    BY <1>2, <1>7, <2>4, <2>5 DEF FinishRespond, Finish
<1>8. CASE FinishStop(q) \/ FinishEdit(q)
  <2>1. Once(messages')
    BY <1>8 DEF FinishStop, FinishEdit, Finish, histVars, Once
  <2>2. IsInjective(roster')
    BY <1>8, DebateAssumption DEF FinishStop, FinishEdit, NobodyTwice
  <2>3. QED
    BY <1>2, <1>8, <2>1, <2>2 DEF FinishStop, FinishEdit, Finish
<1>9. QED
  BY <1>3, <1>4, <1>5, <1>6, <1>7, <1>8 DEF RequestNext

LEMMA InitOnce ==
    ASSUME Init
    PROVE  OnceInv
<1>1. IsInjective(roster)
  <2>1. CASE roster = Internal
    BY <2>1, DebateAssumption
  <2>2. ASSUME NEW e \in Pushers, roster = Append(Internal, e)
        PROVE  IsInjective(roster)
    <3>1. e \in Agents /\ \A i \in DOMAIN Internal : Internal[i] # e
      BY DebateAssumption DEF Agents, External
    <3>2. QED
      BY <2>2, <3>1, AppendInjective, DebateAssumption
  <2>3. QED
    BY <2>1, <2>2 DEF Init
<1>2. NobodyTwice /\ OnlyHadTurns /\ ListsAreOnce /\ OnceEach
  BY <1>1, DebateAssumption DEF Init, NobodyTwice, OnlyHadTurns, ListsAreOnce, OnceEach, Once,
     IsInjective, Nothing
<1>3. QED
  BY <1>2 DEF OnceInv

\* Nobody is in the order twice, an executor's list has the turns it has had, and every
\* list that will be written has each turn once.
THEOREM OnceInvariant == Spec => []OnceInv
<1>1. DebateInv /\ OnceInv /\ [Next]_vars => OnceInv'
  <2> SUFFICES ASSUME DebateInv, OnceInv, [Next]_vars
               PROVE  OnceInv'
    OBVIOUS
  <2>1. CASE UNCHANGED vars
    <3>1. UNCHANGED <<roster, messages, at, turn, order, mine, req, early>>
      BY <2>1 DEF vars, row, runVars, callVars, histVars
    <3>2. QED
      BY <3>1, OnceParts DEF OnceInv, NobodyTwice, OnlyHadTurns, Had, ListsAreOnce, OnceEach, Once
  <2>2. QED
    BY <2>1, StartIsOnce, RunIsOnce, RequestIsOnce DEF Next
<1>2. QED
  BY <1>1, InitOnce, DebateInvariant, PTL DEF Spec

\* No turn is in the transcript twice, however executors, pushed answers and joins write
\* their lists over each other (DebateExecutor, respond_to_debate), unless it was
\* answered before the debate was started.
THEOREM TurnsAreOnce == Spec => []OnceEach
<1>1. OnceInv => OnceEach
  BY DEF OnceInv
<1>2. QED
  BY <1>1, OnceInvariant, PTL
===============================================================================
