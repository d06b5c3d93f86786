--------------------------------- MODULE Debate --------------------------------
(***************************************************************************)
(* A debate of the war room (services/agents/workflows/debate_executor.py, *)
(* controllers/agents/war_room.py): a start request runs the executor,     *)
(* which gives every participant a turn in each round and saves what was   *)
(* said, while external agents join and push their answers and the owner   *)
(* edits or stops the debate.  All of them read the row of the debate,     *)
(* compute a new list and write the whole list back.                       *)
(***************************************************************************)
EXTENDS Naturals, Sequences, FiniteSets, Functions

CONSTANTS Internal,        \* the owner's agents, in the order of their turns; one that is
                           \* listed twice is two participants, of an id each
          Pushers,         \* external agents that push their answers
          Hooked,          \* external agents with a callback_url
          Rounds,          \* rounds of the debate
          HasSynthesizer,  \* an agent gives a verdict
          MaxParticipants, \* the limit on participants when an agent joins
          Runs,            \* start requests, each with its executor
          Requests,        \* other API requests that may be open at once
          MaxCalls,        \* bound: the number of these requests in a behaviour
          MaxFaults,       \* bound: agents deleted, callbacks failed and streams cut off
          Synthesizer,
          None

External == Pushers \cup Hooked
Agents   == {Internal[i] : i \in DOMAIN Internal} \cup External

ASSUME DebateAssumption ==
    /\ Internal \in Seq(Agents) /\ Len(Internal) \in 1..MaxParticipants
    /\ IsInjective(Internal)
    /\ Pushers \cap Hooked = {}
    /\ \A i \in DOMAIN Internal : Internal[i] \notin External
    /\ Rounds \in Nat \ {0} /\ MaxParticipants \in Nat /\ MaxCalls \in Nat /\ MaxFaults \in Nat
    /\ HasSynthesizer \in BOOLEAN
    /\ Synthesizer \notin Agents
    /\ None \notin {"join", "respond", "stop", "edit"}

VARIABLES status,    \* the row of the debate: its status,
          round,     \* current_round,
          roster,    \* participants
          messages,  \* and messages
          at,        \* how far each executor has come
          turn,      \* the round and the place in the order of its current turn
          order,     \* the participants it read when it was started
          mine,      \* its own list of messages
          fresh,     \* session.messages is not that list, but one that was loaded
          known,     \* session.status, as loaded or set last
          req,       \* what each request has read and is about to write
          calls,     \* history: the number of requests
          accepted,  \* history: the answers that were accepted
          early,     \* history: those an executor found when it was started
          faults     \* history: the number of faults

row      == <<status, round, roster, messages>>
runVars  == <<at, turn, order, mine, fresh, known>>
callVars == <<req, calls, accepted>>
histVars == <<early, faults>>
vars     == <<row, runVars, callVars, histVars>>

\* "said" by an internal agent, "pushed" by an external one, "heard" and "silent" as
\* the executor records an answer of an external one, or that there was none.
Messages == [by : Agents \cup {Synthesizer}, round : 1..Rounds + 1,
             what : {"said", "pushed", "heard", "silent"}]
Answer(e, r) == <<e, r>>

Statuses == {"pending", "active", "synthesizing", "completed"}
Places   == {"idle", "starting", "round", "turn", "heard", "silent", "verdict",
             "ended", "cut"}

Nothing == [op |-> None, who |-> None, round |-> 0, seen |-> <<>>]
Calls   == [op : {"join", "respond", "stop", "edit", None}, who : Agents \cup {None},
            round : 0..Rounds + 1, seen : Seq(Messages) \cup Seq(Agents)]

TypeOK ==
    /\ status \in Statuses
    /\ round \in 0..Rounds
    /\ roster \in Seq(Agents) /\ Len(roster) <= MaxParticipants
    /\ messages \in Seq(Messages)
    /\ at \in [Runs -> Places]
    /\ turn \in [Runs -> (0..Rounds) \X (0..MaxParticipants)]
    /\ order \in [Runs -> Seq(Agents)]
    /\ mine \in [Runs -> Seq(Messages)]
    /\ fresh \in [Runs -> BOOLEAN]
    /\ known \in [Runs -> Statuses]
    /\ req \in [Requests -> Calls]
    /\ calls \in 0..MaxCalls
    /\ accepted \subseteq External \X (1..Rounds + 1)
    /\ early \subseteq External \X (1..Rounds + 1)
    /\ faults \in 0..MaxFaults

\* A debate that was created, or one that an agent that pushes has joined since.
Init ==
    /\ status = "pending"
    /\ round = 0
    /\ \/ roster = Internal
       \/ Len(Internal) < MaxParticipants /\ roster \in {Append(Internal, e) : e \in Pushers}
    /\ messages = <<>>
    /\ at = [x \in Runs |-> "idle"]
    /\ turn = [x \in Runs |-> <<0, 0>>]
    /\ order = [x \in Runs |-> <<>>]
    /\ mine = [x \in Runs |-> <<>>]
    /\ fresh = [x \in Runs |-> TRUE]
    /\ known = [x \in Runs |-> "pending"]
    /\ req = [q \in Requests |-> Nothing]
    /\ calls = 0
    /\ accepted = {}
    /\ early = {}
    /\ faults = 0

Fault == faults < MaxFaults /\ faults' = faults + 1

-------------------------------------------------------------------------------
(* The executor.                                                             *)

\* The turns that a list has messages of.
TurnsOf(list) == {Answer(list[i].by, list[i].round) : i \in DOMAIN list}

\* start_debate loads the row and returns the stream. Two requests may both pass.
Start(x) ==
    /\ at[x] = "idle"
    /\ status = "pending"
    /\ at' = [at EXCEPT ![x] = "starting"]
    /\ order' = [order EXCEPT ![x] = roster]
    /\ mine' = [mine EXCEPT ![x] = messages]
    /\ early' = early \cup TurnsOf(messages)
    /\ UNCHANGED <<row, turn, fresh, known, callVars, faults>>

\* Assigning the value that an attribute has already makes no UPDATE.
Assigned(x, s) == IF known[x] = s THEN status ELSE s

SetStatus(x, s) ==
    /\ status' = Assigned(x, s)
    /\ known' = [known EXCEPT ![x] = s]

Open(x) ==
    /\ at[x] = "starting"
    /\ at' = [at EXCEPT ![x] = "round"]
    /\ SetStatus(x, "active")
    /\ UNCHANGED <<round, roster, messages, turn, order, mine, fresh, callVars, histVars>>

\* Mutant of BeginRound: range() runs to the end inclusive.
BeginRoundOneMore(x) ==
    /\ at[x] = "round"
    /\ turn[x][1] <= Rounds
    /\ round' = turn[x][1] + 1
    /\ turn' = [turn EXCEPT ![x] = <<round', 1>>]
    /\ at' = [at EXCEPT ![x] = "turn"]
    /\ UNCHANGED <<status, roster, messages, order, mine, fresh, known, callVars, histVars>>

BeginRound(x) ==
    /\ at[x] = "round"
    /\ turn[x][1] < Rounds
    /\ round' = turn[x][1] + 1
    /\ turn' = [turn EXCEPT ![x] = <<round', 1>>]
    /\ at' = [at EXCEPT ![x] = "turn"]
    /\ UNCHANGED <<status, roster, messages, order, mine, fresh, known, callVars, histVars>>

Speaker(x) == order[x][turn[x][2]]

\* The turn goes to the next participant, or the round ends.
PassOn(x) ==
    IF turn[x][2] < Len(order[x])
    THEN /\ turn' = [turn EXCEPT ![x] = <<@[1], @[2] + 1>>]
         /\ at' = [at EXCEPT ![x] = "turn"]
    ELSE /\ turn' = [turn EXCEPT ![x] = <<@[1], 0>>]
         /\ at' = [at EXCEPT ![x] = "round"]

\* messages.append(msg); session.messages = messages; commit. The session compares the
\* list with the one it held: when that is the executor's own list, which has just
\* been appended to, it finds no difference and writes nothing.
Saved(x, msg) == IF fresh[x] THEN Append(mine[x], msg) ELSE messages

Record(x, what) ==
    LET msg == [by |-> Speaker(x), round |-> turn[x][1], what |-> what]
    IN  /\ mine' = [mine EXCEPT ![x] = Append(@, msg)]
        /\ messages' = Saved(x, msg)
        /\ fresh' = [fresh EXCEPT ![x] = FALSE]
        /\ PassOn(x)
        /\ UNCHANGED <<status, round, roster, order, known, callVars, early>>

\* An internal agent has answered, be it with nothing.
Speak(x) ==
    /\ at[x] = "turn"
    /\ Speaker(x) \notin External
    /\ Record(x, "said")
    /\ UNCHANGED faults

\* An internal agent that was deleted is passed over.
Skip(x) ==
    /\ at[x] = "turn"
    /\ Speaker(x) \notin External
    /\ Fault
    /\ PassOn(x)
    /\ UNCHANGED <<row, order, mine, fresh, known, callVars, early>>

\* The callback of an external agent returns an answer, or fails.
Callback(x) ==
    /\ at[x] = "turn"
    /\ Speaker(x) \in Hooked
    /\ \/ Record(x, "heard") /\ UNCHANGED faults
       \/ Record(x, "silent") /\ Fault

\* Mutant of AnswersTo: the round of a message is not compared.
AnswersToAnyRound(x) == {i \in DOMAIN messages : messages[i].by = Speaker(x)}

AnswersTo(x) ==
    {i \in DOMAIN messages : messages[i].by = Speaker(x) /\ messages[i].round = turn[x][1]}

First(S) == CHOOSE i \in S : \A j \in S : i <= j

\* Mutant of Poll: the wait has no end.
PollForever(x) ==
    /\ at[x] = "turn"
    /\ Speaker(x) \in Pushers
    /\ fresh' = [fresh EXCEPT ![x] = TRUE]
    /\ known' = [known EXCEPT ![x] = status]
    /\ IF AnswersTo(x) = {}
       THEN UNCHANGED at
       ELSE at' = [at EXCEPT ![x] = IF messages[First(AnswersTo(x))].what = "silent"
                                    THEN "silent" ELSE "heard"]
    /\ UNCHANGED <<row, turn, order, mine, callVars, histVars>>

\* The row is refreshed and searched for the answer; the last time, the wait is over
\* without one. What another executor recorded for the turn counts as an answer.
Poll(x) ==
    /\ at[x] = "turn"
    /\ Speaker(x) \in Pushers
    /\ fresh' = [fresh EXCEPT ![x] = TRUE]
    /\ known' = [known EXCEPT ![x] = status]
    /\ IF AnswersTo(x) = {}
       THEN at' = at \/ at' = [at EXCEPT ![x] = "silent"]
       ELSE at' = [at EXCEPT ![x] = IF messages[First(AnswersTo(x))].what = "silent"
                                    THEN "silent" ELSE "heard"]
    /\ UNCHANGED <<row, turn, order, mine, callVars, histVars>>

\* After the viewer was sent the answer, a message of the executor's own records it.
RecordAnswer(x) ==
    /\ at[x] \in {"heard", "silent"}
    /\ Record(x, at[x])
    /\ UNCHANGED faults

RoundsOver(x) == at[x] = "round" /\ turn[x][1] = Rounds

Verdict == [by |-> Synthesizer, round |-> Rounds + 1, what |-> "said"]

Synthesize(x) ==
    /\ HasSynthesizer
    /\ RoundsOver(x)
    /\ at' = [at EXCEPT ![x] = "verdict"]
    /\ SetStatus(x, "synthesizing")
    /\ UNCHANGED <<round, roster, messages, turn, order, mine, fresh, callVars, histVars>>

\* The generator ends, and its local state with it.
Close(x, place) ==
    /\ at' = [at EXCEPT ![x] = place]
    /\ turn' = [turn EXCEPT ![x] = <<0, 0>>]
    /\ order' = [order EXCEPT ![x] = <<>>]
    /\ mine' = [mine EXCEPT ![x] = <<>>]
    /\ fresh' = [fresh EXCEPT ![x] = TRUE]
    /\ known' = [known EXCEPT ![x] = "pending"]

\* The verdict is a message of its own, unless the synthesizer was deleted.
Complete(x) ==
    /\ IF HasSynthesizer THEN at[x] = "verdict" ELSE RoundsOver(x)
    /\ \/ HasSynthesizer /\ messages' = Saved(x, Verdict)
       \/ UNCHANGED messages
    /\ status' = Assigned(x, "completed")
    /\ Close(x, "ended")
    /\ UNCHANGED <<round, roster, callVars, histVars>>

\* The viewer's connection ends, the process dies, or the verdict raises: the row stays
\* as it is.
Cut(x) ==
    /\ at[x] \notin {"idle", "ended", "cut"}
    /\ Fault
    /\ Close(x, "cut")
    /\ UNCHANGED <<row, callVars, early>>

-------------------------------------------------------------------------------
(* The other requests: each loads the row, checks it, and commits a new list.*)

Ask(q, op, who, r, seen) ==
    /\ req[q] = Nothing
    /\ calls < MaxCalls
    /\ calls' = calls + 1
    /\ req' = [req EXCEPT ![q] = [op |-> op, who |-> who, round |-> r, seen |-> seen]]
    /\ UNCHANGED <<row, runVars, accepted, histVars>>

\* Who leaves the debate open to external agents; a name joins once.
Join(q, e) ==
    /\ status # "completed"
    /\ Len(roster) < MaxParticipants
    /\ \A i \in DOMAIN roster : roster[i] # e
    /\ Ask(q, "join", e, 0, roster)

\* Mutant of Respond: earlier answers are not looked for.
RespondAgain(q, e, r) ==
    /\ \E i \in DOMAIN roster : roster[i] = e
    /\ Ask(q, "respond", e, r, messages)

\* Neither the status nor the current round is looked at.
Respond(q, e, r) ==
    /\ \E i \in DOMAIN roster : roster[i] = e
    /\ Answer(e, r) \notin TurnsOf(messages)
    /\ Ask(q, "respond", e, r, messages)

Stop(q) == status \in {"active", "synthesizing"} /\ Ask(q, "stop", None, 0, <<>>)

\* update_debate, here of the participants.
Edit(q) == status = "pending" /\ Ask(q, "edit", None, 0, <<>>)

Finish(q, op) ==
    /\ req[q].op = op
    /\ req' = [req EXCEPT ![q] = Nothing]
    /\ UNCHANGED <<round, runVars, calls, histVars>>

FinishJoin(q) ==
    /\ Finish(q, "join")
    /\ roster' = Append(req[q].seen, req[q].who)
    /\ UNCHANGED <<status, messages, accepted>>

FinishRespond(q) ==
    /\ Finish(q, "respond")
    /\ messages' = Append(req[q].seen, [by |-> req[q].who, round |-> req[q].round,
                                        what |-> "pushed"])
    /\ accepted' = accepted \cup {Answer(req[q].who, req[q].round)}
    /\ UNCHANGED <<status, roster>>

FinishStop(q) ==
    /\ Finish(q, "stop")
    /\ status' = "completed"
    /\ UNCHANGED <<roster, messages, accepted>>

\* The participants are the owner's again, whoever joined.
FinishEdit(q) ==
    /\ Finish(q, "edit")
    /\ roster' = Internal
    /\ UNCHANGED <<status, messages, accepted>>

-------------------------------------------------------------------------------
RunStep(x) ==
    \/ Open(x)
    \/ BeginRound(x)
    \/ Speak(x)
    \/ Skip(x)
    \/ Callback(x)
    \/ Poll(x)
    \/ RecordAnswer(x)
    \/ Synthesize(x)
    \/ Complete(x)

RequestNext(q) ==
    \/ \E e \in External : Join(q, e)
    \/ \E e \in External, r \in 1..Rounds + 1 : Respond(q, e, r)
    \/ Stop(q)
    \/ Edit(q)
    \/ FinishJoin(q)
    \/ FinishRespond(q)
    \/ FinishStop(q)
    \/ FinishEdit(q)

Next ==
    \/ \E x \in Runs : Start(x)
    \/ \E x \in Runs : RunStep(x)
    \/ \E x \in Runs : Cut(x)
    \/ \E q \in Requests : RequestNext(q)

Spec == Init /\ [][Next]_vars

\* An agent's stream ends, a callback or a wait for an answer ends within its two
\* minutes, and the executor goes on.
Fairness == \A x \in Runs : WF_vars(RunStep(x))

FairSpec == Spec /\ Fairness

-------------------------------------------------------------------------------
(* Properties.                                                               *)

\* Two messages of one turn: it was answered before the debate was started.
Once(list) ==
    \A i, j \in DOMAIN list :
        i # j /\ list[i].by = list[j].by /\ list[i].round = list[j].round
            => Answer(list[i].by, list[i].round) \in early

\* The transcript has one message for each turn, though answers are pushed by the
\* agents, copied by the executors and written back as whole lists by all of them,
\* unless the answer was pushed before the debate was started: an executor takes
\* that into its list and records it once more when it polls.
OnceEach == Once(messages)

Own(list) ==
    \A i \in DOMAIN list :
        list[i].by \in Pushers /\ list[i].what # "silent"
            => Answer(list[i].by, list[i].round) \in accepted

\* No agent's answer is invented or taken from another round: what a pushing agent is
\* recorded to have answered in a round, it was told was accepted for that round.
WordsAreOwn == Own(messages)

\* A debate that was started ends, whoever answers, joins, stops it or starts it a
\* second time, unless a viewer's connection was cut off.
Ends ==
    status \in {"active", "synthesizing"} ~> (status = "completed" \/ \E x \in Runs : at[x] = "cut")

\* When a debate ends, whatever was said and shown to the viewer is stored: "Stores
\* multi-agent debate sessions with participants, messages, and configuration"
\* (models/debate_session.py:4), "Record the message" (debate_executor.py:257).
TranscriptKept ==
    [][\A x \in Runs : Complete(x) => TurnsOf(mine[x]) \subseteq TurnsOf(messages')]_vars

-------------------------------------------------------------------------------
(* Why the transcript is honest: the inductive invariant.                    *)

Taking == {"turn", "heard", "silent"}
Closed == {"idle", "ended", "cut"}

\* An executor at a turn is at one of the participants that it read.
TurnsAreTaken ==
    /\ Len(roster) > 0
    /\ \A x \in Runs :
        /\ at[x] \notin Closed => Len(order[x]) \in 1..MaxParticipants
        /\ at[x] \in Taking => turn[x][1] \in 1..Rounds /\ turn[x][2] \in 1..Len(order[x])

\* What a request is about to write is what its operation writes.
RequestsFit ==
    \A q \in Requests :
        /\ req[q].op = "join" =>
            /\ req[q].who \in External
            /\ req[q].seen \in Seq(Agents) /\ Len(req[q].seen) < MaxParticipants
        /\ req[q].op = "respond" =>
            /\ req[q].who \in External /\ req[q].round \in 1..Rounds + 1
            /\ req[q].seen \in Seq(Messages)

ByExternal(list) == \A i \in DOMAIN list : list[i].by \in External

\* Before a debate is started only external agents have said anything.
PendingIsQuiet ==
    /\ \A x \in Runs : at[x] \in {"idle", "starting"} => known[x] = "pending"
    /\ status = "pending" =>
        /\ \A x \in Runs : at[x] \in {"idle", "starting", "cut"}
        /\ ByExternal(messages)
        /\ \A q \in Requests : req[q].op = "respond" => ByExternal(req[q].seen)

\* Every list that will be written is honest, and what an executor has polled was
\* accepted.
ListsAreOwn ==
    /\ \A x \in Runs : Own(mine[x])
    /\ \A q \in Requests : req[q].op = "respond" => Own(req[q].seen)
    /\ \A x \in Runs : at[x] = "heard" => Answer(Speaker(x), turn[x][1]) \in accepted

DebateInv ==
    /\ TypeOK
    /\ TurnsAreTaken
    /\ RequestsFit
    /\ PendingIsQuiet
    /\ ListsAreOwn
    /\ WordsAreOwn

-------------------------------------------------------------------------------
(* Why the transcript has each turn once: the inductive invariant.           *)

\* Nobody is in the order of turns twice, nor will be once a join is committed.
NobodyTwice ==
    /\ IsInjective(roster)
    /\ \A x \in Runs : IsInjective(order[x])
    /\ \A q \in Requests : req[q].op = "join" =>
          IsInjective(req[q].seen) /\ \A i \in DOMAIN req[q].seen : req[q].seen[i] # req[q].who

\* Executor x has had the turn of agent e in round r.
Had(x, e, r) ==
    \/ r < turn[x][1]
    \/ r = turn[x][1] /\ at[x] \notin Taking
    \/ r = turn[x][1] /\ \E k \in 1..(turn[x][2] - 1) : e = order[x][k]

\* An executor's list has what was there at the start, and turns that it has had.
OnlyHadTurns ==
    \A x \in Runs : \A i \in DOMAIN mine[x] :
        \/ Answer(mine[x][i].by, mine[x][i].round) \in early
        \/ Had(x, mine[x][i].by, mine[x][i].round)

\* Every list that will be written has each turn once, and will when it is written.
ListsAreOnce ==
    /\ \A x \in Runs : Once(mine[x])
    /\ \A q \in Requests : req[q].op = "respond" =>
          Once(req[q].seen) /\ Answer(req[q].who, req[q].round) \notin TurnsOf(req[q].seen)

OnceInv ==
    /\ NobodyTwice
    /\ OnlyHadTurns
    /\ ListsAreOnce
    /\ OnceEach

===============================================================================
