-------------------------------- MODULE Reports --------------------------------
(***************************************************************************)
(* A report's way from the file of the user who sends it to the summaries  *)
(* of those who joined the game.  Each user sits at one client program,    *)
(* logged in on one connection, and has joined its games by now; nobody    *)
(* leaves a game but one whose report is refused.                          *)
(* Between any two steps of one thread any other may run: the client's     *)
(* keyboard and server listeners and the connection's server thread, which *)
(* works on the lists of ConnectionsImpl as in StompThreads.  No file has  *)
(* a NUL in one of its strings: it would end a frame in the middle.        *)
(***************************************************************************)
EXTENDS EventFile

CONSTANTS
  Users,           \* user names, which are texts
  Joined,          \* the games (channel names, texts) each user has joined
  JoinedInOrder,   \* the list of each game: who has joined it, the first one first
  Files,           \* what the files contain, as json::parse gives it
  Plans,           \* bound: the sequences of files each user may report
  Readers          \* who asks for summaries

ASSUME ReportsAssumption ==
  /\ DOMAIN Joined = Users
  /\ Readers \subseteq Users

(* A text that keeps within its line and, with others, within its field *)
Within(text, separators) == ToSet(text) \cap separators = {}

(* What the server reads from a header: a field that is not empty *)
IsName(text) == text \in Texts /\ text # Empty /\ Within(text, {NL, Colon})

ASSUME NamesAssumption ==
  \A u \in Users : IsName(u) /\ \A game \in Joined[u] : IsName(game)

ASSUME FilesAssumption == \A file \in DOMAIN Files : IsFile(Files[file])

Games == UNION {Joined[u] : u \in Users}

ASSUME ListsAssumption ==
  \A game \in Games :
    /\ JoinedInOrder[game] \in Seq(Users)
    /\ ToSet(JoinedInOrder[game]) = {u \in Users : game \in Joined[u]}
    /\ IsInjective(JoinedInOrder[game])

VARIABLES
  program,         \* each client: running, ended by an ERROR, crashed, or undefined
  framesAsStringsQ,            \* frames of the report command being sent
  toServer, toClient,          \* each connection's texts on their way
  open,                        \* whether the server still serves the connection
  thread,          \* where each connection's server thread is, and its local variables
  channelToConnectionIdsList,  \* the list of each game
  gameNameUserNameToFramesList,   \* bodies stored by each client, by game and sender
  summarizing,     \* the summary under way: its key, the frames stored at its start, and
                   \* whether a store has met the copy of them
  output,          \* the last summary written
  reported,        \* history: per user the events of the files reported, oldest first
  disturbed        \* history: users and games on which, while a report of the user's was
                   \* being sent on, somebody was removed from the list

serverVars == <<open, thread, channelToConnectionIdsList, disturbed>>
clientVars == <<program, framesAsStringsQ, gameNameUserNameToFramesList, summarizing, output,
                reported>>

vars == <<clientVars, toServer, toClient, serverVars>>

Nobody == Throws

(* at: what the server thread does next; "read" between two frames.  next, stale: the
   iterator over the game's list, and whether another thread has modified the list since
   it was made.  addressee: what next() returned.  leaving: games yet to be left. *)
Thread(at) ==
  [at |-> at, game |-> Empty, message |-> Empty, next |-> 1, stale |-> FALSE,
   addressee |-> Nobody, leaving |-> {}]

Init ==
  /\ program = [u \in Users |-> "running"]
  /\ framesAsStringsQ = [u \in Users |-> <<>>]
  /\ toServer = [u \in Users |-> <<>>]
  /\ toClient = [u \in Users |-> <<>>]
  /\ open = [u \in Users |-> TRUE]
  /\ thread = [u \in Users |-> Thread("read")]
  /\ channelToConnectionIdsList = [game \in Games |-> JoinedInOrder[game]]
  /\ gameNameUserNameToFramesList = [u \in Users |-> Empty]
  /\ summarizing = [u \in Users |-> Nobody]
  /\ output = [u \in Users |-> Nobody]
  /\ reported = [u \in Users |-> <<>>]
  /\ disturbed = {}

Running(u) == program[u] = "running"

(* Mutant: a line may be typed while another is under way. *)
AlwaysAtKeyboard(u) == Running(u)

(* The keyboard listener is back in getline. *)
AtKeyboard(u) == Running(u) /\ framesAsStringsQ[u] = <<>> /\ summarizing[u] = Nobody

(* An exception that leaves a thread's function, or an end of main, takes the whole
   program with it. *)
Stop(u, how) == program' = [program EXCEPT ![u] = how]

-----------------------------------------------------------------------------
(* The keyboard listener *)

(* report <file>: the frames are made at once, and the program dies of a file that
   cannot be read as one of events. *)
StartSending(u, frames) ==
  \/ frames = Throws /\ Stop(u, "crashed") /\ UNCHANGED framesAsStringsQ
  \/ /\ frames # Throws
     /\ framesAsStringsQ' = [framesAsStringsQ EXCEPT ![u] = frames]
     /\ UNCHANGED program

Report(u, file) ==
  /\ AtKeyboard(u)
  /\ \E plan \in Plans[u] : IsPrefix(Append(reported[u], file), plan)
  /\ reported' = [reported EXCEPT ![u] = Append(@, file)]
  /\ StartSending(u, reportProcess(u, Files[file]))
  /\ UNCHANGED <<toServer, toClient, serverVars, gameNameUserNameToFramesList, summarizing, output>>

(* One frame is written, if nothing has ended the session meanwhile; what is written
   to a closed connection is lost. *)
SendNext(u) ==
  /\ Running(u)
  /\ framesAsStringsQ[u] # <<>>
  /\ framesAsStringsQ' = [framesAsStringsQ EXCEPT ![u] = Tail(@)]
  /\ toServer' = [toServer EXCEPT ![u] = IF open[u] THEN Append(@, Head(framesAsStringsQ[u])) ELSE @]
  /\ UNCHANGED <<program, toClient, serverVars, gameNameUserNameToFramesList, summarizing,
                 output, reported>>

(* summary <game> <user>, up to the copy of the stored frames.  Without any nothing
   happens but a line on the screen. *)
StartSummary(u, key) ==
  /\ u \in Readers
  /\ AtKeyboard(u)
  /\ key \in DOMAIN gameNameUserNameToFramesList[u]
  /\ summarizing' = [summarizing EXCEPT ![u] =
       [key |-> key, begun |-> Len(gameNameUserNameToFramesList[u][key]), torn |-> FALSE]]
  /\ UNCHANGED <<program, framesAsStringsQ, toServer, toClient, serverVars,
                 gameNameUserNameToFramesList, output, reported>>

WriteSummary(u, summary) ==
  output' = [output EXCEPT ![u] =
    [key |-> summarizing[u].key, begun |-> summarizing[u].begun,
     torn |-> summarizing[u].torn, summary |-> summary]]

(* The frames are copied and merged and the file is written. *)
SummarizeAll(u, game, bodies) ==
  LET summary == summaryProcess(game, bodies) IN
  /\ ~summarizing[u].torn
  /\ \/ summary = Throws /\ Stop(u, "crashed") /\ UNCHANGED output
     \/ summary # Throws /\ WriteSummary(u, summary) /\ UNCHANGED program

(* What a copy has that a store has met is anything; if the program goes on with it, some
   of the frames stand for it. *)
SummarizeTorn(u, game, bodies) ==
  /\ summarizing[u].torn
  /\ \/ Stop(u, "undefined") /\ UNCHANGED output
     \/ \E n \in 0 .. Len(bodies) :
          LET summary == summaryProcess(game, SubSeq(bodies, 1, n)) IN
          summary # Throws /\ WriteSummary(u, summary) /\ UNCHANGED program

FinishSummary(u) ==
  LET key == summarizing[u].key
      bodies == gameNameUserNameToFramesList[u][key]
  IN
  /\ Running(u)
  /\ summarizing[u] # Nobody
  /\ SummarizeAll(u, key[1], bodies) \/ SummarizeTorn(u, key[1], bodies)
  /\ summarizing' = [summarizing EXCEPT ![u] = Nobody]
  /\ UNCHANGED <<framesAsStringsQ, toServer, toClient, serverVars,
                 gameNameUserNameToFramesList, reported>>

-----------------------------------------------------------------------------
(* The connection's thread in the server *)

(* The ids of the subscription and of the message are left out. *)
MessageFrame(game, body) ==
  Frame(<<"MESSAGE">>, [h \in {<<"destination">>, <<"subscription">>, <<"message-id">>} |->
                          IF h = <<"destination">> THEN game ELSE <<"id">>], body)

ErrorFrame ==
  Frame(<<"ERROR">>, [h \in {<<"message">>} |-> <<"User isnt subscribed to this channel">>], Empty)

At(u, where) == thread[u].at = where

Goto(u, where) == thread' = [thread EXCEPT ![u].at = where]

(* The handler returns and the thread reads on. *)
Return(u) == thread' = [thread EXCEPT ![u] = Thread("read")]

(* The thread ends, by itself or by an exception, and its socket is closed. *)
End(u) == Return(u) /\ open' = [open EXCEPT ![u] = FALSE]

(* sendProcess: the ERROR goes out before the sender is removed from the lists; or the
   for loop gets its iterator over the game's list. *)
sendProcess(u, game, body) ==
  \/ /\ game \notin Joined[u]
     /\ toClient' = [toClient EXCEPT ![u] = Append(@, encode(ErrorFrame))]
     /\ thread' = [thread EXCEPT ![u] = [Thread("leave") EXCEPT !.leaving = Joined[u]]]
  \/ /\ game \in Joined[u]
     /\ thread' = [thread EXCEPT ![u] =
          [Thread("send") EXCEPT !.game = game, !.message = encode(MessageFrame(game, body))]]
     /\ UNCHANGED toClient

(* A frame that cannot be decoded ends the connection's thread. *)
Handle(u, f) ==
  \/ f = Throws /\ End(u) /\ UNCHANGED toClient
  \/ f # Throws /\ sendProcess(u, f.headers[<<"destination">>], f.body) /\ UNCHANGED open

Forward(u) ==
  /\ open[u]
  /\ At(u, "read")
  /\ toServer[u] # <<>>
  /\ toServer' = [toServer EXCEPT ![u] = Tail(@)]
  /\ Handle(u, extractFrame(Head(toServer[u])))
  /\ UNCHANGED <<clientVars, channelToConnectionIdsList, disturbed>>

(* The list that the thread's iterator is over, and hasNext(), which compares with the
   size the list has now *)
IdsList(u) == channelToConnectionIdsList[thread[u].game]

HasNext(u) == thread[u].next <= Len(IdsList(u))

(* next() fails after a modification by another thread, and the exception ends this one. *)
Interrupted(u) == thread[u].stale /\ End(u)

(* ConnectionsImpl.send(channel, msg): whoever joined the game, the sender among them *)
SendLoop(u) ==
  /\ At(u, "send")
  /\ \/ HasNext(u) /\ Goto(u, "send_next")
     \/ ~HasNext(u) /\ Return(u)
  /\ UNCHANGED <<clientVars, toServer, toClient, open, channelToConnectionIdsList, disturbed>>

NextAddressee(u) ==
  /\ At(u, "send_next")
  /\ \/ Interrupted(u)
     \/ /\ ~thread[u].stale
        /\ thread' = [thread EXCEPT ![u].at = "send_to", ![u].next = @ + 1,
                                    ![u].addressee = IdsList(u)[thread[u].next]]
        /\ UNCHANGED open
  /\ UNCHANGED <<clientVars, toServer, toClient, channelToConnectionIdsList, disturbed>>

(* What is sent to a closed connection is lost. *)
SendTo(u) ==
  LET v == thread[u].addressee IN
  /\ At(u, "send_to")
  /\ toClient' = [toClient EXCEPT ![v] = IF open[v] THEN Append(@, thread[u].message) ELSE @]
  /\ thread' = [thread EXCEPT ![u].at = "send", ![u].addressee = Nobody]
  /\ UNCHANGED <<clientVars, toServer, open, channelToConnectionIdsList, disturbed>>

(* ConnectionsImpl.disconnect, after an ERROR: removeIf over the list of one game after the
   other, then the thread leaves its loop *)
LeaveGame(u) ==
  /\ At(u, "leave")
  /\ \/ /\ thread[u].leaving = {}
        /\ End(u)
     \/ \E game \in thread[u].leaving :
          /\ thread' = [thread EXCEPT ![u] = [Thread("removeIf") EXCEPT
                                               !.game = game, !.leaving = thread[u].leaving \ {game}]]
          /\ UNCHANGED open
  /\ UNCHANGED <<clientVars, toServer, toClient, channelToConnectionIdsList, disturbed>>

RemoveLoop(u) ==
  /\ At(u, "removeIf")
  /\ \/ HasNext(u) /\ Goto(u, "remove_next")
     \/ /\ ~HasNext(u)
        /\ thread' = [thread EXCEPT ![u] = [Thread("leave") EXCEPT !.leaving = thread[u].leaving]]
  /\ UNCHANGED <<clientVars, toServer, toClient, open, channelToConnectionIdsList, disturbed>>

Sending == {"send", "send_next", "send_to"}

(* Whose report on the thread's game is being sent on *)
SendersOn(game) == {w \in Users : thread[w].at \in Sending /\ thread[w].game = game}

(* u is removed from the list: the iterators of the other threads over it are stale. *)
RemoveOwn(u, game) ==
  /\ channelToConnectionIdsList' =
       [channelToConnectionIdsList EXCEPT ![game] = RemoveAt(@, thread[u].next)]
  /\ thread' = [w \in Users |->
       IF w = u THEN [thread[w] EXCEPT !.at = "removeIf"]
       ELSE [thread[w] EXCEPT !.stale = @ \/ thread[w].game = game]]
  /\ disturbed' = disturbed \cup {<<w, game>> : w \in SendersOn(game)}
  /\ UNCHANGED open

(* next(), the comparison and remove *)
RemoveNext(u) ==
  LET game == thread[u].game
      n == thread[u].next
  IN
  /\ At(u, "remove_next")
  /\ \/ Interrupted(u) /\ UNCHANGED <<channelToConnectionIdsList, disturbed>>
     \/ ~thread[u].stale /\ IdsList(u)[n] = u /\ RemoveOwn(u, game)
     \/ /\ ~thread[u].stale
        /\ IdsList(u)[n] # u
        /\ thread' = [thread EXCEPT ![u].at = "removeIf", ![u].next = n + 1]
        /\ UNCHANGED <<open, channelToConnectionIdsList, disturbed>>
  /\ UNCHANGED <<clientVars, toServer, toClient>>

-----------------------------------------------------------------------------
(* The server listener *)

(* What the second field of the first line of a body names *)
SenderOf(body) == Field(split(body, <<NL>>)[1], 2)

StoredUnder(u, key) ==
  IF key \in DOMAIN gameNameUserNameToFramesList[u]
  THEN gameNameUserNameToFramesList[u][key] ELSE <<>>

(* Mutant: the frame is added to a copy of the list. *)
StoreInCopy(u, key, body) ==
  gameNameUserNameToFramesList' =
    [gameNameUserNameToFramesList EXCEPT ![u] =
       [k \in DOMAIN @ \cup {key} |-> StoredUnder(u, k)]]

Store(u, key, body) ==
  gameNameUserNameToFramesList' =
    [gameNameUserNameToFramesList EXCEPT ![u] =
       [k \in DOMAIN @ \cup {key} |->
          IF k = key THEN Append(StoredUnder(u, k), body) ELSE StoredUnder(u, k)]]

(* A store while the keyboard listener looks up and copies: without a lock the two may
   meet in the tree, where a new key goes in, or in the list that grows.  It may go well
   all the same, the copy may be torn, or anything may happen. *)
Races(u, key) ==
  /\ summarizing[u] # Nobody
  /\ key = summarizing[u].key \/ key \notin DOMAIN gameNameUserNameToFramesList[u]

MeetCopy(u) ==
  \/ summarizing' = [summarizing EXCEPT ![u].torn = TRUE] /\ UNCHANGED program
  \/ Stop(u, "undefined") /\ UNCHANGED summarizing

(* processFromServer, for a MESSAGE *)
processMessage(u, game, sender, body) ==
  \/ /\ sender = Throws
     /\ Stop(u, "crashed")
     /\ UNCHANGED <<gameNameUserNameToFramesList, summarizing>>
  \/ /\ sender # Throws
     /\ Store(u, <<game, sender>>, body)
     /\ \/ UNCHANGED <<program, summarizing>>
        \/ Races(u, <<game, sender>>) /\ MeetCopy(u)

(* A text that is no frame is an exception too. *)
processFromServer(u, f) ==
  IF f = Throws
  THEN Stop(u, "crashed") /\ UNCHANGED <<gameNameUserNameToFramesList, summarizing>>
  ELSE \/ /\ f.command = <<"ERROR">>
          /\ Stop(u, "ended")
          /\ UNCHANGED <<gameNameUserNameToFramesList, summarizing>>
       \/ /\ f.command = <<"MESSAGE">>
          /\ processMessage(u, f.headers[<<"destination">>], SenderOf(f.body), f.body)

Listen(u) ==
  /\ Running(u)
  /\ toClient[u] # <<>>
  /\ toClient' = [toClient EXCEPT ![u] = Tail(@)]
  /\ processFromServer(u, stringToFrameFromServer(Head(toClient[u])))
  /\ UNCHANGED <<framesAsStringsQ, toServer, serverVars, output, reported>>

-----------------------------------------------------------------------------
Next ==
  \E u \in Users :
    \/ \E file \in DOMAIN Files : Report(u, file)
    \/ \E key \in DOMAIN gameNameUserNameToFramesList[u] : StartSummary(u, key)
    \/ SendNext(u)
    \/ FinishSummary(u)
    \/ Forward(u)
    \/ SendLoop(u) \/ NextAddressee(u) \/ SendTo(u)
    \/ LeaveGame(u) \/ RemoveLoop(u) \/ RemoveNext(u)
    \/ Listen(u)

Spec == Init /\ [][Next]_vars

-----------------------------------------------------------------------------
(* What a file says, read off its JSON *)

TextOf(event, key) == Member(event, key).text

Events(data) == JsonElements(Member(data, <<"events">>))

(* The events w has reported on a game, oldest first *)
GameOf(data) == TextOf(data, TeamA) \o <<Underscore>> \o TextOf(data, TeamB)

EventsOn == [game \in Games |->
  [file \in DOMAIN Files |-> IF GameOf(Files[file]) = game THEN Events(Files[file]) ELSE <<>>]]

ReportedOn(w, game) ==
  FlattenSeq([i \in DOMAIN reported[w] |-> EventsOn[game][reported[w][i]]])

PlainUpdates(j) ==
  /\ j.type = "object"
  /\ \A k \in DOMAIN j.members :
       /\ Within(k, {NL, Colon}) /\ Within(j.members[k].text, {NL, Colon})
       /\ k \notin {TeamALabel, TeamBLabel, DescriptionLabel}

PlainEvent(event) ==
  LET name        == Member(event, <<"event name">>)
      time        == Member(event, <<"time">>)
      description == Member(event, DescriptionLabel)
  IN  /\ event.type = "object"
      /\ name.type = "string" /\ Within(name.text, {NL, Colon})
      /\ time.type = "number" /\ time.value \in Ints /\ time.text = <<ToString(time.value)>>
      /\ description.type = "string" /\ Within(description.text, {NL}) /\ description.text # Empty
      /\ \A label \in {GeneralLabel, TeamALabel, TeamBLabel} : PlainUpdates(Member(event, label))

(* A file nothing in which collides with the separators of frames, bodies and names *)
Plain(data) ==
  /\ data.type = "object"
  /\ \A team \in {TeamA, TeamB} :
       Member(data, team).type = "string" /\ Within(TextOf(data, team), Separators)
  /\ \A i \in DOMAIN Events(data) : PlainEvent(Events(data)[i])

PlainFiles == {file \in DOMAIN Files : Plain(Files[file])}

(* What is computed of plain files is no exception. *)
PlainKeys ==
  UNION {DOMAIN Member(event, label).members :
           event \in UNION {ToSet(Events(Files[file])) : file \in PlainFiles},
           label \in {GeneralLabel, TeamALabel, TeamBLabel}}

PlainMaps == UNION {[S -> Texts] : S \in SUBSET PlainKeys}

Frames(headers) == [command : Texts, headers : [headers -> Texts], body : Texts]

EventFields == [name : Texts, time : Int, description : Texts,
                game : PlainMaps, team_a : PlainMaps, team_b : PlainMaps]

Summaries == [team_a : Texts, team_b : Texts,
              general : PlainMaps, a_stats : PlainMaps, b_stats : PlainMaps,
              reports : Seq(Texts \X Texts \X Texts)]

ASSUME ThrowsAssumption ==
  /\ Throws \notin Int /\ Throws \notin Texts /\ Throws \notin Seq(Texts)
  /\ Throws \notin Frames({<<"destination">>}) /\ Throws \notin Frames({<<"message">>})
  /\ Throws \notin Frames({<<"destination">>, <<"subscription">>, <<"message-id">>})
  /\ Throws \notin EventFields /\ Throws \notin ReportRecords /\ Throws \notin Summaries
  /\ Throws \notin [team_a : Texts, team_b : Texts, events : Seq(EventFields)]

ReportsPlainly(w) == ToSet(reported[w]) \subseteq PlainFiles

(* The value an update has after a number of events, the last that gives one *)
LastValues(events, label) ==
  LET updatesOf(i) == Member(events[i], label).members
      giving(k) == {i \in DOMAIN events : k \in DOMAIN updatesOf(i)}
  IN  [k \in UNION {DOMAIN updatesOf(i) : i \in DOMAIN events} |->
         updatesOf(Max(giving(k)))[k].text]

(* What a summary tells of an event itself *)
Told(event) ==
  <<TextOf(event, <<"time">>), TextOf(event, <<"event name">>), TextOf(event, DescriptionLabel)>>

(* Where one team's name ends and the other's begins *)
BetweenTeams(game) == Min({i \in DOMAIN game : game[i] = Underscore})

(* The summary that a number of events should give *)
SummaryOf(game, events) ==
  [team_a |-> SubSeq(game, 1, BetweenTeams(game) - 1),
   team_b |-> SubSeq(game, BetweenTeams(game) + 1, Len(game)),
   general |-> LastValues(events, GeneralLabel),
   a_stats |-> LastValues(events, TeamALabel), b_stats |-> LastValues(events, TeamBLabel),
   reports |-> [i \in DOMAIN events |-> Told(events[i])]]

-----------------------------------------------------------------------------
(* Properties *)

TypeOK ==
  /\ program \in [Users -> {"running", "ended", "crashed", "undefined"}]
  /\ framesAsStringsQ \in [Users -> Seq(Texts)]
  /\ toServer \in [Users -> Seq(Texts)]
  /\ toClient \in [Users -> Seq(Texts)]
  /\ open \in [Users -> BOOLEAN]
  /\ channelToConnectionIdsList \in [Games -> Seq(Users)]
  /\ \A u \in Users :
       /\ ~At(u, "read") => open[u]
       /\ thread[u].at \in {"send_next", "remove_next"} /\ ~thread[u].stale => HasNext(u)
       /\ At(u, "send_to") => thread[u].addressee \in Users
       /\ gameNameUserNameToFramesList[u] \in
            [DOMAIN gameNameUserNameToFramesList[u] -> Seq(Texts) \ {<<>>}]
       /\ summarizing[u] # Nobody =>
            /\ summarizing[u].key \in DOMAIN gameNameUserNameToFramesList[u]
            /\ framesAsStringsQ[u] = <<>>
       /\ reported[u] \in Seq(DOMAIN Files)

(* Whatever else is reported by others and however the threads interleave, what a user
   who reports plain files has told about a game is stored by everyone who joined it
   under that user's name, in order and without a repetition, and reads as it was
   reported (reportProcess, the codecs, processFromServer).  It has no gap either, the
   refusals of others between two reports notwithstanding; only one in the middle of a
   report, which takes its sender from the list, may make the loop miss somebody. *)
StoredReportsAreWhole ==
  \A v, w \in Users : \A game \in Joined[v] :
    ReportsPlainly(w) /\ <<w, game>> \notin disturbed =>
      LET bodies == StoredUnder(v, <<game, w>>)
          events == ReportedOn(w, game)
      IN  /\ Len(bodies) <= Len(events)
          /\ \A i \in DOMAIN bodies :
               LET report == ReadReport(bodies[i]) IN
               /\ report # Throws
               /\ report.name = TextOf(events[i], <<"event name">>)
               /\ report.time = TextOf(events[i], <<"time">>)
               /\ report.description = TextOf(events[i], DescriptionLabel)
               /\ PutAll(report.game) = LastValues(<<events[i]>>, GeneralLabel)
               /\ PutAll(report.team_a) = LastValues(<<events[i]>>, TeamALabel)
               /\ PutAll(report.team_b) = LastValues(<<events[i]>>, TeamBLabel)

(* A summary of a user who reports plain files is what the events give that had been
   stored when it was asked for, and maybe some that were stored since, though they are
   merged from texts (summaryProcess): where no store has torn the copy, and no refusal
   has met a report. *)
SummaryTellsTheReports ==
  \A u \in Users :
    output[u] # Nobody /\ ~output[u].torn =>
      LET game == output[u].key[1]
          w == output[u].key[2]
      IN  w \in Users /\ ReportsPlainly(w) /\ <<w, game>> \notin disturbed =>
            \E n \in output[u].begun .. Len(ReportedOn(w, game)) :
              output[u].summary = SummaryOf(game, SubSeq(ReportedOn(w, game), 1, n))

(* An exception of its own ends a client program ("crashed") only where somebody reports a
   file that is not plain: a report on a game it has not joined, or its summary, never
   does.  What comes of a store that meets a summary ("undefined") is another matter. *)
PlainReportsAreHarmless ==
  \A u \in Users :
    program[u] = "crashed" =>
      \/ ~ReportsPlainly(u)
      \/ \E w \in Users : ~ReportsPlainly(w) /\ Joined[u] \cap Joined[w] # {}

(* The server ends the connection of a user who reports plain files only where it refuses a
   report on a game the user has not joined, or where a refusal meets the sending of a
   report (sendProcess, disconnect): what its decoder reads of such a report never makes it
   throw, which would leave the user logged in for good. *)
PlainReportsKeepTheConnection ==
  \A u \in Users :
    ~open[u] /\ ReportsPlainly(u) =>
      \/ \E i \in DOMAIN reported[u] : GameOf(Files[reported[u][i]]) \notin Joined[u]
      \/ \E game \in Games : <<u, game>> \in disturbed

(* When no frame is on its way, all that was reported in plain files on a game both have
   joined is stored by everyone who joined, to the last event, unless a program or a
   connection of the two has come to an end or is coming to it, or a refusal has met a
   report: frames are lost in no other way. *)
AtRest(u) == Running(u) /\ open[u] /\ At(u, "read")

ReportsArrive ==
  \A v, w \in Users : \A game \in Joined[v] \cap Joined[w] :
    /\ ReportsPlainly(w) /\ <<w, game>> \notin disturbed
    /\ AtRest(v) /\ AtRest(w)
    /\ framesAsStringsQ[w] = <<>> /\ toServer[w] = <<>> /\ toClient[v] = <<>>
    => Len(StoredUnder(v, <<game, w>>)) = Len(ReportedOn(w, game))

-----------------------------------------------------------------------------
(* A statement of the source that the code does not keep *)

(* StompClientProtocol.cpp:354: "i know that the frame is valid".  Every MESSAGE on its
   way to a client names its sender in the first line of its body. *)
FramesAreValid ==
  \A u \in Users : \A i \in DOMAIN toClient[u] :
    LET f == stringToFrameFromServer(toClient[u][i]) IN
    f # Throws /\ (f.command = <<"MESSAGE">> => SenderOf(f.body) # Throws)
================================================================================
