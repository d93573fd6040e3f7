------------------------------- MODULE EventFile -------------------------------
(***************************************************************************)
(* A file of events becomes the bodies of reports, and stored bodies a     *)
(* summary: event.cpp, and reportProcess and summaryProcess of             *)
(* StompClientProtocol.cpp.                                                *)
(***************************************************************************)
EXTENDS Json

(* Keys and labels, which are single words *)
TeamA == <<"team a">>
TeamB == <<"team b">>
GeneralLabel == <<"general game updates">>
TeamALabel == <<"team a updates">>
TeamBLabel == <<"team b updates">>
DescriptionLabel == <<"description">>

-----------------------------------------------------------------------------
(* parseEventsFile *)

(* The values of a file, to the depth that is looked at *)
HasText(j) == j.text \in Texts
IsUpdates(j) == IsJson(j, HasText)
IsEvent(j) == IsJson(j, IsUpdates)
IsEvents(j) == IsJson(j, IsEvent)
IsFile(j) == IsJson(j, IsEvents)

(* A value that is no string is stored as dump() writes it. *)
TextsOf(values) == [k \in DOMAIN values |-> values[k].text]

updates(event, label) == TextsOf(items(Member(event, label)))

(* The fields that cannot be converted are Throws: the whole file then is. *)
Fields(event) ==
  [name |-> AsString(Member(event, <<"event name">>)),
   time |-> AsInt(Member(event, <<"time">>)),
   description |-> AsString(Member(event, DescriptionLabel)),
   game |-> updates(event, GeneralLabel),
   team_a |-> updates(event, TeamALabel), team_b |-> updates(event, TeamBLabel)]

UnlessMissing(fields) ==
  IF fields.name = Throws \/ fields.time = Throws \/ fields.description = Throws
  THEN Throws ELSE fields

(* operator[] works on objects, and on null. *)
HasMembers(j) == j.type \in {"object", "null"}

parseEvent(event) == IF HasMembers(event) THEN UnlessMissing(Fields(event)) ELSE Throws

ParsedFile(team_a, team_b, events) ==
  IF Throws \in {team_a, team_b} \cup ToSet(events) THEN Throws
  ELSE [team_a |-> team_a, team_b |-> team_b, events |-> events]

ParsedEvents(elements) == [i \in DOMAIN elements |-> parseEvent(elements[i])]

parseEventsFile(data) ==
  IF ~HasMembers(data) THEN Throws
  ELSE ParsedFile(AsString(Member(data, TeamA)), AsString(Member(data, TeamB)),
                  ParsedEvents(JsonElements(Member(data, <<"events">>))))

-----------------------------------------------------------------------------
(* reportProcess *)

GameName(names) == names.team_a \o <<Underscore>> \o names.team_b

UpdateLines(map) ==
  FoldSet(LAMBDA k, text : text \o Line(k \o <<Colon>> \o map[k]), Empty, DOMAIN map)

Heading(label) == Line(label \o <<Colon>>)

(* Mutant: the updates of team b come before those of team a. *)
ReportBodySwapped(username, names, event) ==
  Line(<<"user", Colon>> \o username)
    \o Line(TeamA \o <<Colon>> \o names.team_a) \o Line(TeamB \o <<Colon>> \o names.team_b)
    \o Line(<<"event name", Colon>> \o event.name)
    \o Line(<<"time", Colon, ToString(event.time)>>)
    \o Heading(GeneralLabel) \o UpdateLines(event.game)
    \o Heading(TeamALabel) \o UpdateLines(event.team_b)
    \o Heading(TeamBLabel) \o UpdateLines(event.team_a)
    \o Heading(DescriptionLabel) \o Line(event.description)

ReportBody(username, names, event) ==
  Line(<<"user", Colon>> \o username)
    \o Line(TeamA \o <<Colon>> \o names.team_a) \o Line(TeamB \o <<Colon>> \o names.team_b)
    \o Line(<<"event name", Colon>> \o event.name)
    \o Line(<<"time", Colon, ToString(event.time)>>)
    \o Heading(GeneralLabel) \o UpdateLines(event.game)
    \o Heading(TeamALabel) \o UpdateLines(event.team_a)
    \o Heading(TeamBLabel) \o UpdateLines(event.team_b)
    \o Heading(DescriptionLabel) \o Line(event.description)

ReportFrame(username, names, event) ==
  Frame(<<"SEND">>, [h \in {<<"destination">>} |-> GameName(names)],
        ReportBody(username, names, event))

FramesOf(username, names) ==
  IF names = Throws THEN Throws
  ELSE [i \in DOMAIN names.events |-> frameToString(ReportFrame(username, names, names.events[i]))]

reportProcess(username, data) == FramesOf(username, parseEventsFile(data))

-----------------------------------------------------------------------------
(* summaryProcess *)

(* at(): an index behind the end throws. *)
Element(seq, i) == IF i \in DOMAIN seq THEN seq[i] ELSE Throws

Field(line, i) == Element(split(line, <<Colon>>), i)

(* The position of the heading of `label`, looked for from line `first` on, which must
   come; 0 if it does not. *)
HeadingOf(lines, first, label) ==
  Min({j \in first .. Len(lines) : lines[j] = label \o <<Colon>>} \cup {Len(lines) + 1})
    % (Len(lines) + 1)

(* The three headings behind the general updates, which start at line 7 *)
Headings(lines) ==
  LET a == HeadingOf(lines, 7, TeamALabel)
      b == HeadingOf(lines, a + 1, TeamBLabel)
  IN  <<a, b, HeadingOf(lines, b + 1, DescriptionLabel)>>

KeysAndValues(lines, first, last) ==
  [i \in 1 .. last - first + 1 |->
     <<Field(lines[first + i - 1], 1), Field(lines[first + i - 1], 2)>>]

SecondOf(pairs) == {pairs[i][2] : i \in DOMAIN pairs}

UnlessUnreadable(report) ==
  IF Throws \in {report.name, report.time} \cup SecondOf(report.game)
                  \cup SecondOf(report.team_a) \cup SecondOf(report.team_b)
  THEN Throws ELSE report

(* What is read of a report: texts, and updates in the order of their lines *)
UpdatePairs == Seq(Texts \X Texts)
ReportRecords == [name : Texts, time : Texts, description : Texts,
                  game : UpdatePairs, team_a : UpdatePairs, team_b : UpdatePairs]

ReadLines(lines, heading) ==
  IF 0 \in ToSet(heading) \/ heading[3] = Len(lines) THEN Throws
  ELSE UnlessUnreadable(
         [name |-> Field(lines[4], 2), time |-> Field(lines[5], 2),
          description |-> lines[heading[3] + 1],
          game |-> KeysAndValues(lines, 7, heading[1] - 1),
          team_a |-> KeysAndValues(lines, heading[1] + 1, heading[2] - 1),
          team_b |-> KeysAndValues(lines, heading[2] + 1, heading[3] - 1)])

LinesWithHeadings(lines) == ReadLines(lines, Headings(lines))

(* One stored frame: the event's name, time and description, and the lists of updates *)
ReadReport(body) == LinesWithHeadings(split(body, <<NL>>))

(* Mutant: an update that is there already is kept. *)
MergeEmplacing(lists) == EmplaceAll(FlattenSeq(lists))

(* The updates of all reports in one map, a later value in place of an earlier one *)
Merge(lists) == PutAll(FlattenSeq(lists))

(* What is written to the file, its layout left out *)
Summary(teams, reports) ==
  LET all(field) == [i \in DOMAIN reports |-> reports[i][field]] IN
  IF Len(teams) < 2 \/ Throws \in ToSet(reports) THEN Throws
  ELSE [team_a |-> teams[1], team_b |-> teams[2],
        general |-> Merge(all("game")),
        a_stats |-> Merge(all("team_a")), b_stats |-> Merge(all("team_b")),
        reports |-> [i \in DOMAIN reports |->
                       <<reports[i].time, reports[i].name, reports[i].description>>]]

summaryProcess(gameName, bodies) ==
  Summary(split(gameName, <<Underscore>>), [i \in DOMAIN bodies |-> ReadReport(bodies[i])])
================================================================================
