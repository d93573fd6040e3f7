---------------------------- MODULE ReportsProofs ----------------------------
(*****************************************************************************)
(* The report path for any number of users, games, files and events: all     *)
(* invariants of Reports but PlainReportsKeepTheConnection.                  *)
(*                                                                           *)
(* Serving says which connections the lists of the channels name and what    *)
(* each thread of the server holds while it walks one of them. Provenance    *)
(* says of every text on its way, in a list or in a thread's hands, and of   *)
(* every stored body, who may have said it; it holds whatever the files      *)
(* contain. Delivery says of those who report plain files only, and whose    *)
(* reports no removal has met, that what a client has stored are their first *)
(* events and that the rest is on its way in order: before it the frames the *)
(* server has sent, then the one a thread is handing round, then the frames  *)
(* not yet read. SummariesBegun and SummariesWritten carry that over to the  *)
(* summary files.                                                            *)
(*****************************************************************************)
EXTENDS Reports, EventFileProofs

-------------------------------------------------------------------------------
(* The values of a report file. *)

(* Where the prover meets an operator parameter, it has this in its place. *)
LEMMA EventIs ==
  ASSUME NEW j, IsEvent(j)
  PROVE  /\ j.text \in Texts
         /\ j.type = "object" => \A k \in DOMAIN j.members : IsUpdates(j.members[k])
BY DEF IsEvent, IsJson

LEMMA UpdatesAre ==
  ASSUME NEW j, IsUpdates(j)
  PROVE  /\ j.text \in Texts
         /\ j.type = "number" => j.value \in Int
         /\ j.type = "boolean" => j.value \in BOOLEAN
         /\ j.type = "object" => /\ IsFiniteSet(DOMAIN j.members)
                                 /\ \A k \in DOMAIN j.members : k \in Texts
                                     /\ j.members[k].text \in Texts
         /\ j.type = "array" => /\ IsList(j.elements)
                                /\ \A i \in DOMAIN j.elements :
                                     ToString(i - 1) \in Tokens /\ j.elements[i].text \in Texts
BY DEF IsUpdates, IsJson, HasText

(* A member that is missing reads as null. *)
LEMMA NullIs ==
  /\ JsonNull.type = "null" /\ IsUpdates(JsonNull)
<1>1. JsonNull.text = <<"null">> /\ JsonNull.type = "null"
  BY DEF JsonNull
<1>2. "null" \in Tokens
  BY DEF Tokens, Keywords
<1>3. JsonNull.text \in Texts
  BY <1>1, <1>2, NoBlankInWord
<1>. QED BY <1>1, <1>3 DEF IsUpdates, IsJson

(* The lists of updates of an event are values of the file, or null. *)
LEMMA MemberOfEvent ==
  ASSUME NEW e, IsEvent(e), HasMembers(e), NEW key
  PROVE  IsUpdates(Member(e, key))
<1>1. CASE e.type = "object" /\ key \in DOMAIN e.members
  BY <1>1, EventIs DEF Member
<1>2. CASE ~(e.type = "object" /\ key \in DOMAIN e.members)
  BY <1>2, NullIs DEF Member, HasMembers
<1>. QED BY <1>1, <1>2

(* A number is narrowed to an int. *)
LEMMA IntsAre ==
  /\ 0 \in Ints /\ 1 \in Ints
  /\ \A n \in Int : Narrow(n) \in Ints
  /\ \A n \in Ints : n \in Int /\ Narrow(n) = n
<1>. DEFINE h == IntLimit
<1>1. h \in Nat /\ h > 1
  BY IntsAssumption
<1>2. /\ Ints = -h .. h - 1
      /\ \A n : Narrow(n) = IF n % (2 * h) >= h THEN (n % (2 * h)) - 2 * h ELSE n % (2 * h)
  BY DEF Ints, Narrow
<1>. HIDE DEF h
<1>3. \A n \in Int : n % (2 * h) \in 0 .. 2 * h - 1
  BY <1>1
<1>4. 0 \in Ints /\ 1 \in Ints
  BY <1>1, <1>2
<1>5. \A n \in Int : Narrow(n) \in Ints
  <2>. TAKE n \in Int
  <2>. DEFINE m == n % (2 * h)
  <2>1. m \in Int /\ 0 <= m /\ m <= 2 * h - 1
    BY <1>1, <1>3
  <2>2. Narrow(n) = IF m >= h THEN m - 2 * h ELSE m
    BY <1>2
  <2>. HIDE DEF m
  <2>. QED BY <1>1, <1>2, <2>1, <2>2
<1>6. ASSUME NEW n \in Ints PROVE n \in Int /\ Narrow(n) = n
  <2>1. n \in Int /\ -h <= n /\ n <= h - 1
    BY <1>1, <1>2
  <2>. DEFINE m == n % (2 * h)
  <2>2. Narrow(n) = IF m >= h THEN m - 2 * h ELSE m
    BY <1>2
  <2>3. m = IF n >= 0 THEN n ELSE n + 2 * h
    <3>1. CASE n >= 0
      <4>1. n \in 0 .. 2 * h - 1 /\ 2 * h > 0
        BY <1>1, <2>1, <3>1
      <4>. QED BY <1>1, <2>1, <3>1, <4>1
    <3>2. CASE ~(n >= 0)
      <4>1. n + 2 * h \in 0 .. 2 * h - 1 /\ 2 * h > 0
        BY <1>1, <2>1, <3>2
      <4>. QED BY <1>1, <2>1, <3>2, <4>1
    <3>. QED BY <3>1, <3>2
  <2>. HIDE DEF m
  <2>. QED BY <1>1, <2>1, <2>2, <2>3
<1>. QED BY <1>4, <1>5, <1>6

-------------------------------------------------------------------------------
(* Every file: what a report command makes of it. *)

(* The event that parseEvent gives: texts and an int, whatever they contain *)
TextEvent(f) ==
  /\ f.name \in Texts /\ f.time \in Ints /\ f.description \in Texts
  /\ TextMap(f.game) /\ TextMap(f.team_a) /\ TextMap(f.team_b)

(* Whatever type the updates have, they are converted to texts. *)
LEMMA UpdatesAreTexts ==
  ASSUME NEW j, IsUpdates(j)
  PROVE  TextMap(TextsOf(items(j)))
<1>. DEFINE m == items(j)
<1>1. \A f : TextsOf(f) = [k \in DOMAIN f |-> f[k].text]
  BY DEF TextsOf
<1>2. ASSUME NEW f, IsFiniteSet(DOMAIN f), \A k \in DOMAIN f : k \in Texts /\ f[k].text \in Texts
      PROVE  TextMap(TextsOf(f))
  <2>1. /\ DOMAIN TextsOf(f) = DOMAIN f
        /\ \A k \in DOMAIN f : TextsOf(f)[k] = f[k].text
    BY <1>1
  <2>. QED BY <1>2, <2>1 DEF TextMap
<1>3. CASE j.type = "object"
  <2>1. items(j) = j.members
    BY <1>3 DEF items
  <2>. QED BY <1>2, <1>3, <2>1, UpdatesAre
<1>4. CASE j.type = "array"
  <2>. DEFINE D == DOMAIN j.elements
              key(i) == <<ToString(i - 1)>>
              at(k) == CHOOSE i \in D : k = key(i)
              K == {key(i) : i \in D}
              f == [k \in K |-> j.elements[at(k)]]
  <2>1. items(j) = f
    BY <1>4 DEF items
  <2>2. Len(j.elements) \in Nat /\ D = 1 .. Len(j.elements)
    BY <1>4, UpdatesAre DEF IsList
  <2>3. IsFiniteSet(D)
    BY <2>2, FS_Interval
  <2>4. IsFiniteSet(K)
    <3>. DEFINE g == [i \in D |-> key(i)]
    <3>. HIDE DEF D, key
    <3>1. g \in Surjection(D, K)
      BY DEF Surjection
    <3>. QED BY <2>3, <3>1, FS_Surjection
  <2>5. ASSUME NEW k \in K PROVE k \in Texts /\ f[k].text \in Texts
    <3>1. PICK i \in D : k = key(i)
      OBVIOUS
    <3>2. ToString(i - 1) \in Tokens
      BY <1>4, UpdatesAre
    <3>3. k \in Texts
      BY <3>1, <3>2, NoBlankInWord
    <3>4. at(k) \in D
      <4>. HIDE DEF key, D
      <4>. QED BY <3>1
    <3>. HIDE DEF at
    <3>5. f[k] = j.elements[at(k)]
      OBVIOUS
    <3>. QED BY <1>4, <3>3, <3>4, <3>5, UpdatesAre
  <2>6. DOMAIN f = K
    OBVIOUS
  <2>. HIDE DEF f, K
  <2>. QED BY <1>2, <2>1, <2>4, <2>5, <2>6
<1>5. CASE j.type = "null"
  <2>1. items(j) = <<>>
    BY <1>5 DEF items, Empty
  <2>2. DOMAIN << >> = {} /\ IsFiniteSet({})
    BY FS_EmptySet
  <2>. QED BY <1>2, <2>1, <2>2
<1>6. CASE j.type \notin {"object", "array", "null"}
  <2>1. items(j) = [k \in {Empty} |-> j]
    BY <1>6 DEF items
  <2>2. DOMAIN [k \in {Empty} |-> j] = {Empty} /\ [k \in {Empty} |-> j][Empty] = j
    OBVIOUS
  <2>3. IsFiniteSet({Empty}) /\ Empty \in Texts
    <3>1. Empty \in Texts
      BY DEF Empty, Texts
    <3>. QED BY <3>1, FS_Singleton
  <2>4. j.text \in Texts
    BY UpdatesAre
  <2>. QED BY <1>2, <2>1, <2>2, <2>3, <2>4
<1>. QED BY <1>3, <1>4, <1>5, <1>6

(* A conversion throws or gives a value of its type. *)
LEMMA ConvertedAreTexts ==
  ASSUME NEW j, IsUpdates(j)
  PROVE  /\ AsString(j) = Throws \/ AsString(j) \in Texts
         /\ AsInt(j) = Throws \/ AsInt(j) \in Ints
<1>1. AsString(j) = Throws \/ AsString(j) \in Texts
  BY UpdatesAre DEF AsString
<1>2. CASE j.type = "number"
  <2>1. AsInt(j) = Narrow(j.value)
    BY <1>2 DEF AsInt
  <2>. QED BY <1>1, <1>2, <2>1, UpdatesAre, IntsAre
<1>3. CASE j.type = "boolean"
  <2>1. AsInt(j) = IF j.value THEN 1 ELSE 0
    BY <1>3 DEF AsInt
  <2>. QED BY <1>1, <2>1, IntsAre
<1>4. CASE j.type \notin {"number", "boolean"}
  <2>1. AsInt(j) = Throws
    BY <1>4 DEF AsInt
  <2>. QED BY <1>1, <2>1
<1>. QED BY <1>2, <1>3, <1>4

(* parseEvent throws or gives such an event. *)
LEMMA ParsedEventIsText ==
  ASSUME NEW e, IsEvent(e)
  PROVE  parseEvent(e) = Throws \/ TextEvent(parseEvent(e))
<1>1. CASE ~HasMembers(e)
  BY <1>1 DEF parseEvent
<1>2. CASE HasMembers(e)
  <2>. DEFINE f == Fields(e)
  <2>1. parseEvent(e) = UnlessMissing(f)
    BY <1>2 DEF parseEvent
  <2>2. /\ f.name = AsString(Member(e, <<"event name">>))
        /\ f.time = AsInt(Member(e, <<"time">>))
        /\ f.description = AsString(Member(e, DescriptionLabel))
        /\ f.game = updates(e, GeneralLabel)
        /\ f.team_a = updates(e, TeamALabel) /\ f.team_b = updates(e, TeamBLabel)
    BY DEF Fields
  <2>. HIDE DEF f
  <2>3. /\ f.name = Throws \/ f.name \in Texts
        /\ f.time = Throws \/ f.time \in Ints
        /\ f.description = Throws \/ f.description \in Texts
    BY <1>2, <2>2, MemberOfEvent, ConvertedAreTexts
  <2>4. TextMap(f.game) /\ TextMap(f.team_a) /\ TextMap(f.team_b)
    BY <1>2, <2>2, MemberOfEvent, UpdatesAreTexts DEF updates
  <2>5. UnlessMissing(f) = Throws
        \/ (UnlessMissing(f) = f /\ f.name # Throws /\ f.time # Throws /\ f.description # Throws)
    BY DEF UnlessMissing
  <2>. QED BY <2>1, <2>3, <2>4, <2>5 DEF TextEvent
<1>. QED BY <1>1, <1>2

(* The same for the events of a file, and for the file *)
LEMMA EventsAre ==
  ASSUME NEW j, IsEvents(j)
  PROVE  /\ j.type = "object" => /\ IsFiniteSet(DOMAIN j.members)
                                 /\ \A k \in DOMAIN j.members : IsEvent(j.members[k])
         /\ j.type = "array" => /\ IsList(j.elements)
                                /\ \A i \in DOMAIN j.elements : IsEvent(j.elements[i])
BY DEF IsEvents, IsJson

LEMMA FileIs ==
  ASSUME NEW j, IsFile(j)
  PROVE  /\ j.text \in Texts
         /\ j.type = "object" => \A k \in DOMAIN j.members : IsEvents(j.members[k])
BY DEF IsFile, IsJson

LEMMA EventsAreValues ==
  ASSUME NEW j, IsEvents(j)
  PROVE  j.text \in Texts
BY DEF IsEvents, IsJson

LEMMA ListOf ==
  ASSUME NEW n \in Nat, NEW f, f = [i \in 1 .. n |-> f[i]]
  PROVE  IsList(f) /\ Len(f) = n
<1>. DEFINE S == {f[i] : i \in 1 .. n}
<1>1. f \in [1 .. n -> S]
  OBVIOUS
<1>. HIDE DEF S
<1>2. f \in Seq(S)
  BY <1>1
<1>3. DOMAIN f = 1 .. n
  BY <1>1
<1>4. Len(f) = n
  BY <1>1, <1>2, <1>3, LenProperties
<1>. QED BY <1>3, <1>4 DEF IsList

(* SetToSeq lists a finite set. *)
LEMMA KeysInOrder ==
  ASSUME NEW S, IsFiniteSet(S)
  PROVE  Cardinality(S) \in Nat /\ SetToSeq(S) \in [1 .. Cardinality(S) -> S]
<1>1. Cardinality(S) \in Nat /\ ExistsBijection(1 .. Cardinality(S), S)
  BY FS_CardinalityType
<1>2. PICK f : f \in Bijection(1 .. Cardinality(S), S)
  BY <1>1 DEF ExistsBijection
<1>3. f \in [1 .. Cardinality(S) -> S] /\ IsInjective(f)
  BY <1>2 DEF Bijection, Injection
<1>4. SetToSeq(S) = CHOOSE g \in [1 .. Cardinality(S) -> S] : IsInjective(g)
  BY DEF SetToSeq
<1>. QED BY <1>1, <1>3, <1>4

(* The elements of the events are events, or values that parseEvent throws at. *)
LEMMA ElementsAre ==
  ASSUME NEW j, IsEvents(j)
  PROVE  /\ IsList(JsonElements(j))
         /\ \A i \in DOMAIN JsonElements(j) :
              IsEvent(JsonElements(j)[i]) \/ ~HasMembers(JsonElements(j)[i])
<1>1. CASE j.type = "array"
  <2>1. JsonElements(j) = j.elements
    BY <1>1 DEF JsonElements
  <2>. QED BY <1>1, <2>1, EventsAre
<1>2. CASE j.type = "object"
  <2>. DEFINE S == DOMAIN j.members
              q == SetToSeq(S)
              n == Cardinality(S)
              e == [i \in DOMAIN q |-> j.members[q[i]]]
  <2>1. JsonElements(j) = e
    BY <1>2 DEF JsonElements
  <2>2. n \in Nat /\ q \in [1 .. n -> S]
    BY <1>2, EventsAre, KeysInOrder
  <2>. HIDE DEF q, n
  <2>3. DOMAIN q = 1 .. n /\ \A i \in 1 .. n : e[i] = j.members[q[i]] /\ q[i] \in S
    BY <2>2
  <2>4. e = [i \in 1 .. n |-> e[i]] /\ DOMAIN e = 1 .. n
    BY <2>3
  <2>. HIDE DEF e
  <2>5. IsList(e)
    BY <2>2, <2>4, ListOf
  <2>. QED BY <1>2, <2>1, <2>3, <2>4, <2>5, EventsAre
<1>3. CASE j.type = "null"
  <2>1. JsonElements(j) = <<>>
    BY <1>3 DEF JsonElements
  <2>2. Len(<<>>) = 0 /\ DOMAIN << >> = 1 .. 0
    OBVIOUS
  <2>3. IsList(<<>>) /\ DOMAIN << >> = {}
    BY <2>2 DEF IsList
  <2>. QED BY <2>1, <2>3
<1>4. CASE j.type \notin {"array", "object", "null"}
  <2>1. JsonElements(j) = <<j>>
    BY <1>4 DEF JsonElements
  <2>2. Len(<<j>>) = 1 /\ DOMAIN <<j>> = 1 .. 1 /\ \A i \in 1 .. 1 : <<j>>[i] = j
    OBVIOUS
  <2>3. ~HasMembers(j)
    BY <1>4 DEF HasMembers
  <2>. QED BY <2>1, <2>2, <2>3 DEF IsList
<1>. QED BY <1>1, <1>2, <1>3, <1>4

(* What the file gives, if anything *)
TextNames(names) ==
  /\ names.team_a \in Texts /\ names.team_b \in Texts
  /\ IsList(names.events)
  /\ \A i \in DOMAIN names.events : TextEvent(names.events[i])

LEMMA NullIsEvents ==
  IsEvents(JsonNull)
<1>1. JsonNull.type = "null" /\ JsonNull.text \in Texts
  BY NullIs, UpdatesAre
<1>. QED BY <1>1 DEF IsEvents, IsJson

(* The members of a file are values of the file, or null. *)
LEMMA MemberOfFile ==
  ASSUME NEW data, IsFile(data), HasMembers(data), NEW key
  PROVE  IsEvents(Member(data, key))
<1>1. CASE data.type = "object" /\ key \in DOMAIN data.members
  BY <1>1, FileIs DEF Member
<1>2. CASE ~(data.type = "object" /\ key \in DOMAIN data.members)
  BY <1>2, NullIsEvents DEF Member, HasMembers
<1>. QED BY <1>1, <1>2

(* parseEventsFile throws or gives a list of such events. *)
LEMMA ParsedFileIsText ==
  ASSUME NEW data, IsFile(data)
  PROVE  parseEventsFile(data) = Throws \/ TextNames(parseEventsFile(data))
<1>1. CASE ~HasMembers(data)
  BY <1>1 DEF parseEventsFile
<1>2. CASE HasMembers(data)
  <2>. DEFINE a == AsString(Member(data, TeamA))
              b == AsString(Member(data, TeamB))
              elements == JsonElements(Member(data, <<"events">>))
              events == ParsedEvents(elements)
  <2>1. parseEventsFile(data) = ParsedFile(a, b, events)
    BY <1>2 DEF parseEventsFile
  <2>2. (a = Throws \/ a \in Texts) /\ (b = Throws \/ b \in Texts)
    BY <1>2, MemberOfFile, EventsAreValues DEF AsString
  <2>3. /\ IsList(elements)
        /\ \A i \in DOMAIN elements : IsEvent(elements[i]) \/ ~HasMembers(elements[i])
    BY <1>2, MemberOfFile, ElementsAre
  <2>. HIDE DEF elements
  <2>4. events = [i \in DOMAIN elements |-> parseEvent(elements[i])]
    BY DEF ParsedEvents
  <2>. HIDE DEF events, a, b
  <2>5. /\ DOMAIN events = DOMAIN elements
        /\ \A i \in DOMAIN elements : events[i] = parseEvent(elements[i])
    BY <2>4
  <2>6. IsList(events)
    <3>1. Len(elements) \in Nat /\ DOMAIN elements = 1 .. Len(elements)
      BY <2>3 DEF IsList
    <3>. DEFINE n == Len(elements)
    <3>2. n \in Nat /\ events = [i \in 1 .. n |-> events[i]]
      BY <2>4, <2>5, <3>1
    <3>. HIDE DEF n
    <3>. QED BY <3>2, ListOf
  <2>7. \A i \in DOMAIN events : events[i] = Throws \/ TextEvent(events[i])
    <3>. TAKE i \in DOMAIN events
    <3>1. CASE IsEvent(elements[i])
      BY <2>5, <3>1, ParsedEventIsText
    <3>2. CASE ~HasMembers(elements[i])
      BY <2>5, <3>2 DEF parseEvent
    <3>. QED BY <2>3, <2>5, <3>1, <3>2
  <2>8. CASE Throws \in {a, b} \cup ToSet(events)
    BY <2>1, <2>8 DEF ParsedFile
  <2>9. CASE ~(Throws \in {a, b} \cup ToSet(events))
    <3>1. parseEventsFile(data) = [team_a |-> a, team_b |-> b, events |-> events]
      BY <2>1, <2>9 DEF ParsedFile
    <3>2. \A i \in DOMAIN events : events[i] # Throws
      BY <2>9 DEF ToSet
    <3>. QED BY <2>2, <2>6, <2>7, <2>9, <3>1, <3>2 DEF TextNames
  <2>. QED BY <2>8, <2>9
<1>. QED BY <1>1, <1>2

(* A frame's text of user u, as a report command makes it *)
ReportText(t, u) ==
  \E names, event : TextReport(u, names, event) /\ t = frameToString(ReportFrame(u, names, event))

(* A name that can be logged in or joined with keeps within its field. *)
LEMMA NameInField ==
  ASSUME NEW t, IsName(t)
  PROVE  InOneField(t) /\ t # Empty /\ t \in Texts
BY DEF IsName, Within, InOneField, InOneLine

(* The server reads no other sender from it. *)
LEMMA ReportTextRead ==
  ASSUME NEW u, NEW t, ReportText(t, u)
  PROVE  t \in Texts /\ ReadsAs(extractFrame(t), u)
BY ServerReads DEF ReportText

(* reportProcess throws or gives such texts only, whatever the file contains. *)
LEMMA FramesAreReports ==
  ASSUME NEW u \in Users, NEW file \in DOMAIN Files,
         NEW frames, frames = reportProcess(u, Files[file])
  PROVE  \/ frames = Throws
         \/ /\ IsList(frames) /\ frames = [i \in DOMAIN frames |-> frames[i]]
            /\ \A i \in DOMAIN frames : ReportText(frames[i], u)
<1>. DEFINE names == parseEventsFile(Files[file])
<1>1. names = Throws \/ TextNames(names)
  BY FilesAssumption, ParsedFileIsText
<1>2. InOneField(u)
  BY NamesAssumption, NameInField
<1>3. frames = FramesOf(u, names)
  BY DEF reportProcess
<1>. HIDE DEF names
<1>4. CASE names = Throws
  BY <1>3, <1>4 DEF FramesOf
<1>5. CASE names # Throws
  <2>. DEFINE text(i) == frameToString(ReportFrame(u, names, names.events[i]))
              n == Len(names.events)
  <2>1. frames = [i \in DOMAIN names.events |-> text(i)]
    BY <1>3, <1>5 DEF FramesOf
  <2>2. n \in Nat /\ DOMAIN names.events = 1 .. n
    BY <1>1, <1>5 DEF TextNames, IsList
  <2>3. \A i \in 1 .. n : ReportText(text(i), u)
    <3>. TAKE i \in 1 .. n
    <3>. DEFINE event == names.events[i]
    <3>1. TextEvent(event)
      BY <1>1, <1>5, <2>2 DEF TextNames
    <3>. HIDE DEF event
    <3>2. ToString(event.time) \in Tokens
      BY <3>1, IntsAssumption DEF TextEvent
    <3>3. TextReport(u, names, event)
      BY <1>1, <1>2, <1>5, <3>1, <3>2 DEF TextEvent, TextNames, TextReport
    <3>4. ReportText(frameToString(ReportFrame(u, names, event)), u)
      BY <3>3 DEF ReportText
    <3>. QED BY <3>4 DEF event
  <2>. HIDE DEF text, n
  <2>4. /\ frames = [i \in 1 .. n |-> text(i)] /\ DOMAIN frames = 1 .. n
        /\ \A i \in 1 .. n : frames[i] = text(i)
    BY <2>1, <2>2
  <2>5. IsList(frames)
    <3>1. frames = [i \in 1 .. n |-> frames[i]]
      BY <2>4
    <3>. QED BY <2>2, <3>1, ListOf
  <2>. QED BY <2>3, <2>4, <2>5
<1>. QED BY <1>4, <1>5

-------------------------------------------------------------------------------
(* Plain files: what a report command makes of them. *)

(* The updates an event gives, the plain events, and the games of plain files *)
MapOf(event, label) ==
  [k \in DOMAIN Member(event, label).members |-> Member(event, label).members[k].text]

PlainEvents == UNION {ToSet(Events(Files[file])) : file \in PlainFiles}

PlainGame(game) ==
  \E a, b : /\ a \in Texts /\ b \in Texts /\ Within(a, Separators) /\ Within(b, Separators)
            /\ game = a \o <<Underscore>> \o b

(* A record of a report that reads as the event in the file, and a body that does *)
ReadsAsEvent(report, event) ==
  /\ report \in ReportRecords
  /\ report.name = TextOf(event, <<"event name">>)
  /\ report.time = TextOf(event, <<"time">>)
  /\ report.description = TextOf(event, DescriptionLabel)
  /\ PutAll(report.game) = MapOf(event, GeneralLabel)
  /\ PutAll(report.team_a) = MapOf(event, TeamALabel)
  /\ PutAll(report.team_b) = MapOf(event, TeamBLabel)

BodyTells(body, w, game, event) ==
  /\ Blankless(body) /\ SenderOf(body) = w
  /\ PlainGame(game) /\ event \in PlainEvents
  /\ ReadsAsEvent(ReadReport(body), event)

(* A plain text keeps within its line, or within its field. *)
LEMMA WithinIs ==
  ASSUME NEW t \in Texts, NEW S, Within(t, S)
  PROVE  /\ NL \in S => InOneLine(t)
         /\ NL \in S /\ Colon \in S => InOneField(t)
BY DEF Within, InOneLine, InOneField

(* Plain updates are taken over as they are in the file. *)
LEMMA PlainUpdatesAre ==
  ASSUME NEW j, IsUpdates(j), PlainUpdates(j)
  PROVE  /\ TextsOf(items(j)) = [k \in DOMAIN j.members |-> j.members[k].text]
         /\ PlainMap(TextsOf(items(j)))
         /\ DOMAIN TextsOf(items(j)) = DOMAIN j.members
         /\ TextsOf(items(j)) \in [DOMAIN j.members -> Texts]
<1>1. j.type = "object"
  BY DEF PlainUpdates
<1>2. items(j) = j.members
  BY <1>1 DEF items
<1>. DEFINE m == TextsOf(items(j))
<1>3. m = [k \in DOMAIN j.members |-> j.members[k].text]
  BY <1>2 DEF TextsOf
<1>. HIDE DEF m
<1>4. DOMAIN m = DOMAIN j.members /\ \A k \in DOMAIN m : m[k] = j.members[k].text
  BY <1>3
<1>5. IsFiniteSet(DOMAIN m) /\ \A k \in DOMAIN m : k \in Texts /\ m[k] \in Texts
  BY <1>1, <1>4, UpdatesAre
<1>6. \A k \in DOMAIN m : InOneField(k) /\ InOneField(m[k]) /\ k \notin Labels
  <2>. TAKE k \in DOMAIN m
  <2>1. Within(k, {NL, Colon}) /\ Within(m[k], {NL, Colon})
    BY <1>4 DEF PlainUpdates
  <2>2. k \notin Labels
    BY <1>4 DEF PlainUpdates, Labels
  <2>3. NL \in {NL, Colon} /\ Colon \in {NL, Colon}
    OBVIOUS
  <2>. QED BY <1>5, <2>1, <2>2, <2>3, WithinIs
<1>7. m = [k \in DOMAIN m |-> m[k]] /\ m \in [DOMAIN j.members -> Texts]
  BY <1>3, <1>4, <1>5
<1>8. DOMAIN m \cap Labels = {}
  BY <1>6
<1>9. InFields(m)
  BY <1>5, <1>6 DEF InFields, InLines, InOneField, InOneLine
<1>10. PlainMap(m)
  BY <1>7, <1>8, <1>9 DEF PlainMap
<1>. QED BY <1>3, <1>4, <1>7, <1>10 DEF m

(* The event that parseEvent makes of a plain one *)
PlainFields(f, e) ==
  /\ f.name = TextOf(e, <<"event name">>) /\ InOneField(f.name)
  /\ f.time \in Ints /\ TimeText(f.time) = TextOf(e, <<"time">>)
  /\ f.description = TextOf(e, DescriptionLabel) /\ InOneLine(f.description) /\ f.description # Empty
  /\ f.game = MapOf(e, GeneralLabel) /\ f.team_a = MapOf(e, TeamALabel)
      /\ f.team_b = MapOf(e, TeamBLabel)
  /\ PlainMap(f.game) /\ PlainMap(f.team_a) /\ PlainMap(f.team_b)

(* parseEvent takes over what a plain event has. *)
LEMMA PlainEventFields ==
  ASSUME NEW e, IsEvent(e), PlainEvent(e)
  PROVE  /\ HasMembers(e) /\ PlainFields(Fields(e), e)
         /\ \A label \in {GeneralLabel, TeamALabel, TeamBLabel} :
              MapOf(e, label) \in [DOMAIN Member(e, label).members -> Texts]
<1>1. HasMembers(e)
  BY DEF PlainEvent, HasMembers
<1>. DEFINE f == Fields(e)
            name == Member(e, <<"event name">>)
            time == Member(e, <<"time">>)
            description == Member(e, DescriptionLabel)
<1>2. /\ f.name = AsString(name) /\ f.time = AsInt(time) /\ f.description = AsString(description)
      /\ f.game = updates(e, GeneralLabel)
      /\ f.team_a = updates(e, TeamALabel) /\ f.team_b = updates(e, TeamBLabel)
  BY DEF Fields
<1>3. IsUpdates(name) /\ IsUpdates(time) /\ IsUpdates(description)
  BY <1>1, MemberOfEvent
<1>4. /\ name.type = "string" /\ Within(name.text, {NL, Colon})
      /\ time.type = "number" /\ time.value \in Ints /\ time.text = <<ToString(time.value)>>
      /\ description.type = "string" /\ Within(description.text, {NL}) /\ description.text # Empty
      /\ \A label \in {GeneralLabel, TeamALabel, TeamBLabel} : PlainUpdates(Member(e, label))
  BY DEF PlainEvent
<1>5. \A label \in {GeneralLabel, TeamALabel, TeamBLabel} :
        /\ updates(e, label) = MapOf(e, label) /\ PlainMap(updates(e, label))
        /\ MapOf(e, label) \in [DOMAIN Member(e, label).members -> Texts]
  <2>. TAKE label \in {GeneralLabel, TeamALabel, TeamBLabel}
  <2>. DEFINE j == Member(e, label)
  <2>1. IsUpdates(j) /\ PlainUpdates(j)
    BY <1>1, <1>4, MemberOfEvent
  <2>2. /\ updates(e, label) = TextsOf(items(j))
        /\ MapOf(e, label) = [k \in DOMAIN j.members |-> j.members[k].text]
    BY DEF updates, MapOf
  <2>. HIDE DEF j
  <2>3. /\ TextsOf(items(j)) = [k \in DOMAIN j.members |-> j.members[k].text]
        /\ PlainMap(TextsOf(items(j)))
        /\ TextsOf(items(j)) \in [DOMAIN j.members -> Texts]
    BY <2>1, PlainUpdatesAre
  <2>. QED BY <2>2, <2>3 DEF j
<1>. HIDE DEF f, name, time, description
<1>6. f.name = name.text /\ f.description = description.text /\ f.time = time.value
  <2>1. AsInt(time) = Narrow(time.value)
    BY <1>4 DEF AsInt
  <2>. QED BY <1>2, <1>4, <2>1, IntsAre DEF AsString
<1>7. name.text \in Texts /\ description.text \in Texts
  BY <1>3, UpdatesAre
<1>8. InOneField(name.text) /\ InOneLine(description.text)
  BY <1>4, <1>7, WithinIs
<1>9. TextOf(e, <<"event name">>) = name.text /\ TextOf(e, <<"time">>) = time.text
      /\ TextOf(e, DescriptionLabel) = description.text
  BY DEF TextOf, name, time, description
<1>10. PlainFields(f, e)
  BY <1>2, <1>4, <1>5, <1>6, <1>8, <1>9 DEF PlainFields, TimeText
<1>. QED BY <1>1, <1>5, <1>10 DEF f

(* Every event of a plain file is plain. *)
LEMMA PlainEventsAre ==
  ASSUME NEW e \in PlainEvents
  PROVE  IsEvent(e) /\ PlainEvent(e) /\ HasMembers(e) /\ PlainFields(Fields(e), e)
         /\ \A label \in {GeneralLabel, TeamALabel, TeamBLabel} : MapOf(e, label) \in PlainMaps
<1>1. PICK file \in PlainFiles : e \in ToSet(Events(Files[file]))
  BY DEF PlainEvents
<1>2. file \in DOMAIN Files /\ Plain(Files[file])
  BY <1>1 DEF PlainFiles
<1>. DEFINE data == Files[file]
            elements == Events(data)
<1>3. IsFile(data) /\ HasMembers(data)
  BY <1>2, FilesAssumption DEF Plain, HasMembers
<1>4. \A i \in DOMAIN elements : IsEvent(elements[i]) \/ ~HasMembers(elements[i])
  BY <1>3, MemberOfFile, ElementsAre DEF Events
<1>5. PICK i \in DOMAIN elements : e = elements[i]
  BY <1>1 DEF ToSet
<1>6. PlainEvent(e)
  BY <1>2, <1>5 DEF Plain
<1>7. HasMembers(e)
  BY <1>6 DEF PlainEvent, HasMembers
<1>8. IsEvent(e)
  BY <1>4, <1>5, <1>7
<1>9. /\ PlainFields(Fields(e), e)
      /\ \A label \in {GeneralLabel, TeamALabel, TeamBLabel} :
              MapOf(e, label) \in [DOMAIN Member(e, label).members -> Texts]
  BY <1>6, <1>8, PlainEventFields
<1>10. \A label \in {GeneralLabel, TeamALabel, TeamBLabel} : MapOf(e, label) \in PlainMaps
  <2>. TAKE label \in {GeneralLabel, TeamALabel, TeamBLabel}
  <2>. DEFINE S == DOMAIN Member(e, label).members
  <2>1. S \subseteq PlainKeys
    BY <1>1 DEF PlainKeys
  <2>2. MapOf(e, label) \in [S -> Texts]
    BY <1>9
  <2>. HIDE DEF S
  <2>. QED BY <2>1, <2>2 DEF PlainMaps
<1>. QED BY <1>6, <1>7, <1>8, <1>9, <1>10

(* parseEvent does not throw at a plain event, *)
LEMMA PlainFieldsAreNoException ==
  ASSUME NEW e \in PlainEvents
  PROVE  /\ Fields(e) \in EventFields /\ Fields(e) # Throws
         /\ parseEvent(e) = Fields(e)
<1>. DEFINE f == Fields(e)
<1>1. HasMembers(e) /\ PlainFields(f, e)
      /\ \A label \in {GeneralLabel, TeamALabel, TeamBLabel} : MapOf(e, label) \in PlainMaps
  BY PlainEventsAre
<1>2. f = [name |-> f.name, time |-> f.time, description |-> f.description,
           game |-> f.game, team_a |-> f.team_a, team_b |-> f.team_b]
  BY DEF Fields
<1>3. parseEvent(e) = UnlessMissing(f)
  BY <1>1 DEF parseEvent
<1>. HIDE DEF f
<1>4. f.name \in Texts /\ f.time \in Int /\ f.time \in Ints /\ f.description \in Texts
  BY <1>1, IntsAre DEF PlainFields, InOneField, InOneLine
<1>5. f.game \in PlainMaps /\ f.team_a \in PlainMaps /\ f.team_b \in PlainMaps
  BY <1>1 DEF PlainFields
<1>6. f \in EventFields
  BY <1>2, <1>4, <1>5 DEF EventFields
<1>7. f # Throws
  BY <1>6, ThrowsAssumption
<1>8. f.name # Throws /\ f.description # Throws /\ f.time # Throws
  BY <1>4, ThrowsAssumption
<1>9. UnlessMissing(f) = f
  BY <1>8 DEF UnlessMissing
<1>. QED BY <1>3, <1>6, <1>7, <1>9 DEF f

(* nor parseEventsFile at a plain file: it gives the events in order. *)
LEMMA PlainFileParsed ==
  ASSUME NEW file \in PlainFiles, NEW data, data = Files[file],
         NEW names, names = parseEventsFile(data)
  PROVE  /\ names # Throws
         /\ names.team_a = TextOf(data, TeamA) /\ names.team_b = TextOf(data, TeamB)
         /\ \A team \in {TeamA, TeamB} : TextOf(data, team) \in Texts
             /\ Within(TextOf(data, team), Separators)
         /\ IsList(Events(data)) /\ IsList(names.events) /\ DOMAIN names.events = DOMAIN Events(data)
         /\ \A i \in DOMAIN Events(data) :
              Events(data)[i] \in PlainEvents /\ names.events[i] = Fields(Events(data)[i])
<1>1. file \in DOMAIN Files /\ Plain(data)
  BY DEF PlainFiles
<1>2. IsFile(data) /\ HasMembers(data)
  BY <1>1, FilesAssumption DEF Plain, HasMembers
<1>. DEFINE a == TextOf(data, TeamA)
            b == TextOf(data, TeamB)
            elements == Events(data)
            events == ParsedEvents(elements)
<1>3. \A team \in {TeamA, TeamB} :
        /\ AsString(Member(data, team)) = TextOf(data, team) /\ TextOf(data, team) \in Texts
        /\ Within(TextOf(data, team), Separators)
  <2>. TAKE team \in {TeamA, TeamB}
  <2>1. Member(data, team).type = "string" /\ Within(TextOf(data, team), Separators)
    BY <1>1 DEF Plain
  <2>2. Member(data, team).text \in Texts
    BY <1>2, MemberOfFile, EventsAreValues
  <2>. QED BY <2>1, <2>2 DEF AsString, TextOf
<1>4. IsList(elements)
  BY <1>2, MemberOfFile, ElementsAre DEF Events
<1>5. \A i \in DOMAIN elements : elements[i] \in PlainEvents
  BY DEF PlainEvents, ToSet
<1>6. names = ParsedFile(a, b, events)
  <2>1. names = ParsedFile(AsString(Member(data, TeamA)), AsString(Member(data, TeamB)), events)
    BY <1>2 DEF parseEventsFile, Events
  <2>. QED BY <1>3, <2>1
<1>7. a \in Texts /\ b \in Texts
  BY <1>3
<1>. HIDE DEF a, b, elements
<1>8. events = [i \in DOMAIN elements |-> parseEvent(elements[i])]
  BY DEF ParsedEvents
<1>. HIDE DEF events
<1>9. /\ DOMAIN events = DOMAIN elements
      /\ \A i \in DOMAIN elements : /\ events[i] = Fields(elements[i]) /\ events[i] \in EventFields
                                    /\ events[i] # Throws
  BY <1>5, <1>8, PlainFieldsAreNoException
<1>. DEFINE n == Len(elements)
<1>10. n \in Nat /\ DOMAIN elements = 1 .. n
  BY <1>4 DEF IsList
<1>. HIDE DEF n
<1>11. events = [i \in 1 .. n |-> events[i]]
  BY <1>8, <1>9, <1>10
<1>12. IsList(events)
  BY <1>10, <1>11, ListOf
<1>13. events \in Seq(EventFields)
  <2>1. events \in [1 .. n -> EventFields]
    BY <1>9, <1>10, <1>11
  <2>. QED BY <1>10, <2>1
<1>14. ~(Throws \in {a, b} \cup ToSet(events))
  <2>1. Throws \notin ToSet(events)
    BY <1>9 DEF ToSet
  <2>. QED BY <1>7, <2>1, ThrowsAssumption
<1>15. names = [team_a |-> a, team_b |-> b, events |-> events]
  BY <1>6, <1>14 DEF ParsedFile
<1>16. names \in [team_a : Texts, team_b : Texts, events : Seq(EventFields)]
  BY <1>7, <1>13, <1>15
<1>17. names # Throws
  BY <1>16, ThrowsAssumption
<1>18. names.team_a = a /\ names.team_b = b /\ names.events = events
  BY <1>15
<1>. QED BY <1>3, <1>4, <1>5, <1>9, <1>12, <1>17, <1>18 DEF a, b, elements

(* The name of a plain game keeps within its field. *)
LEMMA PlainGameIsName ==
  ASSUME NEW a \in Texts, NEW b \in Texts, Within(a, Separators), Within(b, Separators)
  PROVE  /\ InOneField(a) /\ InOneField(b)
         /\ InOneField(a \o <<Underscore>> \o b) /\ a \o <<Underscore>> \o b # Empty
<1>1. NL \in Separators /\ Colon \in Separators
  BY DEF Separators
<1>2. InOneField(a) /\ InOneField(b)
  BY <1>1, WithinIs
<1>3. Underscore # NL /\ Underscore # Colon
  BY DEF Underscore, NL, Colon
<1>4. <<Underscore>> \in Texts
  BY NLIsToken, NoBlankInWord
<1>5. a \o <<Underscore>> \in Texts /\ a \o <<Underscore>> \o b \in Texts
  BY <1>4, TextConcat
<1>6. ToSet(a \o <<Underscore>> \o b) = ToSet(a) \cup {Underscore} \cup ToSet(b)
  BY <1>4, <1>5, TokensOfConcat, TokensOfOne
<1>7. a \o <<Underscore>> # <<>>
  BY <1>4, LongerText
<1>8. a \o <<Underscore>> \o b # Empty
  BY <1>5, <1>7, LongerText DEF Empty
<1>. QED BY <1>2, <1>3, <1>5, <1>6, <1>8 DEF InOneField, InOneLine

OneHeader(k, v) == [h \in {k} |-> v]

(* The headers of a report and of an error *)
LEMMA HeadersOfOne ==
  ASSUME NEW w \in Keywords, NEW v, InOneField(v), v # Empty
  PROVE  /\ WholeHeaders(OneHeader(<<w>>, v)) /\ OneHeader(<<w>>, v) \in [{<<w>>} -> Texts]
         /\ OneHeader(<<w>>, v)[<<w>>] = v
<1>. DEFINE k == <<w>>
            m == OneHeader(k, v)
<1>1. InOneField(k)
  BY KeywordInField
<1>. HIDE DEF k
<1>2. DOMAIN m = {k} /\ m[k] = v /\ m = [x \in DOMAIN m |-> m[x]]
  BY DEF OneHeader
<1>. HIDE DEF m
<1>3. IsFiniteSet({k}) /\ {k} # {}
  BY FS_Singleton
<1>4. v \in Texts
  BY DEF InOneField, InOneLine
<1>5. InFields(m)
  BY <1>1, <1>2, <1>3 DEF InFields, InLines, InOneField, InOneLine
<1>6. WholeHeaders(m)
  BY <1>2, <1>3, <1>5 DEF WholeHeaders
<1>7. m \in [{k} -> Texts]
  BY <1>2, <1>4
<1>. QED BY <1>2, <1>6, <1>7 DEF m, k

(* What FramesArriveAsSent says of a frame of one of the programs' commands *)
LEMMA FrameSendable ==
  ASSUME NEW w \in Keywords, NEW headers, WholeHeaders(headers), NEW body, Blankless(body)
  PROVE  /\ extractFrame(frameToString(Frame(<<w>>, headers, body))) = Frame(<<w>>, headers, body)
         /\ stringToFrameFromServer(encode(Frame(<<w>>, headers, body))) = Frame(<<w>>, headers, body)
<1>. DEFINE f == Frame(<<w>>, headers, body)
<1>1. /\ f = Frame(f.command, f.headers, f.body)
      /\ f.command = <<w>> /\ f.headers = headers /\ f.body = body
  BY DEF Frame
<1>2. <<w>> \in Texts /\ NL \notin ToSet(<<w>>) /\ <<w>> # Empty
  BY KeywordInField DEF InOneField, InOneLine, Empty
<1>. HIDE DEF f
<1>3. Sendable(f)
  BY <1>1, <1>2 DEF Sendable
<1>4. extractFrame(frameToString(f)) = f /\ stringToFrameFromServer(encode(f)) = f
  BY <1>3, FramesArriveAsSent
<1>. QED BY <1>4 DEF f

LEMMA EncodedIsText ==
  ASSUME NEW w \in Keywords, NEW headers, WholeHeaders(headers), NEW body \in Texts
  PROVE  encode(Frame(<<w>>, headers, body)) \in Texts
<1>1. <<w>> \in Texts /\ NL \notin ToSet(<<w>>) /\ <<w>> # <<>>
  BY KeywordInField DEF InOneField, InOneLine
<1>2. InLines(headers) /\ DOMAIN headers # {}
  BY DEF WholeHeaders, InFields
<1>3. PICK h : IsHead(h, <<w>>, headers)
  BY <1>1, <1>2, HeadExists
<1>4. Line(<<w>>) \o HeaderLines(headers) \o <<NL>> \o body \in Texts
  BY <1>3, FramePieces
<1>. QED BY <1>4 DEF encode, Frame

(* What the server reads of a report of a plain file *)
PlainlyRead(f, u, game, event) ==
  /\ f # Throws /\ f.headers[<<"destination">>] = game
  /\ BodyTells(f.body, u, game, event)

(* A report of a plain file makes one frame for each event, in order, and the server reads
   the game and, in the body, the event from it. *)
THEOREM PlainFrames ==
  ASSUME NEW u \in Users, NEW file \in PlainFiles, NEW data, data = Files[file],
         NEW frames, frames = reportProcess(u, data)
  PROVE  /\ frames # Throws /\ IsList(frames) /\ DOMAIN frames = DOMAIN Events(data)
         /\ IsList(Events(data))
         /\ \A i \in DOMAIN frames :
              PlainlyRead(extractFrame(frames[i]), u, GameOf(data), Events(data)[i])
<1>. DEFINE names == parseEventsFile(data)
            elements == Events(data)
<1>1. /\ names # Throws
      /\ names.team_a = TextOf(data, TeamA) /\ names.team_b = TextOf(data, TeamB)
      /\ TextOf(data, TeamA) \in Texts /\ Within(TextOf(data, TeamA), Separators)
      /\ TextOf(data, TeamB) \in Texts /\ Within(TextOf(data, TeamB), Separators)
      /\ IsList(elements) /\ IsList(names.events) /\ DOMAIN names.events = DOMAIN elements
      /\ \A i \in DOMAIN elements : elements[i] \in PlainEvents /\ names.events[i] = Fields(elements[i])
  BY PlainFileParsed
<1>2. frames = FramesOf(u, names)
  BY DEF reportProcess
<1>3. InOneField(u)
  BY NamesAssumption, NameInField
<1>4. /\ InOneField(names.team_a) /\ InOneField(names.team_b)
      /\ GameOf(data) = GameName(names) /\ InOneField(GameName(names)) /\ GameName(names) # Empty
      /\ PlainGame(GameOf(data))
  <2>. DEFINE a == names.team_a
              b == names.team_b
  <2>1. a \in Texts /\ b \in Texts /\ Within(a, Separators) /\ Within(b, Separators)
    BY <1>1
  <2>2. GameOf(data) = a \o <<Underscore>> \o b /\ GameName(names) = a \o <<Underscore>> \o b
    BY <1>1 DEF GameOf, GameName
  <2>. HIDE DEF a, b
  <2>3. /\ InOneField(a) /\ InOneField(b)
        /\ InOneField(a \o <<Underscore>> \o b) /\ a \o <<Underscore>> \o b # Empty
    BY <2>1, PlainGameIsName
  <2>4. PlainGame(GameOf(data))
    BY <2>1, <2>2 DEF PlainGame
  <2>. QED BY <2>2, <2>3, <2>4 DEF a, b
<1>. HIDE DEF names, elements
<1>. DEFINE text(i) == frameToString(ReportFrame(u, names, names.events[i]))
<1>5. frames = [i \in DOMAIN names.events |-> text(i)]
  BY <1>1, <1>2 DEF FramesOf
<1>6. ASSUME NEW i \in DOMAIN elements
      PROVE  /\ text(i) \in Texts
             /\ PlainlyRead(extractFrame(text(i)), u, GameOf(data), elements[i])
  <2>. DEFINE e == elements[i]
              event == Fields(e)
              body == ReportBody(u, names, event)
              headers == OneHeader(<<"destination">>, GameName(names))
              f == Frame(<<"SEND">>, headers, body)
  <2>1. e \in PlainEvents /\ names.events[i] = event
    BY <1>1
  <2>. HIDE DEF e
  <2>2. PlainFields(event, e)
    BY <2>1, PlainEventsAre
  <2>. HIDE DEF event
  <2>3. ToString(event.time) \in Tokens \ Separators
    BY <2>2, IntsAssumption DEF PlainFields
  <2>4. PlainReport(u, names, event)
    BY <1>3, <1>4, <2>2, <2>3 DEF PlainReport, PlainFields
  <2>5. Blankless(body) /\ Field(split(body, <<NL>>)[1], 2) = u /\ Tells(ReadReport(body), event)
    BY <2>4, PlainReportIsRead, ThrowsAssumption
  <2>6. ReportFrame(u, names, event) = f
    BY DEF ReportFrame, OneHeader
  <2>. HIDE DEF body
  <2>7. ReadsAsEvent(ReadReport(body), e)
    BY <2>2, <2>5 DEF Tells, PlainFields, ReadsAsEvent
  <2>8. BodyTells(body, u, GameOf(data), e)
    BY <1>4, <2>1, <2>5, <2>7 DEF BodyTells, SenderOf
  <2>9. /\ WholeHeaders(headers) /\ headers \in [{<<"destination">>} -> Texts]
        /\ headers[<<"destination">>] = GameOf(data)
    BY <1>4, HeadersOfOne DEF Keywords
  <2>. HIDE DEF headers
  <2>10. "SEND" \in Keywords
    BY DEF Keywords
  <2>11. extractFrame(frameToString(f)) = f
    BY <2>5, <2>9, <2>10, FrameSendable
  <2>12. f.headers = headers /\ f.body = body
    BY DEF Frame
  <2>13. f # Throws
    <3>1. <<"SEND">> \in Texts /\ body \in Texts
      BY <2>5, <2>10, KeywordIsText DEF Blankless
    <3>2. f \in Frames({<<"destination">>})
      BY <2>9, <3>1 DEF Frame, Frames
    <3>. QED BY <3>2, ThrowsAssumption
  <2>. HIDE DEF f
  <2>14. text(i) = frameToString(f)
    BY <2>1, <2>6
  <2>15. TextReport(u, names, event)
    <3>1. names.team_a \in Texts /\ names.team_b \in Texts
      BY <1>1
    <3>2. /\ event.name \in Texts /\ event.description \in Texts
      BY <2>2 DEF PlainFields, InOneField, InOneLine
    <3>3. TextMap(event.game) /\ TextMap(event.team_a) /\ TextMap(event.team_b)
      BY <2>2 DEF PlainFields, PlainMap, InFields, InLines, TextMap
    <3>. QED BY <1>3, <2>3, <3>1, <3>2, <3>3 DEF TextReport
  <2>16. frameToString(f) \in Texts
    BY <2>6, <2>15, ServerReads
  <2>. QED BY <2>8, <2>9, <2>11, <2>12, <2>13, <2>14, <2>16 DEF PlainlyRead, e
<1>. HIDE DEF text
<1>. DEFINE n == Len(elements)
<1>7. n \in Nat /\ DOMAIN elements = 1 .. n
  BY <1>1 DEF IsList
<1>. HIDE DEF n
<1>8. /\ DOMAIN frames = 1 .. n /\ frames = [i \in 1 .. n |-> frames[i]]
      /\ \A i \in 1 .. n : frames[i] = text(i)
  BY <1>1, <1>5, <1>7
<1>9. IsList(frames)
  BY <1>7, <1>8, ListOf
<1>10. frames \in Seq(Texts)
  <2>1. frames \in [1 .. n -> Texts]
    BY <1>6, <1>7, <1>8
  <2>. QED BY <1>7, <2>1
<1>11. frames # Throws
  BY <1>10, ThrowsAssumption
<1>. QED BY <1>1, <1>6, <1>7, <1>8, <1>9, <1>11 DEF elements

(* A MESSAGE whose body has no blank line in it arrives as it was sent. *)
LEMMA MessageRead ==
  ASSUME NEW game, IsName(game), NEW body, Blankless(body)
  PROVE  LET f == stringToFrameFromServer(encode(MessageFrame(game, body))) IN
         /\ encode(MessageFrame(game, body)) \in Texts
         /\ f # Throws /\ f.command = <<"MESSAGE">>
         /\ f.headers[<<"destination">>] = game /\ f.body = body
<1>. DEFINE K == {<<"destination">>, <<"subscription">>, <<"message-id">>}
            m == [h \in K |-> IF h = <<"destination">> THEN game ELSE <<"id">>]
            f == Frame(<<"MESSAGE">>, m, body)
<1>1. MessageFrame(game, body) = f
  BY DEF MessageFrame
<1>2. InOneField(game) /\ game # Empty /\ game \in Texts
  BY NameInField
<1>3. /\ InOneField(<<"id">>) /\ <<"id">> # Empty
      /\ InOneField(<<"destination">>) /\ InOneField(<<"subscription">>) /\ InOneField(<<"message-id">>)
  BY KeywordInField DEF Keywords, Empty
<1>4. /\ DOMAIN m = K /\ m = [h \in DOMAIN m |-> m[h]] /\ m[<<"destination">>] = game
      /\ \A h \in K : m[h] = game \/ m[h] = <<"id">>
  OBVIOUS
<1>5. IsFiniteSet(K) /\ K # {}
  <2>1. K = ({<<"destination">>} \cup {<<"subscription">>}) \cup {<<"message-id">>}
    OBVIOUS
  <2>2. IsFiniteSet({<<"destination">>}) /\ IsFiniteSet({<<"subscription">>})
         /\ IsFiniteSet({<<"message-id">>})
    BY FS_Singleton
  <2>. QED BY <2>1, <2>2, FS_Union
<1>6. \A h \in K : InOneField(h)
  BY <1>3
<1>7. m \in [K -> Texts]
  BY <1>2, <1>3, <1>4 DEF InOneField, InOneLine
<1>. HIDE DEF m, K
<1>8. InFields(m)
  BY <1>2, <1>3, <1>4, <1>5, <1>6 DEF InFields, InLines, InOneField, InOneLine
<1>9. WholeHeaders(m)
  BY <1>2, <1>3, <1>4, <1>5, <1>8 DEF WholeHeaders
<1>10. "MESSAGE" \in Keywords
  BY DEF Keywords
<1>11. stringToFrameFromServer(encode(f)) = f
  BY <1>9, <1>10, FrameSendable
<1>12. body \in Texts /\ <<"MESSAGE">> \in Texts
  BY <1>10, KeywordIsText DEF Blankless
<1>13. encode(f) \in Texts
  BY <1>9, <1>10, <1>12, EncodedIsText
<1>14. f.headers = m /\ f.body = body /\ f.command = <<"MESSAGE">>
  BY DEF Frame
<1>15. f # Throws
  <2>1. f \in Frames(K)
    BY <1>7, <1>12 DEF Frame, Frames
  <2>. QED BY <2>1, ThrowsAssumption DEF K
<1>. HIDE DEF f
<1>. QED BY <1>1, <1>4, <1>11, <1>13, <1>14, <1>15

(* An error arrives as such. *)
LEMMA ErrorRead ==
  LET f == stringToFrameFromServer(encode(ErrorFrame)) IN
  encode(ErrorFrame) \in Texts /\ f # Throws /\ f.command = <<"ERROR">>
<1>. DEFINE m == OneHeader(<<"message">>, <<"User isnt subscribed to this channel">>)
            f == Frame(<<"ERROR">>, m, Empty)
<1>1. ErrorFrame = f
  BY DEF ErrorFrame, OneHeader
<1>2. /\ "message" \in Keywords /\ "User isnt subscribed to this channel" \in Keywords
      /\ "ERROR" \in Keywords
  BY DEF Keywords
<1>3. InOneField(<<"User isnt subscribed to this channel">>)
      /\ <<"User isnt subscribed to this channel">> # Empty
  BY <1>2, KeywordInField DEF Empty
<1>4. WholeHeaders(m) /\ m \in [{<<"message">>} -> Texts]
  BY <1>2, <1>3, HeadersOfOne
<1>. HIDE DEF m
<1>5. Blankless(Empty) /\ Empty \in Texts
  BY NoLines DEF FullLines, Empty, Blankless
<1>6. stringToFrameFromServer(encode(f)) = f /\ encode(f) \in Texts
  BY <1>2, <1>4, <1>5, FrameSendable, EncodedIsText
<1>7. f.command = <<"ERROR">>
  BY DEF Frame
<1>8. f # Throws
  <2>1. <<"ERROR">> \in Texts
    BY <1>2, KeywordIsText
  <2>2. f \in Frames({<<"message">>})
    BY <1>4, <1>5, <2>1 DEF Frame, Frames
  <2>. QED BY <2>2, ThrowsAssumption
<1>. HIDE DEF f
<1>. QED BY <1>1, <1>6, <1>7, <1>8

-------------------------------------------------------------------------------
(* What a text on its way may say. *)

LEMMA ListInSeq ==
  ASSUME NEW s, IsList(s), s = [i \in DOMAIN s |-> s[i]], NEW S, \A i \in DOMAIN s : s[i] \in S
  PROVE  s \in Seq(S)
<1>. DEFINE n == Len(s)
<1>1. n \in Nat /\ DOMAIN s = 1 .. n
  BY DEF IsList
<1>. HIDE DEF n
<1>2. s \in [1 .. n -> S]
  BY <1>1
<1>. QED BY <1>1, <1>2

LEMMA SeqOfMore ==
  ASSUME NEW S, NEW T, S \subseteq T
  PROVE  Seq(S) \subseteq Seq(T)
BY SeqMonotonic

(* What user w, who reports plainly if in P, may say on a game *)
Says(body, w, game, P) ==
  /\ SentBy(body, w)
  /\ w \in P => \E event : BodyTells(body, w, game, event)

(* The texts that may be on their way from user u to the server *)
ServerTexts(u, P) ==
  {t \in Texts :
     LET f == extractFrame(t) IN
     ReadsAs(f, u) /\ (u \in P => \E game, event : PlainlyRead(f, u, game, event))}

(* An empty body comes only from one whose reports are not all plain. *)
MaySay(body, w, game, P) ==
  \/ body = Empty /\ w \notin P
  \/ Says(body, w, game, P)

(* and those from the server to user v *)
ClientTexts(v, P) ==
  {t \in Texts :
     LET f == stringToFrameFromServer(t) IN
     /\ f # Throws
     /\ \/ f.command = <<"ERROR">>
        \/ /\ f.command = <<"MESSAGE">>
           /\ \E w \in Users : /\ f.headers[<<"destination">>] \in Joined[v] \cap Joined[w]
                               /\ MaySay(f.body, w, f.headers[<<"destination">>], P)}

(* The bodies that user v may store under a key *)
Bodies(v, key, P) ==
  {body \in Texts :
     \E w \in Users : \E game \in Joined[v] \cap Joined[w] :
       key = <<game, w>> /\ Says(body, w, game, P)}

(* The fewer report plainly, the more may be on its way. *)
LEMMA LessPlain ==
  ASSUME NEW P, NEW Q, Q \subseteq P, NEW u
  PROVE  /\ ServerTexts(u, P) \subseteq ServerTexts(u, Q)
         /\ ClientTexts(u, P) \subseteq ClientTexts(u, Q)
         /\ \A key : Bodies(u, key, P) \subseteq Bodies(u, key, Q)
<1>1. \A body, w, game : Says(body, w, game, P) => Says(body, w, game, Q)
  BY DEF Says
<1>2. \A body, w, game : MaySay(body, w, game, P) => MaySay(body, w, game, Q)
  BY <1>1 DEF MaySay
<1>3. ServerTexts(u, P) \subseteq ServerTexts(u, Q)
  BY DEF ServerTexts
<1>4. ClientTexts(u, P) \subseteq ClientTexts(u, Q)
  BY <1>2 DEF ClientTexts
<1>5. \A key : Bodies(u, key, P) \subseteq Bodies(u, key, Q)
  BY <1>1 DEF Bodies
<1>. QED BY <1>3, <1>4, <1>5

(* A user is a name, and not what a body without a sender gives. *)
LEMMA UsersAreNames ==
  ASSUME NEW u \in Users
  PROVE  InOneField(u) /\ u \in Texts /\ u # Throws
BY NamesAssumption, NameInField, ThrowsAssumption

(* An empty body tells of no event. *)
LEMMA EmptyIsBlankless == Blankless(Empty) /\ Empty \in Texts
BY NoLines DEF FullLines, Empty, Blankless

LEMMA EmptyTellsNothing ==
  ASSUME NEW w \in Users, NEW game, NEW event
  PROVE  ~BodyTells(Empty, w, game, event)
BY EmptyNamesNobody, UsersAreNames DEF BodyTells, SenderOf

(* reportProcess gives texts that their user may send; only one who reports plainly is
   sure to get them. *)
LEMMA ReportedFrames ==
  ASSUME NEW u \in Users, NEW file \in DOMAIN Files, NEW P, u \in P => file \in PlainFiles,
         NEW frames, frames = reportProcess(u, Files[file])
  PROVE  \/ frames = Throws /\ u \notin P
         \/ frames # Throws /\ frames \in Seq(ServerTexts(u, P))
<1>1. CASE frames = Throws
  BY <1>1, PlainFrames
<1>2. CASE frames # Throws
  <2>1. /\ IsList(frames) /\ frames = [i \in DOMAIN frames |-> frames[i]]
        /\ \A i \in DOMAIN frames : ReportText(frames[i], u)
    BY <1>2, FramesAreReports
  <2>2. \A i \in DOMAIN frames : frames[i] \in ServerTexts(u, P)
    <3>. TAKE i \in DOMAIN frames
    <3>1. frames[i] \in Texts /\ ReadsAs(extractFrame(frames[i]), u)
      BY <2>1, ReportTextRead
    <3>2. ASSUME u \in P
          PROVE  \E game, event : PlainlyRead(extractFrame(frames[i]), u, game, event)
      BY <3>2, PlainFrames
    <3>. QED BY <3>1, <3>2 DEF ServerTexts
  <2>3. frames \in Seq(ServerTexts(u, P))
    BY <2>1, <2>2, ListInSeq
  <2>. QED BY <1>2, <2>3
<1>. QED BY <1>1, <1>2

(* What the server makes of such a text may be sent to a user who has joined the game, *)
LEMMA ForwardedText ==
  ASSUME NEW u \in Users, NEW v \in Users, NEW P, NEW t \in ServerTexts(u, P),
         NEW f, f = extractFrame(t), f # Throws,
         NEW game \in Joined[u] \cap Joined[v], game = f.headers[<<"destination">>]
  PROVE  encode(MessageFrame(game, f.body)) \in ClientTexts(v, P)
<1>. DEFINE body == f.body
            m == stringToFrameFromServer(encode(MessageFrame(game, body)))
<1>1. body = Empty \/ SentBy(body, u)
  BY DEF ServerTexts, ReadsAs
<1>2. u \in P => \E event : BodyTells(body, u, game, event)
  BY DEF ServerTexts, PlainlyRead
<1>3. Blankless(body)
  BY <1>1, EmptyIsBlankless DEF SentBy
<1>4. IsName(game)
  BY NamesAssumption
<1>. HIDE DEF body
<1>5. /\ encode(MessageFrame(game, body)) \in Texts
      /\ m # Throws /\ m.command = <<"MESSAGE">> /\ m.headers[<<"destination">>] = game
      /\ m.body = body
  BY <1>3, <1>4, MessageRead
<1>6. MaySay(body, u, game, P)
  BY <1>1, <1>2, EmptyTellsNothing DEF MaySay, Says
<1>. HIDE DEF m
<1>7. \E w \in Users : /\ m.headers[<<"destination">>] \in Joined[v] \cap Joined[w]
                       /\ MaySay(m.body, w, m.headers[<<"destination">>], P)
  BY <1>5, <1>6
<1>. QED BY <1>5, <1>7 DEF ClientTexts, m, body

(* and so may an error. *)
LEMMA ErrorText ==
  ASSUME NEW v, NEW P
  PROVE  encode(ErrorFrame) \in ClientTexts(v, P)
BY ErrorRead DEF ClientTexts

(* What a client makes of such a text: a body that may be stored under the game and its
   sender.  It has no sender only when somebody in the game does not report plainly. *)
LEMMA HeardText ==
  ASSUME NEW v \in Users, NEW P, NEW t \in ClientTexts(v, P),
         NEW f, f = stringToFrameFromServer(t), f.command = <<"MESSAGE">>,
         NEW game, game = f.headers[<<"destination">>], NEW sender, sender = SenderOf(f.body)
  PROVE  /\ sender = Throws =>
              \E w \in Users : w \notin P /\ Joined[v] \cap Joined[w] # {}
         /\ sender # Throws => f.body \in Bodies(v, <<game, sender>>, P)
<1>1. PICK w \in Users : game \in Joined[v] \cap Joined[w] /\ MaySay(f.body, w, game, P)
  BY DEF ClientTexts
<1>2. CASE f.body = Empty /\ w \notin P
  BY <1>1, <1>2, EmptyNamesNobody DEF SenderOf
<1>3. CASE Says(f.body, w, game, P)
  <2>1. sender = w /\ f.body \in Texts
    BY <1>3, SentByNames, UsersAreNames DEF Says, SenderOf
  <2>2. f.body \in Bodies(v, <<game, sender>>, P)
    BY <1>1, <1>3, <2>1 DEF Bodies
  <2>. QED BY <2>1, <2>2, UsersAreNames
<1>. QED BY <1>1, <1>2, <1>3 DEF MaySay

-------------------------------------------------------------------------------
(* The summary of stored reports. *)

(* One list behind the other: the function that FlattenSeq computes *)
Flattened(f, q, i) == IF i = 1 THEN q[i] ELSE f[i - 1] \o q[i]

IsFlattening(f, q) == f = [i \in 1 .. Len(q) |-> Flattened(f, q, i)]

LEMMA FlattenNone == FlattenSeq(<<>>) = <<>>
<1>1. Len(<<>>) = 0
  OBVIOUS
<1>. QED BY <1>1 DEF FlattenSeq

(* FlattenSeq as the recursive function in its definition *)
LEMMA FlattenChoose ==
  ASSUME NEW q, Len(q) # 0
  PROVE  FlattenSeq(q) = (CHOOSE f : IsFlattening(f, q))[Len(q)]
BY DEF FlattenSeq, IsFlattening, Flattened

(* The recursion is well founded: it goes on with a shorter list. *)
LEMMA FlatteningExists ==
  ASSUME NEW q, Len(q) \in Nat
  PROVE  \E f : IsFlattening(f, q)
<1>. DEFINE n == Len(q)
            Good(f, k) == /\ f = [i \in 1 .. n |-> f[i]]
                          /\ \A i \in 1 .. n : i <= k => f[i] = Flattened(f, q, i)
            N == {k \in Nat : \E f : Good(f, k)}
<1>1. 0 \in N
  <2>. DEFINE f == [i \in 1 .. n |-> 0]
  <2>1. f = [i \in 1 .. n |-> f[i]]
    OBVIOUS
  <2>. HIDE DEF f
  <2>2. \A i \in 1 .. n : ~(i <= 0)
    OBVIOUS
  <2>3. Good(f, 0)
    BY <2>1, <2>2
  <2>. HIDE DEF Good
  <2>. QED BY <2>3
<1>2. ASSUME NEW k \in N
      PROVE  k + 1 \in N
  <2>1. PICK f : Good(f, k)
    OBVIOUS
  <2>. DEFINE g == [i \in 1 .. n |-> IF i = k + 1 THEN Flattened(f, q, i) ELSE f[i]]
  <2>2. g = [i \in 1 .. n |-> g[i]]
    OBVIOUS
  <2>3. \A i \in 1 .. n : g[i] = IF i = k + 1 THEN Flattened(f, q, i) ELSE f[i]
    OBVIOUS
  <2>. HIDE DEF g
  <2>4. ASSUME NEW i \in 1 .. n, i <= k + 1
        PROVE  g[i] = Flattened(g, q, i)
    <3>1. i # 1 => i - 1 \in 1 .. n /\ i - 1 # k + 1
      BY <2>4
    <3>0. i # 1 => g[i - 1] = f[i - 1]
      BY <2>3, <3>1
    <3>2. Flattened(g, q, i) = Flattened(f, q, i)
      BY <3>0 DEF Flattened
    <3>3. g[i] = Flattened(f, q, i)
      BY <2>1, <2>3, <2>4
    <3>. QED BY <3>2, <3>3
  <2>5. Good(g, k + 1)
    BY <2>2, <2>4
  <2>. QED BY <2>5
<1>3. N = Nat
  <2>1. N \in SUBSET Nat
    OBVIOUS
  <2>. HIDE DEF N
  <2>. QED BY <1>1, <1>2, <2>1, NaturalsAreAll
<1>4. PICK f : Good(f, n)
  BY <1>3
<1>5. f = [i \in 1 .. n |-> f[i]] /\ \A i \in 1 .. n : f[i] = Flattened(f, q, i)
  BY <1>4
<1>6. f = [i \in 1 .. n |-> Flattened(f, q, i)]
  BY <1>5
<1>. QED BY <1>6 DEF IsFlattening

LEMMA FlatteningIs ==
  ASSUME NEW q, Len(q) \in Nat
  PROVE  \E f : /\ IsFlattening(f, q) /\ (Len(q) # 0 => FlattenSeq(q) = f[Len(q)])
                /\ \A i \in 1 .. Len(q) : f[i] = Flattened(f, q, i)
<1>. DEFINE f == CHOOSE f : IsFlattening(f, q)
<1>1. IsFlattening(f, q)
  BY FlatteningExists
<1>2. Len(q) # 0 => FlattenSeq(q) = f[Len(q)]
  BY FlattenChoose
<1>. HIDE DEF f
<1>3. \A i \in 1 .. Len(q) : f[i] = Flattened(f, q, i)
  BY <1>1 DEF IsFlattening
<1>. QED BY <1>1, <1>2, <1>3

(* Positions in a sequence with one more element *)
LEMMA AppendIs ==
  ASSUME NEW S, NEW q \in Seq(S), NEW x \in S
  PROVE  /\ Append(q, x) \in Seq(S) /\ Len(q) \in Nat /\ Len(Append(q, x)) = Len(q) + 1
         /\ Append(q, x)[Len(q) + 1] = x /\ Append(q, x) # <<>>
         /\ \A i \in 1 .. Len(q) : Append(q, x)[i] = q[i]
OBVIOUS

(* One more list comes behind the others. *)
LEMMA FlattenMore ==
  ASSUME NEW S, NEW q \in Seq(Seq(S)), NEW x \in Seq(S)
  PROVE  /\ FlattenSeq(q) \in Seq(S)
         /\ FlattenSeq(Append(q, x)) = FlattenSeq(q) \o x
<1>. DEFINE n == Len(q)
            r == Append(q, x)
<1>0. /\ r \in Seq(Seq(S)) /\ n \in Nat /\ Len(r) = n + 1 /\ r[n + 1] = x
      /\ \A i \in 1 .. n : r[i] = q[i]
  BY AppendIs
<1>1. \A i \in 1 .. n : q[i] \in Seq(S)
  OBVIOUS
<1>2. PICK f : /\ n # 0 => FlattenSeq(q) = f[n]
               /\ \A i \in 1 .. n : f[i] = Flattened(f, q, i)
  BY <1>0, FlatteningIs
<1>. HIDE DEF r
<1>3. PICK g : /\ Len(r) # 0 => FlattenSeq(r) = g[Len(r)]
               /\ \A i \in 1 .. Len(r) : g[i] = Flattened(g, r, i)
  BY <1>0, FlatteningIs
<1>4. n = 0 => FlattenSeq(q) = <<>>
  <2>1. n = 0 => q = <<>>
    OBVIOUS
  <2>. QED BY <2>1, FlattenNone
<1>. HIDE DEF n
<1>5. FlattenSeq(r) = g[n + 1] /\ g[n + 1] = IF n = 0 THEN x ELSE g[n] \o x
  <2>1. n + 1 \in 1 .. Len(r) /\ n + 1 - 1 = n /\ (n + 1 = 1 <=> n = 0) /\ Len(r) # 0
    BY <1>0
  <2>2. g[n + 1] = Flattened(g, r, n + 1)
    BY <1>3, <2>1
  <2>3. FlattenSeq(r) = g[Len(r)]
    BY <1>3, <2>1
  <2>4. Flattened(g, r, n + 1) = IF n = 0 THEN x ELSE g[n] \o x
    BY <1>0, <2>1 DEF Flattened
  <2>. QED BY <1>0, <2>2, <2>3, <2>4
<1>6. \A i \in 1 .. n : g[i] = Flattened(g, q, i)
  <2>. TAKE i \in 1 .. n
  <2>1. i \in 1 .. Len(r) /\ r[i] = q[i]
    BY <1>0
  <2>2. Flattened(g, r, i) = Flattened(g, q, i)
    BY <2>1 DEF Flattened
  <2>. QED BY <1>3, <2>1, <2>2
<1>7. \A i \in 1 .. n : f[i] = g[i] /\ f[i] \in Seq(S)
  <2>. DEFINE N == {k \in Nat : \A i \in 1 .. n : i <= k => f[i] = g[i] /\ f[i] \in Seq(S)}
  <2>1. 0 \in N
    OBVIOUS
  <2>2. ASSUME NEW k \in N
        PROVE  k + 1 \in N
    <3>1. k \in Nat /\ \A i \in 1 .. n : i <= k => f[i] = g[i] /\ f[i] \in Seq(S)
      OBVIOUS
    <3>2. ASSUME NEW i \in 1 .. n, i <= k + 1
          PROVE  f[i] = g[i] /\ f[i] \in Seq(S)
      <4>1. CASE i <= k
        BY <3>1, <4>1
      <4>2. CASE i = 1
        BY <1>1, <1>2, <1>6, <4>2 DEF Flattened
      <4>3. CASE i = k + 1 /\ i # 1
        <5>. DEFINE p == i - 1
        <5>1. p \in 1 .. n /\ p <= k
          BY <1>0, <3>1, <4>3
        <5>2. f[p] = g[p] /\ f[p] \in Seq(S) /\ q[i] \in Seq(S)
          BY <1>1, <3>1, <5>1
        <5>3. f[i] = f[p] \o q[i] /\ g[i] = g[p] \o q[i]
          BY <1>2, <1>6, <4>3 DEF Flattened
        <5>. HIDE DEF p
        <5>4. f[p] \o q[i] \in Seq(S)
          BY <5>2
        <5>. QED BY <5>2, <5>3, <5>4
      <4>4. i <= k \/ i = k + 1
        BY <1>0, <3>1, <3>2
      <4>. QED BY <4>1, <4>2, <4>3, <4>4
    <3>. QED BY <3>1, <3>2
  <2>3. N = Nat
    <3>1. N \in SUBSET Nat
      OBVIOUS
    <3>. HIDE DEF N
    <3>. QED BY <2>1, <2>2, <3>1, NaturalsAreAll
  <2>4. ASSUME NEW i \in 1 .. n
        PROVE  f[i] = g[i] /\ f[i] \in Seq(S)
    <3>1. i \in Nat
      BY <1>0
    <3>2. i \in N
      BY <2>3, <3>1
    <3>. QED BY <1>0, <3>1, <3>2
  <2>. QED BY <2>4
<1>8. CASE n = 0
  <2>1. <<>> \o x = x /\ <<>> \in Seq(S)
    OBVIOUS
  <2>. QED BY <1>4, <1>5, <1>8, <2>1 DEF r
<1>9. CASE n # 0
  <2>1. n \in 1 .. n
    BY <1>0, <1>9
  <2>. QED BY <1>2, <1>5, <1>7, <1>9, <2>1 DEF r
<1>. QED BY <1>8, <1>9

(* Max picks the greatest number. *)
LEMMA MaxIs ==
  ASSUME NEW S \in SUBSET Nat, NEW m \in S, \A k \in S : k <= m
  PROVE  Max(S) = m
<1>1. \E x \in S : \A y \in S : x >= y
  OBVIOUS
<1>2. Max(S) \in S /\ \A y \in S : Max(S) >= y
  BY <1>1 DEF Max
<1>3. PICK x : x = Max(S)
  OBVIOUS
<1>4. x \in Nat /\ m \in Nat /\ x >= m /\ x <= m
  BY <1>2, <1>3
<1>5. x = m
  BY <1>4
<1>. QED BY <1>3, <1>5

LEMMA MaxIsGreatest ==
  ASSUME NEW n \in Nat, NEW S \in SUBSET (1 .. n), S # {}
  PROVE  Max(S) \in S /\ \A k \in S : k <= Max(S)
<1>. DEFINE T == {n - k : k \in S}
<1>0. \A k \in S : k \in Nat /\ n - k \in Nat
  OBVIOUS
<1>1. T \in SUBSET Nat /\ T # {}
  BY <1>0
<1>2. PICK m \in T : \A k \in T : m <= k
  BY <1>1, LeastNatural
<1>3. PICK x \in S : m = n - x
  BY <1>2
<1>4. \A y \in S : y <= x
  <2>. TAKE y \in S
  <2>1. n - y \in T
    OBVIOUS
  <2>2. n - x <= n - y
    BY <1>2, <1>3, <2>1
  <2>. QED BY <1>0, <2>2
<1>5. Max(S) = x
  <2>1. S \in SUBSET Nat
    BY <1>0
  <2>. QED BY <1>4, <2>1, MaxIs
<1>. QED BY <1>4, <1>5

-----------------------------------------------------------------------------
(* One map put into another *)
Override(f, g) == [k \in DOMAIN f \cup DOMAIN g |-> IF k \in DOMAIN g THEN g[k] ELSE f[k]]

(* Where a key is among the pairs *)
Positions(pairs, k) == {i \in DOMAIN pairs : pairs[i][1] = k}

(* PutAll keeps the last value of each key. *)
LEMMA PutAllIs ==
  ASSUME NEW S, NEW pairs \in Seq(S)
  PROVE  /\ PutAll(pairs) = [k \in DOMAIN PutAll(pairs) |-> PutAll(pairs)[k]]
         /\ \A k : k \in DOMAIN PutAll(pairs) <=> Positions(pairs, k) # {}
         /\ \A k \in DOMAIN PutAll(pairs) : PutAll(pairs)[k] = pairs[Max(Positions(pairs, k))][2]
<1>. DEFINE D == {pairs[i][1] : i \in DOMAIN pairs}
<1>1. PutAll(pairs) = [k \in D |-> pairs[Max(Positions(pairs, k))][2]]
  BY DEF PutAll, Positions
<1>2. \A k : k \in D <=> Positions(pairs, k) # {}
  BY DEF Positions
<1>. HIDE DEF D
<1>. QED BY <1>1, <1>2

(* Pairs behind others override them. *)
LEMMA PutAllBehind ==
  ASSUME NEW S, NEW p \in Seq(S), NEW q \in Seq(S)
  PROVE  PutAll(p \o q) = Override(PutAll(p), PutAll(q))
<1>. DEFINE r == p \o q
            n == Len(p)
            m == Len(q)
<1>1. /\ r \in Seq(S) /\ n \in Nat /\ m \in Nat /\ DOMAIN r = 1 .. n + m
      /\ DOMAIN p = 1 .. n /\ DOMAIN q = 1 .. m
      /\ \A i \in 1 .. n : r[i] = p[i]
      /\ \A i \in 1 .. m : r[n + i] = q[i]
  OBVIOUS
<1>. HIDE DEF r, n, m
<1>2. ASSUME NEW k
      PROVE  Positions(p, k) \subseteq 1 .. n /\ Positions(q, k) \subseteq 1 .. m
             /\ Positions(r, k) \subseteq 1 .. n + m
             /\ (\A i \in Positions(p, k) : i \in Positions(r, k))
             /\ (\A i \in Positions(q, k) : n + i \in Positions(r, k))
             /\ (\A i \in Positions(r, k) : i \in Positions(p, k) \/ i - n \in Positions(q, k))
  <2>1. \A i \in 1 .. m : n + i \in 1 .. n + m
    BY <1>1
  <2>2. \A i \in 1 .. n + m : i \in 1 .. n \/ (i - n \in 1 .. m /\ i = n + (i - n))
    BY <1>1
  <2>. QED BY <1>1, <2>1, <2>2 DEF Positions
<1>3. ASSUME NEW k, Positions(q, k) # {}
      PROVE  Max(Positions(r, k)) = n + Max(Positions(q, k)) /\ Max(Positions(q, k)) \in 1 .. m
  <2>. DEFINE x == Max(Positions(q, k))
  <2>1. x \in Positions(q, k) /\ \A i \in Positions(q, k) : i <= x
    BY <1>1, <1>2, <1>3, MaxIsGreatest
  <2>. HIDE DEF x
  <2>2. n + x \in Positions(r, k) /\ x \in 1 .. m
    BY <1>2, <2>1
  <2>3. ASSUME NEW i \in Positions(r, k)
        PROVE  i <= n + x
    <3>1. i \in 1 .. n + m /\ (i \in 1 .. n \/ i - n \in Positions(q, k))
      BY <1>2
    <3>2. CASE i \in 1 .. n
      BY <1>1, <2>2, <3>2
    <3>3. CASE i - n \in Positions(q, k)
      <4>1. i - n <= x
        BY <2>1, <3>3
      <4>. QED BY <1>1, <2>2, <3>1, <4>1
    <3>. QED BY <3>1, <3>2, <3>3
  <2>4. Positions(r, k) \in SUBSET Nat
    BY <1>1, <1>2
  <2>. QED BY <2>2, <2>3, <2>4, MaxIs DEF x
<1>4. ASSUME NEW k, Positions(q, k) = {}, Positions(p, k) # {}
      PROVE  Max(Positions(r, k)) = Max(Positions(p, k)) /\ Max(Positions(p, k)) \in 1 .. n
  <2>1. Positions(r, k) = Positions(p, k)
    BY <1>2, <1>4
  <2>2. Max(Positions(p, k)) \in Positions(p, k)
    BY <1>1, <1>2, <1>4, MaxIsGreatest
  <2>. QED BY <1>2, <2>1, <2>2
<1>. DEFINE f == PutAll(p)
            g == PutAll(q)
            h == PutAll(r)
<1>5. /\ h = [k \in DOMAIN h |-> h[k]]
      /\ \A k : /\ k \in DOMAIN h <=> Positions(r, k) # {}
                /\ k \in DOMAIN f <=> Positions(p, k) # {}
                /\ k \in DOMAIN g <=> Positions(q, k) # {}
      /\ \A k \in DOMAIN h : h[k] = r[Max(Positions(r, k))][2]
      /\ \A k \in DOMAIN f : f[k] = p[Max(Positions(p, k))][2]
      /\ \A k \in DOMAIN g : g[k] = q[Max(Positions(q, k))][2]
  BY <1>1, PutAllIs
<1>. HIDE DEF f, g, h
<1>6. DOMAIN h = DOMAIN f \cup DOMAIN g
  BY <1>2, <1>5
<1>7. ASSUME NEW k \in DOMAIN h
      PROVE  h[k] = IF k \in DOMAIN g THEN g[k] ELSE f[k]
  <2>1. CASE k \in DOMAIN g
    <3>. DEFINE x == Max(Positions(q, k))
    <3>1. Max(Positions(r, k)) = n + x /\ x \in 1 .. m
      BY <1>3, <1>5, <2>1
    <3>2. r[n + x] = q[x]
      BY <1>1, <3>1
    <3>. QED BY <1>5, <2>1, <3>1, <3>2
  <2>2. CASE k \notin DOMAIN g
    <3>. DEFINE x == Max(Positions(p, k))
    <3>0. k \in DOMAIN f
      BY <1>6, <2>2
    <3>1. Max(Positions(r, k)) = x /\ x \in 1 .. n
      BY <1>4, <1>5, <2>2, <3>0
    <3>2. r[x] = p[x]
      BY <1>1, <3>1
    <3>. QED BY <1>5, <2>2, <3>0, <3>1, <3>2
  <2>. QED BY <2>1, <2>2
<1>8. h = Override(f, g)
  BY <1>5, <1>6, <1>7 DEF Override
<1>. QED BY <1>8 DEF f, g, h, r

-----------------------------------------------------------------------------
(* The events that give a value for the key *)
Giving(events, label, k) == {i \in DOMAIN events : k \in DOMAIN Member(events[i], label).members}

(* The reference definition: of each key the value in the last event that gives one *)
LEMMA LastValuesIs ==
  ASSUME NEW events, NEW label
  PROVE  /\ LastValues(events, label) =
              [k \in DOMAIN LastValues(events, label) |-> LastValues(events, label)[k]]
         /\ \A k : k \in DOMAIN LastValues(events, label) <=> Giving(events, label, k) # {}
         /\ \A k \in DOMAIN LastValues(events, label) :
              LastValues(events, label)[k] =
                Member(events[Max(Giving(events, label, k))], label).members[k].text
<1>. DEFINE D == UNION {DOMAIN Member(events[i], label).members : i \in DOMAIN events}
<1>1. LastValues(events, label) =
        [k \in D |-> Member(events[Max(Giving(events, label, k))], label).members[k].text]
  BY DEF LastValues, Giving
<1>2. \A k : k \in D <=> Giving(events, label, k) # {}
  BY DEF Giving
<1>. HIDE DEF D
<1>. QED BY <1>1, <1>2

(* The updates of one event, key by key *)
LEMMA MapOfIs ==
  ASSUME NEW e, NEW label
  PROVE  /\ DOMAIN MapOf(e, label) = DOMAIN Member(e, label).members
         /\ \A k \in DOMAIN MapOf(e, label) : MapOf(e, label)[k] = Member(e, label).members[k].text
         /\ MapOf(e, label) = [k \in DOMAIN MapOf(e, label) |-> MapOf(e, label)[k]]
BY DEF MapOf

(* One more event overrides what the others gave. *)
LEMMA LastValuesMore ==
  ASSUME NEW S, NEW events \in Seq(S), NEW e \in S, NEW label
  PROVE  LastValues(Append(events, e), label) = Override(LastValues(events, label), MapOf(e, label))
<1>. DEFINE r == Append(events, e)
            n == Len(events)
<1>1. /\ n \in Nat /\ DOMAIN r = 1 .. n + 1 /\ DOMAIN events = 1 .. n
      /\ r[n + 1] = e /\ \A i \in 1 .. n : r[i] = events[i]
  BY AppendIs
<1>. HIDE DEF r, n
<1>. DEFINE G(k) == Giving(events, label, k)
            H(k) == Giving(r, label, k)
            f == LastValues(events, label)
            g == MapOf(e, label)
            h == LastValues(r, label)
<1>2. /\ h = [k \in DOMAIN h |-> h[k]]
      /\ \A k : k \in DOMAIN h <=> H(k) # {}
      /\ \A k : k \in DOMAIN f <=> G(k) # {}
      /\ \A k \in DOMAIN h : h[k] = Member(r[Max(H(k))], label).members[k].text
      /\ \A k \in DOMAIN f : f[k] = Member(events[Max(G(k))], label).members[k].text
  BY LastValuesIs
<1>3. /\ DOMAIN g = DOMAIN Member(e, label).members
      /\ \A k \in DOMAIN g : g[k] = Member(e, label).members[k].text
  BY MapOfIs
<1>. HIDE DEF f, g, h
<1>4. ASSUME NEW k
      PROVE  /\ G(k) \in SUBSET (1 .. n) /\ H(k) \in SUBSET (1 .. n + 1)
             /\ (k \in DOMAIN g => n + 1 \in H(k) /\ H(k) # {})
             /\ (k \notin DOMAIN g => H(k) = G(k)) /\ (G(k) # {} => H(k) # {})
  <2>1. \A i \in 1 .. n + 1 : i \in 1 .. n \/ i = n + 1
    BY <1>1
  <2>2. n + 1 \in 1 .. n + 1 /\ \A i \in 1 .. n : i \in 1 .. n + 1
    BY <1>1
  <2>3. G(k) \in SUBSET (1 .. n) /\ H(k) \in SUBSET (1 .. n + 1)
    BY <1>1 DEF Giving
  <2>4. \A i \in 1 .. n : i \in H(k) <=> i \in G(k)
    BY <1>1, <2>2 DEF Giving
  <2>5. n + 1 \in H(k) <=> k \in DOMAIN g
    BY <1>1, <1>3, <2>2 DEF Giving
  <2>6. G(k) # {} => H(k) # {}
    BY <2>3, <2>4
  <2>7. k \notin DOMAIN g => H(k) = G(k)
    BY <2>1, <2>3, <2>4, <2>5
  <2>. QED BY <2>3, <2>5, <2>6, <2>7
<1>. HIDE DEF G, H
<1>5. DOMAIN h = DOMAIN f \cup DOMAIN g
  <2>1. \A k : k \in DOMAIN h <=> k \in DOMAIN f \/ k \in DOMAIN g
    <3>. TAKE k
    <3>. QED BY <1>2, <1>4
  <2>. QED BY <2>1
<1>6. ASSUME NEW k \in DOMAIN h
      PROVE  h[k] = IF k \in DOMAIN g THEN g[k] ELSE f[k]
  <2>1. CASE k \in DOMAIN g
    <3>1. H(k) \in SUBSET Nat /\ n + 1 \in H(k) /\ \A i \in H(k) : i <= n + 1
      BY <1>1, <1>4, <2>1
    <3>2. Max(H(k)) = n + 1
      BY <3>1, MaxIs
    <3>. QED BY <1>1, <1>2, <1>3, <2>1, <3>2
  <2>2. CASE k \notin DOMAIN g
    <3>0. H(k) = G(k) /\ k \in DOMAIN f /\ G(k) # {}
      BY <1>2, <1>4, <1>5, <2>2
    <3>1. H(k) = G(k) /\ k \in DOMAIN f /\ G(k) # {} /\ G(k) \in SUBSET (1 .. n)
      BY <1>4, <3>0
    <3>2. Max(G(k)) \in 1 .. n
      BY <1>1, <3>1, MaxIsGreatest
    <3>3. r[Max(H(k))] = events[Max(G(k))]
      BY <1>1, <3>1, <3>2
    <3>. QED BY <1>2, <2>2, <3>1, <3>3
  <2>. QED BY <2>1, <2>2
<1>7. h = Override(f, g)
  BY <1>2, <1>5, <1>6 DEF Override
<1>. QED BY <1>7 DEF f, g, h, r

LEMMA NothingPut ==
  ASSUME NEW label
  PROVE  LastValues(<<>>, label) = PutAll(<<>>)
<1>1. DOMAIN << >> = {}
  OBVIOUS
<1>2. DOMAIN LastValues(<<>>, label) = {} /\ DOMAIN PutAll(<<>>) = {}
  BY <1>1 DEF LastValues, PutAll
<1>3. <<>> \in Seq({})
  OBVIOUS
<1>4. /\ LastValues(<<>>, label) = [k \in {} |-> LastValues(<<>>, label)[k]]
      /\ PutAll(<<>>) = [k \in {} |-> PutAll(<<>>)[k]]
  BY <1>2, <1>3, LastValuesIs, PutAllIs
<1>. QED BY <1>4

(* A prefix that is one longer *)
LEMMA PrefixIs ==
  ASSUME NEW S, NEW q \in Seq(S), NEW n \in Nat, n < Len(q)
  PROVE  /\ SubSeq(q, 1, n) \in Seq(S) /\ q[n + 1] \in S /\ Len(SubSeq(q, 1, n)) = n
         /\ SubSeq(q, 1, n + 1) = Append(SubSeq(q, 1, n), q[n + 1])
         /\ SubSeq(q, 1, 0) = <<>>
OBVIOUS

(* Merging the lists of the reports one behind the other, as summary does, gives the last
   value of each key. *)
LEMMA MergeGivesTheLastValues ==
  ASSUME NEW S, NEW lists \in Seq(UpdatePairs), NEW events \in Seq(S), Len(lists) = Len(events),
         NEW label, \A i \in 1 .. Len(lists) : PutAll(lists[i]) = MapOf(events[i], label)
  PROVE  Merge(lists) = LastValues(events, label)
<1>. DEFINE n == Len(lists)
            P(k) == PutAll(FlattenSeq(SubSeq(lists, 1, k))) = LastValues(SubSeq(events, 1, k), label)
            N == {k \in Nat : k <= n => P(k)}
<1>0. n \in Nat /\ SubSeq(lists, 1, n) = lists /\ SubSeq(events, 1, n) = events
  OBVIOUS
<1>1. 0 \in N
  <2>1. SubSeq(lists, 1, 0) = <<>> /\ SubSeq(events, 1, 0) = <<>>
    OBVIOUS
  <2>. QED BY <2>1, FlattenNone, NothingPut
<1>2. ASSUME NEW k \in N
      PROVE  k + 1 \in N
  <2>0. k \in Nat /\ (k <= n => P(k))
    OBVIOUS
  <2>1. CASE k + 1 <= n
    <3>. DEFINE a == SubSeq(lists, 1, k)
                b == SubSeq(events, 1, k)
                x == lists[k + 1]
                e == events[k + 1]
    <3>1. k < Len(lists) /\ k < Len(events) /\ k + 1 \in 1 .. Len(lists)
      BY <1>0, <2>0, <2>1
    <3>2. /\ a \in Seq(UpdatePairs) /\ x \in UpdatePairs /\ SubSeq(lists, 1, k + 1) = Append(a, x)
          /\ b \in Seq(S) /\ e \in S /\ SubSeq(events, 1, k + 1) = Append(b, e)
      BY <2>0, <3>1, PrefixIs
    <3>3. PutAll(x) = MapOf(e, label) /\ PutAll(FlattenSeq(a)) = LastValues(b, label)
      BY <1>0, <2>0, <2>1, <3>1
    <3>. HIDE DEF a, b, x, e
    <3>4. /\ FlattenSeq(a) \in UpdatePairs
          /\ FlattenSeq(Append(a, x)) = FlattenSeq(a) \o x
      BY <3>2, FlattenMore DEF UpdatePairs
    <3>5. PutAll(FlattenSeq(a) \o x) = Override(PutAll(FlattenSeq(a)), PutAll(x))
      BY <3>2, <3>4, PutAllBehind DEF UpdatePairs
    <3>6. LastValues(Append(b, e), label) = Override(LastValues(b, label), MapOf(e, label))
      BY <3>2, LastValuesMore
    <3>7. P(k + 1)
      BY <3>2, <3>3, <3>4, <3>5, <3>6
    <3>. QED BY <2>0, <3>7
  <2>. QED BY <1>0, <2>0, <2>1
<1>3. N = Nat
  <2>1. N \in SUBSET Nat
    OBVIOUS
  <2>. HIDE DEF N
  <2>. QED BY <1>1, <1>2, <2>1, NaturalsAreAll
<1>4. P(n)
  BY <1>0, <1>3
<1>. QED BY <1>0, <1>4 DEF Merge

(* What is computed of plain events is no exception. *)
LEMMA LastValuesArePlain ==
  ASSUME NEW events \in Seq(PlainEvents), NEW label \in {GeneralLabel, TeamALabel, TeamBLabel}
  PROVE  LastValues(events, label) \in PlainMaps
<1>. DEFINE f == LastValues(events, label)
            n == Len(events)
<1>1. n \in Nat /\ DOMAIN events = 1 .. n /\ \A i \in 1 .. n : events[i] \in PlainEvents
  OBVIOUS
<1>. HIDE DEF n
<1>2. /\ f = [k \in DOMAIN f |-> f[k]]
      /\ \A k : k \in DOMAIN f <=> Giving(events, label, k) # {}
      /\ \A k \in DOMAIN f :
           f[k] = Member(events[Max(Giving(events, label, k))], label).members[k].text
  BY LastValuesIs
<1>. HIDE DEF f
<1>3. ASSUME NEW k \in DOMAIN f
      PROVE  k \in PlainKeys /\ f[k] \in Texts
  <2>. DEFINE G == Giving(events, label, k)
              e == events[Max(G)]
  <2>1. G \in SUBSET (1 .. n) /\ G # {}
    BY <1>1, <1>2 DEF Giving
  <2>2. Max(G) \in G
    BY <1>1, <2>1, MaxIsGreatest
  <2>3. e \in PlainEvents /\ k \in DOMAIN Member(e, label).members
    BY <1>1, <2>1, <2>2 DEF Giving
  <2>4. f[k] = Member(e, label).members[k].text
    BY <1>2
  <2>. HIDE DEF e
  <2>5. PICK S \in SUBSET PlainKeys : MapOf(e, label) \in [S -> Texts]
    BY <2>3, PlainEventsAre DEF PlainMaps
  <2>6. k \in DOMAIN MapOf(e, label) /\ MapOf(e, label)[k] = f[k]
    BY <2>3, <2>4, MapOfIs
  <2>. QED BY <2>5, <2>6
<1>4. f \in [DOMAIN f -> Texts] /\ DOMAIN f \in SUBSET PlainKeys
  BY <1>2, <1>3
<1>5. f \in PlainMaps
  BY <1>4 DEF PlainMaps
<1>. QED BY <1>5 DEF f

(* summary finds both teams in the name of a plain game. *)
LEMMA TeamsOfGame ==
  ASSUME NEW game, PlainGame(game), NEW p, p = BetweenTeams(game)
  PROVE  \E a \in Texts, b \in Texts :
           /\ split(game, <<Underscore>>) = <<a, b>>
           /\ SubSeq(game, 1, p - 1) = a /\ SubSeq(game, p + 1, Len(game)) = b
<1>0. PICK a \in Texts, b \in Texts :
        Within(a, Separators) /\ Within(b, Separators) /\ game = a \o <<Underscore>> \o b
  BY DEF PlainGame
<1>1. Underscore \in Separators /\ Underscore \notin ToSet(a) /\ Underscore \notin ToSet(b)
  BY <1>0 DEF Within, Separators
<1>2. split(game, <<Underscore>>) = <<a>> \o <<b>>
  <2>1. Underscore \in Tokens
    BY NLIsToken
  <2>2. split(b, <<Underscore>>) = <<b>>
    BY <1>1, <2>1, SplitWhole
  <2>3. split(a \o <<Underscore>> \o b, <<Underscore>>) = <<a>> \o split(b, <<Underscore>>)
    BY <1>1, <2>1, SplitCut
  <2>. QED BY <1>0, <2>2, <2>3
<1>3. <<a>> \o <<b>> = <<a, b>>
  BY TwoElements
<1>. DEFINE m == a \o <<Underscore>>
            x == Len(a) + 1
            I == {i \in DOMAIN game : game[i] = Underscore}
<1>4. /\ m \in Texts /\ Len(a) \in Nat /\ Len(m) = x /\ m[x] = Underscore
      /\ \A i \in 1 .. Len(a) : m[i] = a[i]
  BY AddToken, NLIsToken
<1>5. /\ game = m \o b /\ Len(b) \in Nat /\ Len(game) = x + Len(b)
      /\ \A i \in 1 .. x : game[i] = m[i]
      /\ \A i : i \in DOMAIN game <=> i \in 1 .. x + Len(b)
      /\ SubSeq(game, 1, x) = m
      /\ SubSeq(game, x + 1, Len(game)) = b
  <2>1. game = m \o b
    BY <1>0
  <2>. HIDE DEF m, x
  <2>2. /\ m \o b \in Texts /\ Len(b) \in Nat /\ Len(m \o b) = Len(m) + Len(b)
        /\ \A i \in 1 .. Len(m) : (m \o b)[i] = m[i]
        /\ SubSeq(m \o b, 1, Len(m)) = m
        /\ SubSeq(m \o b, Len(m) + 1, Len(m) + Len(b)) = b
    BY <1>4, TextConcat, CutConcat
  <2>3. \A i : i \in DOMAIN game <=> i \in 1 .. Len(game)
    BY <2>1, <2>2 DEF Texts
  <2>. QED BY <1>4, <2>1, <2>2, <2>3
<1>6. x \in I
  BY <1>4, <1>5
<1>7. \A i \in I : x <= i
  <2>. SUFFICES ASSUME NEW i \in I, i < x PROVE FALSE
    BY <1>4, <1>5
  <2>1. i \in 1 .. Len(a) /\ game[i] = a[i]
    BY <1>4, <1>5
  <2>2. a[i] = Underscore
    BY <2>1
  <2>. QED BY <1>1, <2>1, <2>2 DEF ToSet, Texts
<1>8. I \in SUBSET Nat
  BY <1>4, <1>5
<1>9. p = x
  <2>1. Min(I) = x
    BY <1>6, <1>7, <1>8, MinIs
  <2>. QED BY <2>1 DEF BetweenTeams
<1>11. SubSeq(game, 1, x - 1) = a
  <2>1. <<Underscore>> \o b \in Texts /\ Associate(a, <<Underscore>>, b)
    BY TextsAssociate, NLIsToken, NoBlankInWord, TextConcat
  <2>2. game = a \o (<<Underscore>> \o b)
    BY <1>0, <2>1 DEF Associate
  <2>3. SubSeq(game, 1, Len(a)) = a
    BY <2>1, <2>2, CutConcat
  <2>. QED BY <1>4, <2>3
<1>. QED BY <1>2, <1>3, <1>5, <1>6, <1>9, <1>11

(* The events that the bodies tell, one by one *)
BodiesTell(bodies, w, game, events) ==
  /\ Len(bodies) \in Nat /\ DOMAIN bodies = 1 .. Len(bodies)
  /\ events \in Seq(PlainEvents) /\ Len(events) = Len(bodies)
  /\ \A i \in 1 .. Len(bodies) : BodyTells(bodies[i], w, game, events[i])

(* The records that summary reads from such bodies *)
LEMMA FieldsOfReports ==
  ASSUME NEW w, NEW game, NEW bodies, NEW events, BodiesTell(bodies, w, game, events),
         NEW reports, reports = [i \in DOMAIN bodies |-> ReadReport(bodies[i])]
  PROVE  /\ DOMAIN reports = 1 .. Len(events) /\ DOMAIN events = 1 .. Len(events)
         /\ Len(events) \in Nat
         /\ \A i \in 1 .. Len(events) :
              ReadsAsEvent(reports[i], events[i]) /\ reports[i] # Throws /\ events[i] \in PlainEvents
<1>. DEFINE n == Len(bodies)
<1>1. /\ n \in Nat /\ DOMAIN bodies = 1 .. n
      /\ events \in Seq(PlainEvents) /\ Len(events) = n
      /\ \A i \in 1 .. n : BodyTells(bodies[i], w, game, events[i])
  BY DEF BodiesTell
<1>2. DOMAIN events = 1 .. n /\ \A i \in 1 .. n : events[i] \in PlainEvents
  BY <1>1
<1>. HIDE DEF n
<1>3. DOMAIN reports = 1 .. n /\ \A i \in 1 .. n : reports[i] = ReadReport(bodies[i])
  BY <1>1
<1>4. \A i \in 1 .. n : ReadsAsEvent(reports[i], events[i]) /\ reports[i] # Throws
  <2>. TAKE i \in 1 .. n
  <2>1. ReadsAsEvent(reports[i], events[i])
    BY <1>1, <1>3 DEF BodyTells
  <2>. QED BY <2>1, ThrowsAssumption DEF ReadsAsEvent
<1>. QED BY <1>1, <1>2, <1>3, <1>4

(* One of the three lists of a summary *)
LEMMA MergedField ==
  ASSUME NEW reports, NEW events \in Seq(PlainEvents), DOMAIN reports = 1 .. Len(events),
         NEW field, NEW label \in {GeneralLabel, TeamALabel, TeamBLabel},
         \A i \in 1 .. Len(events) : /\ reports[i][field] \in UpdatePairs
                                     /\ PutAll(reports[i][field]) = MapOf(events[i], label)
  PROVE  Merge([i \in DOMAIN reports |-> reports[i][field]]) = LastValues(events, label)
<1>. DEFINE n == Len(events)
            lists == [i \in DOMAIN reports |-> reports[i][field]]
<1>0. n \in Nat
  OBVIOUS
<1>1. lists = [i \in 1 .. n |-> reports[i][field]]
  OBVIOUS
<1>2. lists \in [1 .. n -> UpdatePairs] /\ \A i \in 1 .. n : lists[i] = reports[i][field]
  BY <1>1
<1>. HIDE DEF lists
<1>3. lists \in Seq(UpdatePairs) /\ Len(lists) = n
  BY <1>0, <1>2
<1>4. \A i \in 1 .. Len(lists) : PutAll(lists[i]) = MapOf(events[i], label)
  BY <1>2, <1>3
<1>5. Merge(lists) = LastValues(events, label)
  BY <1>3, <1>4, MergeGivesTheLastValues
<1>. QED BY <1>5 DEF lists

(* A summary of stored bodies is the one that the events they tell should give. *)
THEOREM SummaryOfBodies ==
  ASSUME NEW w, NEW game, PlainGame(game), NEW bodies, NEW events,
         BodiesTell(bodies, w, game, events)
  PROVE  /\ summaryProcess(game, bodies) = SummaryOf(game, events)
         /\ summaryProcess(game, bodies) # Throws
<1>. DEFINE reports == [i \in DOMAIN bodies |-> ReadReport(bodies[i])]
            teams == split(game, <<Underscore>>)
<1>0. reports = [i \in DOMAIN bodies |-> ReadReport(bodies[i])]
  OBVIOUS
<1>. HIDE DEF reports
<1>1. /\ DOMAIN reports = 1 .. Len(events) /\ DOMAIN events = 1 .. Len(events)
      /\ Len(events) \in Nat
      /\ \A i \in 1 .. Len(events) :
           ReadsAsEvent(reports[i], events[i]) /\ reports[i] # Throws /\ events[i] \in PlainEvents
  BY <1>0, FieldsOfReports
<1>. DEFINE n == Len(events)
<1>01. /\ DOMAIN reports = 1 .. n /\ DOMAIN events = 1 .. n /\ n \in Nat
      /\ \A i \in 1 .. n :
           ReadsAsEvent(reports[i], events[i]) /\ reports[i] # Throws /\ events[i] \in PlainEvents
  BY <1>1
<1>2. summaryProcess(game, bodies) = Summary(teams, reports)
  BY DEF summaryProcess, reports
<1>3. events \in Seq(PlainEvents)
  BY DEF BodiesTell
<1>. HIDE DEF n
<1>4. PICK p : p = BetweenTeams(game)
  OBVIOUS
<1>5. PICK a \in Texts, b \in Texts :
        /\ teams = <<a, b>>
        /\ SubSeq(game, 1, p - 1) = a /\ SubSeq(game, p + 1, Len(game)) = b
  BY <1>4, TeamsOfGame
<1>6. ~(Len(teams) < 2) /\ teams[1] = a /\ teams[2] = b
  BY <1>5
<1>7. Throws \notin ToSet(reports)
  BY <1>01 DEF ToSet
<1>. HIDE DEF teams
<1>. DEFINE game_list == [i \in DOMAIN reports |-> reports[i]["game"]]
            a_list == [i \in DOMAIN reports |-> reports[i]["team_a"]]
            b_list == [i \in DOMAIN reports |-> reports[i]["team_b"]]
            all == [i \in DOMAIN reports |->
                       <<reports[i].time, reports[i].name, reports[i].description>>]
            told == [i \in DOMAIN events |-> Told(events[i])]
<1>8. Summary(teams, reports) =
        [team_a |-> a, team_b |-> b, general |-> Merge(game_list),
         a_stats |-> Merge(a_list), b_stats |-> Merge(b_list), reports |-> all]
  BY <1>6, <1>7 DEF Summary
<1>9. \A i \in 1 .. n :
        /\ reports[i]["game"] \in UpdatePairs
            /\ PutAll(reports[i]["game"]) = MapOf(events[i], GeneralLabel)
        /\ reports[i]["team_a"] \in UpdatePairs
            /\ PutAll(reports[i]["team_a"]) = MapOf(events[i], TeamALabel)
        /\ reports[i]["team_b"] \in UpdatePairs
            /\ PutAll(reports[i]["team_b"]) = MapOf(events[i], TeamBLabel)
  BY <1>01 DEF ReadsAsEvent, ReportRecords
<1>10. /\ Merge(game_list) = LastValues(events, GeneralLabel)
       /\ Merge(a_list) = LastValues(events, TeamALabel)
       /\ Merge(b_list) = LastValues(events, TeamBLabel)
  BY <1>01, <1>3, <1>9, MergedField DEF n
<1>11. \A i \in 1 .. n :
         /\ reports[i].time \in Texts /\ reports[i].name \in Texts /\ reports[i].description \in Texts
         /\ reports[i].time = TextOf(events[i], <<"time">>)
         /\ reports[i].name = TextOf(events[i], <<"event name">>)
         /\ reports[i].description = TextOf(events[i], DescriptionLabel)
  BY <1>01 DEF ReadsAsEvent, ReportRecords
<1>12. all = told
  <2>1. \A i \in 1 .. n :
          <<reports[i].time, reports[i].name, reports[i].description>> = Told(events[i])
    BY <1>11 DEF Told
  <2>. QED BY <1>01, <2>1
<1>13. all \in Seq(Texts \X Texts \X Texts)
  <2>1. all \in [1 .. n -> Texts \X Texts \X Texts]
    BY <1>01, <1>11
  <2>. QED BY <1>01, <2>1
<1>14. /\ LastValues(events, GeneralLabel) \in PlainMaps
       /\ LastValues(events, TeamALabel) \in PlainMaps
       /\ LastValues(events, TeamBLabel) \in PlainMaps
  BY <1>3, LastValuesArePlain
<1>15. SummaryOf(game, events) =
         [team_a |-> a, team_b |-> b, general |-> LastValues(events, GeneralLabel),
          a_stats |-> LastValues(events, TeamALabel), b_stats |-> LastValues(events, TeamBLabel),
          reports |-> told]
  BY <1>4, <1>5 DEF SummaryOf
<1>. HIDE DEF game_list, a_list, b_list, all, told
<1>16. SummaryOf(game, events) = Summary(teams, reports)
  BY <1>8, <1>10, <1>12, <1>15
<1>17. SummaryOf(game, events) \in Summaries
  BY <1>12, <1>13, <1>14, <1>15 DEF Summaries
<1>. QED BY <1>2, <1>16, <1>17, ThrowsAssumption

-------------------------------------------------------------------------------
(* The invariant: where every text comes from. *)

(* Bodies that each tell of an event tell of a list of events. *)
LEMMA EventsOfBodies ==
  ASSUME NEW w, NEW game, NEW bodies, Len(bodies) \in Nat, DOMAIN bodies = 1 .. Len(bodies),
         \A i \in 1 .. Len(bodies) : \E event : BodyTells(bodies[i], w, game, event)
  PROVE  \E events : BodiesTell(bodies, w, game, events)
<1>. DEFINE n == Len(bodies)
            events == [i \in 1 .. n |-> CHOOSE event : BodyTells(bodies[i], w, game, event)]
<1>1. \A i \in 1 .. n : BodyTells(bodies[i], w, game, events[i])
  OBVIOUS
<1>2. events = [i \in 1 .. n |-> events[i]]
  OBVIOUS
<1>. HIDE DEF events
<1>3. \A i \in 1 .. n : events[i] \in PlainEvents
  BY <1>1 DEF BodyTells
<1>4. events \in Seq(PlainEvents) /\ Len(events) = n
  <2>1. events \in [1 .. n -> PlainEvents]
    BY <1>2, <1>3
  <2>. QED BY <2>1
<1>. QED BY <1>1, <1>4 DEF BodiesTell

(* summary throws only when somebody in the game does not report plainly. *)
LEMMA FinishedSummary ==
  ASSUME NEW v \in Users, NEW P, NEW key, NEW bodies \in Seq(Bodies(v, key, P)), bodies # <<>>,
         summaryProcess(key[1], bodies) = Throws
  PROVE  \E w \in Users : w \notin P /\ Joined[v] \cap Joined[w] # {}
<1>. DEFINE n == Len(bodies)
<1>1. n \in Nat /\ n > 0 /\ DOMAIN bodies = 1 .. n /\ \A i \in 1 .. n : bodies[i] \in Bodies(v, key, P)
  OBVIOUS
<1>. HIDE DEF n
<1>2. PICK w, game : w \in Users /\ game \in Joined[v] \cap Joined[w] /\ key = <<game, w>>
  BY <1>1 DEF Bodies
<1>3. \A i \in 1 .. n : Says(bodies[i], w, game, P)
  BY <1>1, <1>2 DEF Bodies
<1>4. ASSUME w \in P PROVE FALSE
  <2>1. \A i \in 1 .. n : \E event : BodyTells(bodies[i], w, game, event)
    BY <1>3, <1>4 DEF Says
  <2>2. PICK events : BodiesTell(bodies, w, game, events)
    BY <1>1, <2>1, EventsOfBodies DEF n
  <2>3. PlainGame(game)
    BY <1>1, <2>1 DEF BodyTells
  <2>4. key[1] = game
    BY <1>2
  <2>. QED BY <2>2, <2>3, <2>4, SummaryOfBodies
<1>. QED BY <1>2, <1>4

-------------------------------------------------------------------------------
(* The server's threads and the lists they work on. *)

OfUsers(f) == f = [u \in Users |-> f[u]]

Places == {"read", "send", "send_next", "send_to", "leave", "removeIf", "remove_next"}
Leaving == {"leave", "removeIf", "remove_next"}

ThreadFields == {"at", "game", "message", "next", "stale", "addressee", "leaving"}

IsThread(t) == DOMAIN t = ThreadFields /\ t = [field \in DOMAIN t |-> t[field]]

(* What a thread of user u is at work on *)
AtWork(u, t) ==
  /\ IsThread(t) /\ t.at \in Places /\ t.next \in Nat \ {0} /\ t.stale \in BOOLEAN
  /\ t.at \in Sending \cup {"removeIf", "remove_next"} => t.game \in Joined[u]
  /\ t.at \in Leaving => t.leaving \subseteq Joined[u]
  /\ t.at = "send_to" => t.addressee \in Users /\ t.game \in Joined[t.addressee]

(* An iterator that is not stale is within its list. *)
Iterates(t, lists) ==
  ~t.stale =>
    /\ t.at \in {"send_next", "remove_next"} => t.next <= Len(lists[t.game])
    /\ t.at = "send_to" => /\ t.next - 1 \in DOMAIN lists[t.game]
                           /\ lists[t.game][t.next - 1] = t.addressee

(* A removal that meets a report has been noted. *)
Noted(u, t, spoilt) == t.at \in Sending /\ t.stale => <<u, t.game>> \in spoilt

ThreadsKept ==
  /\ OfUsers(thread) /\ open \in [Users -> BOOLEAN]
  /\ \A u \in Users :
       /\ AtWork(u, thread[u]) /\ Iterates(thread[u], channelToConnectionIdsList)
       /\ Noted(u, thread[u], disturbed)
       /\ thread[u].at # "read" => open[u]

(* Nobody is on a list twice, or without having joined the game; *)
ListsKept ==
  /\ channelToConnectionIdsList \in [Games -> Seq(Users)]
  /\ \A game \in Games :
       /\ IsInjective(channelToConnectionIdsList[game])
       /\ \A v \in ToSet(channelToConnectionIdsList[game]) : game \in Joined[v]

(* and whoever joined it and has not been refused is on it. *)
StillListed ==
  \A v \in Users : open[v] /\ thread[v].at \notin Leaving =>
    \A game \in Joined[v] : v \in ToSet(channelToConnectionIdsList[game])

Serving == ThreadsKept /\ ListsKept /\ StillListed

LEMMA JoinedAreGames ==
  ASSUME NEW u \in Users
  PROVE  Joined[u] \subseteq Games
BY DEF Games

LEMMA ThreadAtStart ==
  ASSUME NEW at
  PROVE  /\ IsThread(Thread(at)) /\ Thread(at).at = at /\ Thread(at).next = 1
         /\ Thread(at).stale = FALSE
BY DEF Thread, IsThread, ThreadFields

(* A thread that reads on, or has come to its end, is at rest. *)
LEMMA ReadsOn ==
  ASSUME NEW u, NEW lists, NEW spoilt
  PROVE  LET t == Thread("read") IN
         AtWork(u, t) /\ Iterates(t, lists) /\ Noted(u, t, spoilt) /\ t.at = "read"
<1>. DEFINE t == Thread("read")
<1>1. IsThread(t) /\ t.at = "read" /\ t.next = 1 /\ t.stale = FALSE
  BY ThreadAtStart
<1>. HIDE DEF t
<1>2. 1 \in Nat \ {0} /\ FALSE \in BOOLEAN
  OBVIOUS
<1>3. AtWork(u, t)
  BY <1>1, <1>2 DEF AtWork, Sending, Leaving, Places
<1>4. Iterates(t, lists) /\ Noted(u, t, spoilt)
  BY <1>1 DEF Iterates, Noted, Sending
<1>. QED BY <1>1, <1>3, <1>4 DEF t

LEMMA InitServing == Init => Serving
<1>. SUFFICES ASSUME Init PROVE Serving
  OBVIOUS
<1>1. /\ thread = [u \in Users |-> Thread("read")] /\ open = [u \in Users |-> TRUE]
      /\ channelToConnectionIdsList = [game \in Games |-> JoinedInOrder[game]]
  BY DEF Init
<1>2. ASSUME NEW u \in Users
      PROVE  /\ AtWork(u, thread[u]) /\ Iterates(thread[u], channelToConnectionIdsList)
             /\ Noted(u, thread[u], disturbed) /\ thread[u].at = "read"
  <2>1. thread[u] = Thread("read")
    BY <1>1
  <2>. QED BY <2>1, ReadsOn
<1>3. ThreadsKept
  BY <1>1, <1>2 DEF ThreadsKept, OfUsers
<1>4. ListsKept
  BY <1>1, ListsAssumption DEF ListsKept
<1>5. StillListed
  BY <1>1, ListsAssumption, JoinedAreGames DEF StillListed
<1>. QED BY <1>3, <1>4, <1>5 DEF Serving

(* One thread goes on and no list changes. *)
LEMMA OneThreadMoves ==
  ASSUME Serving, NEW u \in Users, NEW t,
         AtWork(u, t), Iterates(t, channelToConnectionIdsList), Noted(u, t, disturbed),
         thread' = [thread EXCEPT ![u] = t], UNCHANGED <<channelToConnectionIdsList, disturbed>>,
         UNCHANGED open \/ open' = [open EXCEPT ![u] = FALSE],
         t.at # "read" => open'[u],
         t.at \in Leaving \/ thread[u].at \notin Leaving \/ ~open'[u]
  PROVE  Serving'
<1>1. OfUsers(thread) /\ open \in [Users -> BOOLEAN]
  BY DEF Serving, ThreadsKept
<1>2. thread'[u] = t /\ (\A w \in Users : w # u => thread'[w] = thread[w]) /\ OfUsers(thread')
  BY <1>1 DEF OfUsers
<1>3. /\ open' \in [Users -> BOOLEAN] /\ (\A w \in Users : open'[w] => open[w])
      /\ (\A w \in Users : w # u => open'[w] = open[w])
  BY <1>1
<1>4. ASSUME NEW w \in Users
      PROVE  /\ AtWork(w, thread'[w]) /\ Iterates(thread'[w], channelToConnectionIdsList)
             /\ Noted(w, thread'[w], disturbed) /\ (thread'[w].at # "read" => open'[w])
  <2>1. CASE w = u
    BY <1>2, <2>1
  <2>2. CASE w # u
    BY <1>2, <1>3, <2>2 DEF Serving, ThreadsKept
  <2>. QED BY <2>1, <2>2
<1>5. ThreadsKept'
  BY <1>2, <1>3, <1>4 DEF ThreadsKept
<1>6. ListsKept'
  BY DEF Serving, ListsKept
<1>7. ASSUME NEW v \in Users, open'[v], thread'[v].at \notin Leaving
      PROVE  open[v] /\ thread[v].at \notin Leaving
  BY <1>2, <1>3, <1>7
<1>8. StillListed'
  BY <1>7 DEF Serving, StillListed
<1>. QED BY <1>5, <1>6, <1>8 DEF Serving

LEMMA EndKeepsServing ==
  ASSUME Serving, NEW u \in Users, End(u), UNCHANGED <<channelToConnectionIdsList, disturbed>>
  PROVE  Serving'
<1>1. ~open'[u]
  BY DEF Serving, ThreadsKept, End
<1>. QED BY <1>1, OneThreadMoves, ReadsOn DEF End, Return

LEMMA ReturnKeepsServing ==
  ASSUME Serving, NEW u \in Users, Return(u), thread[u].at \notin Leaving,
         UNCHANGED <<open, channelToConnectionIdsList, disturbed>>
  PROVE  Serving'
BY OneThreadMoves, ReadsOn DEF Return

(* What a thread is when it has gone on, *)
Moved(t, at) == [t EXCEPT !.at = at]
Further(t) == [t EXCEPT !.at = "removeIf", !.next = t.next + 1]
SendingTo(t, d) == [t EXCEPT !.at = "send_to", !.next = t.next + 1, !.addressee = d]
HasSent(t) == [t EXCEPT !.at = "send", !.addressee = Nobody]

Goes(s, t, at, next) ==
  /\ IsThread(s) /\ s.at = at /\ s.next = next
  /\ s.game = t.game /\ s.message = t.message /\ s.stale = t.stale /\ s.leaving = t.leaving

LEMMA ThreadGoes ==
  ASSUME NEW t, IsThread(t)
  PROVE  /\ \A at : Goes(Moved(t, at), t, at, t.next)
         /\ Goes(Further(t), t, "removeIf", t.next + 1)
         /\ \A d : Goes(SendingTo(t, d), t, "send_to", t.next + 1) /\ SendingTo(t, d).addressee = d
         /\ Goes(HasSent(t), t, "send", t.next)
<1>1. ASSUME NEW at PROVE Goes(Moved(t, at), t, at, t.next)
  BY DEF Goes, Moved, IsThread, ThreadFields
<1>2. Goes(Further(t), t, "removeIf", t.next + 1)
  BY DEF Goes, Further, IsThread, ThreadFields
<1>3. ASSUME NEW d
      PROVE  Goes(SendingTo(t, d), t, "send_to", t.next + 1) /\ SendingTo(t, d).addressee = d
  BY DEF Goes, SendingTo, IsThread, ThreadFields
<1>4. Goes(HasSent(t), t, "send", t.next)
  BY DEF Goes, HasSent, IsThread, ThreadFields
<1>. QED BY <1>1, <1>2, <1>3, <1>4

(* and when it begins to send, to leave, or to leave one game *)
Sender(game, message) == [Thread("send") EXCEPT !.game = game, !.message = message]
Leaver(leaving) == [Thread("leave") EXCEPT !.leaving = leaving]
Remover(game, leaving) == [Thread("removeIf") EXCEPT !.game = game, !.leaving = leaving]

Begins(s, at) == IsThread(s) /\ s.at = at /\ s.next = 1 /\ s.stale = FALSE

LEMMA ThreadBegins ==
  ASSUME NEW game, NEW message, NEW leaving
  PROVE  /\ LET s == Sender(game, message) IN
              Begins(s, "send") /\ s.game = game /\ s.message = message
         /\ LET s == Leaver(leaving) IN Begins(s, "leave") /\ s.leaving = leaving
         /\ LET s == Remover(game, leaving) IN
              Begins(s, "removeIf") /\ s.game = game /\ s.leaving = leaving
<1>1. \A at : Begins(Thread(at), at)
  BY ThreadAtStart DEF Begins
<1>2. LET s == Sender(game, message) IN
      Begins(s, "send") /\ s.game = game /\ s.message = message
  <2>. DEFINE t == Thread("send")
  <2>1. Begins(t, "send")
    BY <1>1
  <2>. HIDE DEF t
  <2>2. Sender(game, message) = [t EXCEPT !.game = game, !.message = message]
    BY DEF Sender, t
  <2>. QED BY <2>1, <2>2 DEF Begins, IsThread, ThreadFields
<1>3. LET s == Leaver(leaving) IN Begins(s, "leave") /\ s.leaving = leaving
  <2>. DEFINE t == Thread("leave")
  <2>1. Begins(t, "leave")
    BY <1>1
  <2>. HIDE DEF t
  <2>2. Leaver(leaving) = [t EXCEPT !.leaving = leaving]
    BY DEF Leaver, t
  <2>. QED BY <2>1, <2>2 DEF Begins, IsThread, ThreadFields
<1>4. LET s == Remover(game, leaving) IN
      Begins(s, "removeIf") /\ s.game = game /\ s.leaving = leaving
  <2>. DEFINE t == Thread("removeIf")
  <2>1. Begins(t, "removeIf")
    BY <1>1
  <2>. HIDE DEF t
  <2>2. Remover(game, leaving) = [t EXCEPT !.game = game, !.leaving = leaving]
    BY DEF Remover, t
  <2>. QED BY <2>1, <2>2 DEF Begins, IsThread, ThreadFields
<1>. QED BY <1>2, <1>3, <1>4


(* The steps of the server's threads one by one, first what each does *)
LEMMA ForwardIs ==
  ASSUME NEW u \in Users, Forward(u),
         NEW f, f = extractFrame(Head(toServer[u])), NEW game, game = f.headers[<<"destination">>]
  PROVE  /\ open[u] /\ thread[u].at = "read" /\ toServer[u] # <<>>
         /\ toServer' = [toServer EXCEPT ![u] = Tail(toServer[u])]
         /\ UNCHANGED <<clientVars, channelToConnectionIdsList, disturbed>>
         /\ \/ f = Throws /\ End(u) /\ UNCHANGED toClient
            \/ /\ f # Throws /\ game \notin Joined[u] /\ UNCHANGED open
               /\ toClient' = [toClient EXCEPT ![u] = Append(toClient[u], encode(ErrorFrame))]
               /\ thread' = [thread EXCEPT ![u] = Leaver(Joined[u])]
            \/ /\ f # Throws /\ game \in Joined[u] /\ UNCHANGED <<open, toClient>>
               /\ thread' = [thread EXCEPT ![u] = Sender(game, encode(MessageFrame(game, f.body)))]
BY DEF Forward, At, Handle, sendProcess, Leaver, Sender

LEMMA SendLoopIs ==
  ASSUME NEW u \in Users, SendLoop(u)
  PROVE  LET t == thread[u] IN
         /\ t.at = "send"
         /\ UNCHANGED <<clientVars, toServer, toClient, open, channelToConnectionIdsList, disturbed>>
         /\ \/ /\ t.next <= Len(channelToConnectionIdsList[t.game])
               /\ thread' = [thread EXCEPT ![u] = Moved(t, "send_next")]
            \/ ~(t.next <= Len(channelToConnectionIdsList[t.game])) /\ Return(u)
BY DEF SendLoop, At, HasNext, IdsList, Goto, Moved

LEMMA NextAddresseeIs ==
  ASSUME NEW u \in Users, NextAddressee(u)
  PROVE  LET t == thread[u]
             d == channelToConnectionIdsList[t.game][t.next]
         IN  /\ t.at = "send_next"
             /\ UNCHANGED <<clientVars, toServer, toClient, channelToConnectionIdsList, disturbed>>
             /\ \/ t.stale /\ End(u)
                \/ /\ ~t.stale /\ UNCHANGED open
                   /\ thread' = [thread EXCEPT ![u] = SendingTo(t, d)]
BY DEF NextAddressee, At, Interrupted, IdsList, SendingTo

LEMMA SendToIs ==
  ASSUME NEW u \in Users, SendTo(u)
  PROVE  LET t == thread[u]
             v == t.addressee
         IN  /\ t.at = "send_to" /\ thread' = [thread EXCEPT ![u] = HasSent(t)]
             /\ toClient' = [toClient EXCEPT ![v] =
                               IF open[v] THEN Append(toClient[v], t.message) ELSE toClient[v]]
             /\ UNCHANGED <<clientVars, toServer, open, channelToConnectionIdsList, disturbed>>
BY DEF SendTo, At, HasSent

LEMMA LeaveGameIs ==
  ASSUME NEW u \in Users, LeaveGame(u)
  PROVE  LET t == thread[u] IN
         /\ t.at = "leave"
         /\ UNCHANGED <<clientVars, toServer, toClient, channelToConnectionIdsList, disturbed>>
         /\ \/ End(u)
            \/ \E game \in t.leaving :
                 thread' = [thread EXCEPT ![u] = Remover(game, t.leaving \ {game})] /\ UNCHANGED open
BY DEF LeaveGame, At, Remover

LEMMA RemoveLoopIs ==
  ASSUME NEW u \in Users, RemoveLoop(u)
  PROVE  LET t == thread[u] IN
         /\ t.at = "removeIf"
         /\ UNCHANGED <<clientVars, toServer, toClient, open, channelToConnectionIdsList, disturbed>>
         /\ \/ /\ t.next <= Len(channelToConnectionIdsList[t.game])
               /\ thread' = [thread EXCEPT ![u] = Moved(t, "remove_next")]
            \/ thread' = [thread EXCEPT ![u] = Leaver(t.leaving)]
BY DEF RemoveLoop, At, HasNext, IdsList, Goto, Moved, Leaver

LEMMA RemoveNextIs ==
  ASSUME NEW u \in Users, RemoveNext(u)
  PROVE  LET t == thread[u]
             list == channelToConnectionIdsList[t.game]
         IN  /\ t.at = "remove_next" /\ UNCHANGED <<clientVars, toServer, toClient>>
             /\ \/ t.stale /\ End(u) /\ UNCHANGED <<channelToConnectionIdsList, disturbed>>
                \/ ~t.stale /\ list[t.next] = u /\ RemoveOwn(u, t.game)
                \/ /\ ~t.stale /\ list[t.next] # u
                   /\ thread' = [thread EXCEPT ![u] = Further(t)]
                   /\ UNCHANGED <<open, channelToConnectionIdsList, disturbed>>
BY DEF RemoveNext, At, Interrupted, IdsList, Further

(* and that each keeps the invariant. *)
LEMMA ForwardKeepsServing ==
  ASSUME Serving, NEW u \in Users, Forward(u)
  PROVE  Serving'
<1>1. PICK f : f = extractFrame(Head(toServer[u]))
  OBVIOUS
<1>2. PICK game : game = f.headers[<<"destination">>]
  OBVIOUS
<1>. DEFINE s == Sender(game, encode(MessageFrame(game, f.body)))
            l == Leaver(Joined[u])
<1>3. /\ open[u] /\ thread[u].at = "read" /\ UNCHANGED <<channelToConnectionIdsList, disturbed>>
      /\ \/ End(u)
         \/ UNCHANGED open /\ thread' = [thread EXCEPT ![u] = l]
         \/ game \in Joined[u] /\ UNCHANGED open /\ thread' = [thread EXCEPT ![u] = s]
  BY <1>1, <1>2, ForwardIs
<1>4. CASE End(u)
  BY <1>3, <1>4, EndKeepsServing
<1>5. /\ Begins(s, "send") /\ s.game = game
      /\ Begins(l, "leave") /\ l.leaving = Joined[u]
  BY ThreadBegins
<1>. HIDE DEF s, l
<1>6. 1 \in Nat \ {0} /\ FALSE \in BOOLEAN
  OBVIOUS
<1>7. AtWork(u, l) /\ (game \in Joined[u] => AtWork(u, s))
  BY <1>5, <1>6 DEF Begins, AtWork, Sending, Leaving, Places
<1>8. /\ Iterates(l, channelToConnectionIdsList) /\ Noted(u, l, disturbed)
      /\ Iterates(s, channelToConnectionIdsList) /\ Noted(u, s, disturbed)
  BY <1>5 DEF Begins, Iterates, Noted, Sending
<1>9. thread[u].at \notin Leaving
  BY <1>3 DEF Leaving
<1>. QED BY <1>3, <1>4, <1>7, <1>8, <1>9, OneThreadMoves

LEMMA SendLoopKeepsServing ==
  ASSUME Serving, NEW u \in Users, SendLoop(u)
  PROVE  Serving'
<1>. DEFINE t == thread[u]
            s == Moved(t, "send_next")
<1>1. /\ t.at = "send" /\ UNCHANGED <<open, channelToConnectionIdsList, disturbed>>
      /\ \/ /\ t.next <= Len(channelToConnectionIdsList[t.game])
            /\ thread' = [thread EXCEPT ![u] = s]
         \/ Return(u)
  BY SendLoopIs
<1>2. AtWork(u, t) /\ Noted(u, t, disturbed) /\ open[u]
  BY <1>1 DEF Serving, ThreadsKept
<1>3. Goes(s, t, "send_next", t.next)
  BY <1>2, ThreadGoes DEF AtWork
<1>. HIDE DEF s
<1>4. t.at \notin Leaving
  BY <1>1 DEF Leaving
<1>5. CASE Return(u)
  BY <1>1, <1>4, <1>5, ReturnKeepsServing
<1>6. CASE ~Return(u)
  <2>. HIDE DEF t
  <2>1. AtWork(u, s) /\ Noted(u, s, disturbed)
    BY <1>1, <1>2, <1>3 DEF Goes, AtWork, Noted, Sending, Leaving, Places
  <2>2. Iterates(s, channelToConnectionIdsList)
    BY <1>1, <1>3, <1>6 DEF Goes, Iterates
  <2>. QED BY <1>1, <1>2, <1>4, <1>6, <2>1, <2>2, OneThreadMoves DEF t
<1>. QED BY <1>5, <1>6

(* What next() returns when it does not fail *)
LEMMA NextIsListed ==
  ASSUME Serving, NEW u \in Users, thread[u].at \in {"send_next", "remove_next"}, ~thread[u].stale
  PROVE  LET t == thread[u]
             list == channelToConnectionIdsList[t.game]
         IN  /\ t.game \in Games /\ t.next \in DOMAIN list /\ list[t.next] \in Users
             /\ t.game \in Joined[list[t.next]]
<1>. DEFINE t == thread[u]
            list == channelToConnectionIdsList[t.game]
<1>1. AtWork(u, t) /\ Iterates(t, channelToConnectionIdsList)
  BY DEF Serving, ThreadsKept
<1>2. t.game \in Games /\ t.next \in Nat \ {0} /\ t.next <= Len(list)
  BY <1>1, JoinedAreGames DEF AtWork, Iterates, Sending
<1>3. list \in Seq(Users) /\ \A v \in ToSet(list) : t.game \in Joined[v]
  BY <1>2 DEF Serving, ListsKept
<1>. HIDE DEF t, list
<1>4. t.next \in DOMAIN list /\ list[t.next] \in Users /\ list[t.next] \in ToSet(list)
  BY <1>2, <1>3 DEF ToSet
<1>. QED BY <1>2, <1>3, <1>4 DEF t, list

LEMMA NextAddresseeKeepsServing ==
  ASSUME Serving, NEW u \in Users, NextAddressee(u)
  PROVE  Serving'
<1>. DEFINE t == thread[u]
            d == channelToConnectionIdsList[t.game][t.next]
            s == SendingTo(t, d)
<1>1. /\ t.at = "send_next" /\ UNCHANGED <<channelToConnectionIdsList, disturbed>>
      /\ \/ End(u)
         \/ ~t.stale /\ UNCHANGED open /\ thread' = [thread EXCEPT ![u] = s]
  BY NextAddresseeIs
<1>2. CASE End(u)
  BY <1>1, <1>2, EndKeepsServing
<1>3. CASE ~End(u)
  <2>1. AtWork(u, t) /\ open[u]
    BY <1>1 DEF Serving, ThreadsKept
  <2>2. Goes(s, t, "send_to", t.next + 1) /\ s.addressee = d
    BY <2>1, ThreadGoes DEF AtWork
  <2>3. t.next \in DOMAIN channelToConnectionIdsList[t.game] /\ d \in Users /\ t.game \in Joined[d]
    BY <1>1, <1>3, NextIsListed
  <2>31. channelToConnectionIdsList[t.game][t.next] = d
    OBVIOUS
  <2>. HIDE DEF s, d, t
  <2>4. t.next \in Nat /\ t.next + 1 \in Nat \ {0}
    BY <2>1 DEF AtWork
  <2>5. AtWork(u, s)
    BY <1>1, <1>3, <2>1, <2>2, <2>3, <2>4 DEF Goes, AtWork, Sending, Leaving, Places
  <2>61. s.next - 1 = t.next
    BY <2>2, <2>4 DEF Goes
  <2>6. s.next - 1 = t.next /\ s.game = t.game /\ s.at = "send_to" /\ ~s.stale
    BY <1>1, <1>3, <2>2, <2>61 DEF Goes
  <2>7. Iterates(s, channelToConnectionIdsList)
    BY <2>2, <2>3, <2>31, <2>6 DEF Iterates
  <2>8. Noted(u, s, disturbed)
    BY <2>6 DEF Noted
  <2>. QED BY <1>1, <1>3, <2>1, <2>5, <2>7, <2>8, OneThreadMoves DEF t, Leaving
<1>. QED BY <1>2, <1>3

LEMMA SendToKeepsServing ==
  ASSUME Serving, NEW u \in Users, SendTo(u)
  PROVE  Serving'
<1>. DEFINE t == thread[u]
            s == HasSent(t)
<1>1. /\ t.at = "send_to" /\ thread' = [thread EXCEPT ![u] = s]
      /\ UNCHANGED <<open, channelToConnectionIdsList, disturbed>>
  BY SendToIs
<1>2. AtWork(u, t) /\ Noted(u, t, disturbed) /\ open[u]
  BY <1>1 DEF Serving, ThreadsKept
<1>3. Goes(s, t, "send", t.next)
  BY <1>2, ThreadGoes DEF AtWork
<1>. HIDE DEF s, t
<1>4. AtWork(u, s) /\ Noted(u, s, disturbed)
  BY <1>1, <1>2, <1>3 DEF Goes, AtWork, Noted, Sending, Leaving, Places
<1>5. Iterates(s, channelToConnectionIdsList) /\ t.at \notin Leaving
  BY <1>1, <1>3 DEF Goes, Iterates, Leaving
<1>. QED BY <1>1, <1>2, <1>4, <1>5, OneThreadMoves DEF t

LEMMA LeaveGameKeepsServing ==
  ASSUME Serving, NEW u \in Users, LeaveGame(u)
  PROVE  Serving'
<1>. DEFINE t == thread[u]
<1>1. /\ t.at = "leave" /\ UNCHANGED <<channelToConnectionIdsList, disturbed>>
      /\ \/ End(u)
         \/ \E game \in t.leaving :
              thread' = [thread EXCEPT ![u] = Remover(game, t.leaving \ {game})] /\ UNCHANGED open
  BY LeaveGameIs
<1>2. t.leaving \subseteq Joined[u] /\ open[u]
  BY <1>1 DEF Serving, ThreadsKept, AtWork, Leaving
<1>3. CASE End(u)
  BY <1>1, <1>3, EndKeepsServing
<1>4. ASSUME NEW game \in t.leaving, UNCHANGED open,
             thread' = [thread EXCEPT ![u] = Remover(game, t.leaving \ {game})]
      PROVE  Serving'
  <2>. DEFINE s == Remover(game, t.leaving \ {game})
  <2>1. Begins(s, "removeIf") /\ s.game = game /\ s.leaving = t.leaving \ {game}
    BY ThreadBegins
  <2>. HIDE DEF s
  <2>2. /\ game \in Joined[u] /\ t.leaving \ {game} \subseteq Joined[u]
        /\ 1 \in Nat \ {0} /\ FALSE \in BOOLEAN
    BY <1>2, <1>4
  <2>3. AtWork(u, s) /\ s.at \in Leaving
    BY <2>1, <2>2 DEF Begins, AtWork, Sending, Leaving, Places
  <2>4. Iterates(s, channelToConnectionIdsList) /\ Noted(u, s, disturbed)
    BY <2>1 DEF Begins, Iterates, Noted, Sending
  <2>5. thread' = [thread EXCEPT ![u] = s]
    BY <1>4 DEF s
  <2>. QED BY <1>1, <1>2, <1>4, <2>3, <2>4, <2>5, OneThreadMoves
<1>. QED BY <1>1, <1>3, <1>4

LEMMA RemoveLoopKeepsServing ==
  ASSUME Serving, NEW u \in Users, RemoveLoop(u)
  PROVE  Serving'
<1>. DEFINE t == thread[u]
            s == Moved(t, "remove_next")
            l == Leaver(t.leaving)
<1>1. /\ t.at = "removeIf" /\ UNCHANGED <<open, channelToConnectionIdsList, disturbed>>
      /\ \/ /\ t.next <= Len(channelToConnectionIdsList[t.game])
            /\ thread' = [thread EXCEPT ![u] = s]
         \/ thread' = [thread EXCEPT ![u] = l]
  BY RemoveLoopIs
<1>2. AtWork(u, t) /\ open[u]
  BY <1>1 DEF Serving, ThreadsKept
<1>3. Goes(s, t, "remove_next", t.next) /\ Begins(l, "leave") /\ l.leaving = t.leaving
  BY <1>2, ThreadGoes, ThreadBegins DEF AtWork
<1>. HIDE DEF s, l, t
<1>4. 1 \in Nat \ {0} /\ FALSE \in BOOLEAN
  OBVIOUS
<1>5. AtWork(u, s) /\ AtWork(u, l)
  BY <1>1, <1>2, <1>3, <1>4 DEF Goes, Begins, AtWork, Sending, Leaving, Places
<1>6. /\ Noted(u, s, disturbed) /\ Noted(u, l, disturbed)
      /\ Iterates(l, channelToConnectionIdsList) /\ s.at \in Leaving /\ l.at \in Leaving
      /\ t.next <= Len(channelToConnectionIdsList[t.game]) =>
           Iterates(s, channelToConnectionIdsList)
  BY <1>1, <1>3 DEF Goes, Begins, Noted, Iterates, Sending, Leaving
<1>. QED BY <1>1, <1>2, <1>5, <1>6, OneThreadMoves


LEMMA RemoveAtElements ==
  ASSUME NEW S, NEW s \in Seq(S), NEW n \in DOMAIN s
  PROVE  LET t == RemoveAt(s, n) IN
         /\ t \in Seq(S)
         /\ Len(t) = Len(s) - 1
         /\ \A k \in 1 .. (n - 1) : t[k] = s[k]
         /\ \A k \in n .. Len(t) : t[k] = s[k + 1]
<1>. DEFINE a == SubSeq(s, 1, n - 1)
           b == SubSeq(s, n + 1, Len(s))
<1>1. n \in 1 .. Len(s) /\ Len(s) \in Nat
  OBVIOUS
<1>2. /\ a \in Seq(S) /\ Len(a) = n - 1
      /\ \A k \in 1 .. (n - 1) : a[k] = s[k]
  BY <1>1, SubSeqProperties
<1>3. /\ b \in Seq(S) /\ Len(b) = Len(s) - n
      /\ \A k \in 1 .. (Len(s) - n) : b[k] = s[n + k]
  BY <1>1, SubSeqProperties
<1>. HIDE DEF a, b
<1>4. /\ a \o b \in Seq(S)
      /\ Len(a \o b) = Len(s) - 1
      /\ \A k \in 1 .. (Len(s) - 1) : (a \o b)[k] = IF k < n THEN a[k] ELSE b[k - (n - 1)]
  <2>1. /\ a \o b \in Seq(S) /\ Len(a \o b) = Len(a) + Len(b)
        /\ \A k \in 1 .. (Len(a) + Len(b)) : (a \o b)[k] = IF k <= Len(a) THEN a[k] ELSE b[k - Len(a)]
    BY <1>2, <1>3, ConcatProperties
  <2>2. Len(a) + Len(b) = Len(s) - 1
    BY <1>1, <1>2, <1>3
  <2>3. \A k \in 1 .. (Len(s) - 1) : k <= n - 1 <=> k < n
    BY <1>1
  <2>. QED BY <1>2, <2>1, <2>2, <2>3
<1>5. \A k \in n .. (Len(s) - 1) : b[k - (n - 1)] = s[k + 1]
  <2>. TAKE k \in n .. (Len(s) - 1)
  <2>1. k - (n - 1) \in 1 .. (Len(s) - n) /\ n + (k - (n - 1)) = k + 1
    BY <1>1
  <2>. QED BY <2>1, <1>3
<1>6. RemoveAt(s, n) = a \o b
  BY DEF RemoveAt, a, b
<1>7. \A k \in 1 .. (n - 1) : (a \o b)[k] = s[k]
  BY <1>1, <1>2, <1>4
<1>8. \A k \in n .. (Len(s) - 1) : (a \o b)[k] = s[k + 1]
  BY <1>1, <1>4, <1>5
<1>. QED BY <1>4, <1>6, <1>7, <1>8


(* Where the list has nobody twice, it has all the others still. *)
LEMMA WithoutOne ==
  ASSUME NEW list \in Seq(Users), IsInjective(list), NEW n \in DOMAIN list,
         NEW rest, rest = RemoveAt(list, n)
  PROVE  /\ rest \in Seq(Users) /\ IsInjective(rest)
         /\ ToSet(rest) = ToSet(list) \ {list[n]}
<1>1. /\ rest \in Seq(Users) /\ Len(rest) = Len(list) - 1
      /\ \A k \in 1 .. (n - 1) : rest[k] = list[k]
      /\ \A k \in n .. Len(rest) : rest[k] = list[k + 1]
  BY RemoveAtElements
<1>2. /\ Len(list) \in Nat /\ DOMAIN list = 1 .. Len(list) /\ n \in 1 .. Len(list)
      /\ DOMAIN rest = 1 .. (Len(list) - 1)
  BY <1>1
<1>. DEFINE place(k) == IF k < n THEN k ELSE k + 1
<1>3. \A k \in 1 .. (Len(list) - 1) :
        /\ place(k) \in 1 .. Len(list) /\ place(k) # n /\ rest[k] = list[place(k)]
  <2>. TAKE k \in 1 .. (Len(list) - 1)
  <2>1. CASE k < n
    <3>1. k \in 1 .. (n - 1)
      BY <1>2, <2>1
    <3>. QED BY <1>1, <1>2, <2>1, <3>1
  <2>2. CASE ~(k < n)
    <3>1. k \in n .. Len(rest)
      BY <1>1, <1>2, <2>2
    <3>. QED BY <1>1, <1>2, <2>2, <3>1
  <2>. QED BY <2>1, <2>2
<1>4. \A i, k \in 1 .. (Len(list) - 1) : place(i) = place(k) => i = k
  BY <1>2
<1>5. \A i \in 1 .. Len(list) : i # n => \E k \in 1 .. (Len(list) - 1) : place(k) = i
  <2>. TAKE i \in 1 .. Len(list)
  <2>. HAVE i # n
  <2>1. CASE i < n
    <3>1. i \in 1 .. (Len(list) - 1) /\ place(i) = i
      BY <1>2, <2>1
    <3>. QED BY <3>1
  <2>2. CASE ~(i < n)
    <3>1. i - 1 \in 1 .. (Len(list) - 1) /\ place(i - 1) = i
      BY <1>2, <2>2
    <3>. QED BY <3>1
  <2>. QED BY <2>1, <2>2
<1>. HIDE DEF place
<1>6. \A i, k \in 1 .. Len(list) : list[i] = list[k] => i = k
  BY <1>2 DEF IsInjective
<1>7. IsInjective(rest)
  BY <1>2, <1>3, <1>4, <1>6 DEF IsInjective
<1>8. ASSUME NEW x PROVE x \in ToSet(rest) <=> x \in ToSet(list) /\ x # list[n]
  <2>1. ASSUME x \in ToSet(rest) PROVE x \in ToSet(list) /\ x # list[n]
    <3>1. PICK k \in 1 .. (Len(list) - 1) : x = rest[k]
      BY <1>2, <2>1 DEF ToSet
    <3>. QED BY <1>2, <1>3, <1>6, <3>1 DEF ToSet
  <2>2. ASSUME x \in ToSet(list), x # list[n] PROVE x \in ToSet(rest)
    <3>1. PICK i \in 1 .. Len(list) : x = list[i]
      BY <1>2, <2>2 DEF ToSet
    <3>2. PICK k \in 1 .. (Len(list) - 1) : place(k) = i
      BY <1>5, <2>2, <3>1
    <3>3. x = rest[k]
      BY <1>3, <3>1, <3>2
    <3>. QED BY <1>2, <3>3 DEF ToSet
  <2>. QED BY <2>1, <2>2
<1>. QED BY <1>1, <1>7, <1>8

(* What RemoveOwn leaves of the threads *)
LEMMA RemoveOwnIs ==
  ASSUME Serving, NEW u \in Users, NEW game, RemoveOwn(u, game)
  PROVE  /\ OfUsers(thread')
         /\ Goes(thread'[u], thread[u], "removeIf", thread[u].next)
         /\ \A w \in Users : w # u =>
              /\ IsThread(thread'[w]) /\ thread'[w].at = thread[w].at
              /\ thread'[w].game = thread[w].game /\ thread'[w].message = thread[w].message
              /\ thread'[w].next = thread[w].next /\ thread'[w].addressee = thread[w].addressee
              /\ thread'[w].leaving = thread[w].leaving
              /\ thread'[w].stale = (thread[w].stale \/ thread[w].game = game)
<1>1. thread' = [w \in Users |->
        IF w = u THEN [thread[w] EXCEPT !.at = "removeIf"]
        ELSE [thread[w] EXCEPT !.stale = thread[w].stale \/ thread[w].game = game]]
  BY DEF RemoveOwn
<1>2. \A w \in Users : IsThread(thread[w])
  BY DEF Serving, ThreadsKept, AtWork
<1>3. OfUsers(thread')
  BY <1>1 DEF OfUsers
<1>4. Goes(thread'[u], thread[u], "removeIf", thread[u].next)
  <2>1. thread'[u] = Moved(thread[u], "removeIf")
    BY <1>1 DEF Moved
  <2>. QED BY <1>2, <2>1, ThreadGoes
<1>5. ASSUME NEW w \in Users, w # u
      PROVE  LET s == thread'[w]
                 t == thread[w]
             IN  /\ IsThread(s) /\ s.at = t.at /\ s.game = t.game /\ s.message = t.message
                 /\ s.next = t.next /\ s.addressee = t.addressee /\ s.leaving = t.leaving
                 /\ s.stale = (t.stale \/ t.game = game)
  <2>. DEFINE t == thread[w]
              stale == t.stale \/ t.game = game
  <2>1. thread'[w] = [t EXCEPT !.stale = stale]
    BY <1>1, <1>5
  <2>2. IsThread(t)
    BY <1>2
  <2>. HIDE DEF t, stale
  <2>3. LET s == [t EXCEPT !.stale = stale] IN
        /\ IsThread(s) /\ s.at = t.at /\ s.game = t.game /\ s.message = t.message
        /\ s.next = t.next /\ s.addressee = t.addressee /\ s.leaving = t.leaving
        /\ s.stale = stale
    BY <2>2 DEF IsThread, ThreadFields
  <2>. QED BY <2>1, <2>3 DEF t, stale
<1>. QED BY <1>3, <1>4, <1>5

LEMMA RemoveOwnKeepsServing ==
  ASSUME Serving, NEW u \in Users, thread[u].at = "remove_next", ~thread[u].stale,
         NEW game, game = thread[u].game,
         channelToConnectionIdsList[game][thread[u].next] = u, RemoveOwn(u, game)
  PROVE  Serving'
<1>. DEFINE t == thread[u]
            list == channelToConnectionIdsList[game]
            rest == RemoveAt(list, t.next)
<1>1. game \in Games /\ t.next \in DOMAIN list
  BY NextIsListed
<1>2. /\ channelToConnectionIdsList' = [channelToConnectionIdsList EXCEPT ![game] = rest]
      /\ disturbed' = disturbed \cup {<<w, game>> : w \in SendersOn(game)} /\ UNCHANGED open
  BY DEF RemoveOwn
<1>3. channelToConnectionIdsList \in [Games -> Seq(Users)] /\ list \in Seq(Users) /\ IsInjective(list)
  BY <1>1 DEF Serving, ListsKept
<1>4. /\ rest \in Seq(Users) /\ IsInjective(rest) /\ ToSet(rest) = ToSet(list) \ {u}
  <2>1. list[t.next] = u
    OBVIOUS
  <2>. HIDE DEF list, t
  <2>. QED BY <1>1, <1>3, <2>1, WithoutOne
<1>. HIDE DEF rest
<1>5. /\ channelToConnectionIdsList'[game] = rest
      /\ \A g \in Games : g # game => channelToConnectionIdsList'[g] = channelToConnectionIdsList[g]
  BY <1>1, <1>2, <1>3
<1>6. ListsKept'
  <2>1. channelToConnectionIdsList' \in [Games -> Seq(Users)]
    BY <1>1, <1>2, <1>3, <1>4
  <2>2. ASSUME NEW g \in Games
        PROVE  /\ IsInjective(channelToConnectionIdsList'[g])
               /\ \A v \in ToSet(channelToConnectionIdsList'[g]) : g \in Joined[v]
    <3>1. CASE g = game
      BY <1>1, <1>4, <1>5, <3>1 DEF Serving, ListsKept
    <3>2. CASE g # game
      BY <1>5, <3>2 DEF Serving, ListsKept
    <3>. QED BY <3>1, <3>2
  <2>. QED BY <2>1, <2>2 DEF ListsKept
<1>7. AtWork(u, t) /\ open[u] /\ t.at \in Leaving
  BY DEF Serving, ThreadsKept, Leaving
<1>8. /\ OfUsers(thread') /\ Goes(thread'[u], t, "removeIf", t.next)
      /\ \A w \in Users : w # u =>
           /\ IsThread(thread'[w]) /\ thread'[w].at = thread[w].at
           /\ thread'[w].game = thread[w].game /\ thread'[w].next = thread[w].next
           /\ thread'[w].addressee = thread[w].addressee
           /\ thread'[w].leaving = thread[w].leaving
           /\ thread'[w].stale = (thread[w].stale \/ thread[w].game = game)
  BY RemoveOwnIs
<1>9. ASSUME NEW w \in Users
      PROVE  /\ AtWork(w, thread'[w]) /\ Iterates(thread'[w], channelToConnectionIdsList')
             /\ Noted(w, thread'[w], disturbed') /\ (thread'[w].at # "read" => open'[w])
  <2>1. CASE w = u
    <3>. DEFINE s == thread'[u]
    <3>1. Goes(s, t, "removeIf", t.next) /\ t.at = "remove_next"
      BY <1>8
    <3>. HIDE DEF s, t
    <3>2. AtWork(u, s)
      BY <1>7, <3>1 DEF Goes, AtWork, Sending, Leaving, Places
    <3>3. Iterates(s, channelToConnectionIdsList') /\ Noted(u, s, disturbed')
      BY <3>1 DEF Goes, Iterates, Noted, Sending
    <3>. QED BY <1>2, <1>7, <2>1, <3>2, <3>3 DEF s
  <2>2. CASE w # u
    <3>. DEFINE s == thread'[w]
                r == thread[w]
    <3>1. /\ IsThread(s) /\ s.at = r.at /\ s.game = r.game /\ s.next = r.next
          /\ s.addressee = r.addressee /\ s.leaving = r.leaving
          /\ s.stale = (r.stale \/ r.game = game)
      BY <1>8, <2>2
    <3>2. /\ AtWork(w, r) /\ Iterates(r, channelToConnectionIdsList) /\ Noted(w, r, disturbed)
          /\ (r.at # "read" => open[w])
      BY DEF Serving, ThreadsKept
    <3>3. r.at \in Sending /\ r.game = game => <<w, game>> \in disturbed'
      BY <1>2 DEF SendersOn
    <3>. HIDE DEF s, r
    <3>4. AtWork(w, s)
      BY <3>1, <3>2 DEF AtWork
    <3>5. Noted(w, s, disturbed')
      BY <1>2, <3>1, <3>2, <3>3 DEF Noted
    <3>6. Iterates(s, channelToConnectionIdsList')
      <4>. SUFFICES ASSUME ~s.stale, s.at \in {"send_next", "remove_next", "send_to"}
                    PROVE  Iterates(s, channelToConnectionIdsList')
        BY DEF Iterates
      <4>1. ~r.stale /\ r.game # game
        BY <3>1, <3>2 DEF AtWork
      <4>2. r.game \in Games
        BY <3>1, <3>2, JoinedAreGames DEF AtWork, Sending
      <4>3. channelToConnectionIdsList'[r.game] = channelToConnectionIdsList[r.game]
        BY <1>5, <4>1, <4>2
      <4>. QED BY <3>1, <3>2, <4>1, <4>3 DEF Iterates
    <3>. QED BY <1>2, <2>2, <3>1, <3>2, <3>4, <3>5, <3>6 DEF s
  <2>. QED BY <2>1, <2>2
<1>10. ThreadsKept'
  BY <1>2, <1>8, <1>9 DEF ThreadsKept, Serving
<1>11. StillListed'
  <2>. SUFFICES ASSUME NEW v \in Users, open[v], thread'[v].at \notin Leaving, NEW g \in Joined[v]
                PROVE  v \in ToSet(channelToConnectionIdsList'[g])
    BY <1>2 DEF StillListed
  <2>1. v # u
    BY <1>8 DEF Goes, Leaving
  <2>2. thread[v].at \notin Leaving
    BY <1>8, <2>1
  <2>3. v \in ToSet(channelToConnectionIdsList[g]) /\ g \in Games
    BY <2>2, JoinedAreGames DEF Serving, StillListed
  <2>. QED BY <1>4, <1>5, <2>1, <2>3
<1>. QED BY <1>6, <1>10, <1>11 DEF Serving

LEMMA RemoveNextKeepsServing ==
  ASSUME Serving, NEW u \in Users, RemoveNext(u)
  PROVE  Serving'
<1>. DEFINE t == thread[u]
            s == Further(t)
            list == channelToConnectionIdsList[t.game]
<1>1. /\ t.at = "remove_next"
      /\ \/ End(u) /\ UNCHANGED <<channelToConnectionIdsList, disturbed>>
         \/ ~t.stale /\ list[t.next] = u /\ RemoveOwn(u, t.game)
         \/ /\ thread' = [thread EXCEPT ![u] = s]
            /\ UNCHANGED <<open, channelToConnectionIdsList, disturbed>>
  BY RemoveNextIs
<1>2. CASE End(u) /\ UNCHANGED <<channelToConnectionIdsList, disturbed>>
  BY <1>2, EndKeepsServing
<1>3. CASE ~t.stale /\ list[t.next] = u /\ RemoveOwn(u, t.game)
  BY <1>1, <1>3, RemoveOwnKeepsServing
<1>4. CASE /\ thread' = [thread EXCEPT ![u] = s]
           /\ UNCHANGED <<open, channelToConnectionIdsList, disturbed>>
  <2>1. AtWork(u, t) /\ open[u]
    BY <1>1 DEF Serving, ThreadsKept
  <2>2. Goes(s, t, "removeIf", t.next + 1)
    BY <2>1, ThreadGoes DEF AtWork
  <2>. HIDE DEF s, t
  <2>3. t.next + 1 \in Nat \ {0}
    BY <2>1 DEF AtWork
  <2>4. AtWork(u, s) /\ s.at \in Leaving
    BY <1>1, <2>1, <2>2, <2>3 DEF Goes, AtWork, Sending, Leaving, Places
  <2>5. Iterates(s, channelToConnectionIdsList) /\ Noted(u, s, disturbed)
    BY <2>2 DEF Goes, Iterates, Noted, Sending
  <2>. QED BY <1>4, <2>1, <2>4, <2>5, OneThreadMoves
<1>. QED BY <1>1, <1>2, <1>3, <1>4

(* The client's steps leave the server alone. *)
LEMMA ServerStays ==
  ASSUME Serving, UNCHANGED serverVars
  PROVE  Serving'
BY DEF serverVars, Serving, ThreadsKept, ListsKept, StillListed, OfUsers, AtWork, Iterates, Noted

LEMMA NextKeepsServing ==
  ASSUME Serving, [Next]_vars
  PROVE  Serving'
<1>1. ASSUME NEW u \in Users, Forward(u)
      PROVE  Serving'
  BY <1>1, ForwardKeepsServing
<1>2. ASSUME NEW u \in Users, SendLoop(u) \/ NextAddressee(u) \/ SendTo(u)
      PROVE  Serving'
  BY <1>2, SendLoopKeepsServing, NextAddresseeKeepsServing, SendToKeepsServing
<1>3. ASSUME NEW u \in Users, LeaveGame(u) \/ RemoveLoop(u) \/ RemoveNext(u)
      PROVE  Serving'
  BY <1>3, LeaveGameKeepsServing, RemoveLoopKeepsServing, RemoveNextKeepsServing
<1>4. ASSUME NEW u \in Users,
             \/ \E file \in DOMAIN Files : Report(u, file)
             \/ \E key \in DOMAIN gameNameUserNameToFramesList[u] : StartSummary(u, key)
             \/ SendNext(u) \/ FinishSummary(u) \/ Listen(u)
      PROVE  Serving'
  BY <1>4, ServerStays DEF Report, StartSummary, SendNext, FinishSummary, Listen
<1>5. CASE UNCHANGED vars
  BY <1>5, ServerStays DEF vars
<1>. QED BY <1>1, <1>2, <1>3, <1>4, <1>5 DEF Next

(* The server's lists and threads, for any number of users and games: an iterator that is
   not stale is within its list, a list has nobody twice, and whoever has joined a game and
   is neither refused nor gone is on its list. *)
THEOREM ServingAlways == Spec => []Serving
BY InitServing, NextKeepsServing, PTL DEF Spec

-----------------------------------------------------------------------------
(* Those who have reported nothing but plain files so far *)
PlainReporters == {w \in Users : ReportsPlainly(w)}

(* The types of the variables, and what a summary in writing rests on *)
IsSummary(s) == s = [key |-> s.key, begun |-> s.begun, torn |-> s.torn]

Typed ==
  /\ program \in [Users -> {"running", "ended", "crashed", "undefined"}]
  /\ open \in [Users -> BOOLEAN]
  /\ OfUsers(framesAsStringsQ) /\ OfUsers(toServer) /\ OfUsers(toClient)
  /\ OfUsers(gameNameUserNameToFramesList) /\ OfUsers(summarizing) /\ OfUsers(output)
  /\ reported \in [Users -> Seq(DOMAIN Files)]
  /\ \A u \in Users : summarizing[u] # Nobody =>
       /\ IsSummary(summarizing[u])
       /\ summarizing[u].key \in DOMAIN gameNameUserNameToFramesList[u]
       /\ framesAsStringsQ[u] = <<>>

(* What a thread of user u sends on is made of one of u's texts. *)
SentOn(u, t, P) ==
  \E s \in ServerTexts(u, P) :
    LET f == extractFrame(s) IN
    /\ f # Throws /\ f.headers[<<"destination">>] = t.game
    /\ t.message = encode(MessageFrame(t.game, f.body))

(* Who a text on its way, and a stored body, comes from *)
TextsAreReports ==
  \A u \in Users :
    /\ framesAsStringsQ[u] \in Seq(ServerTexts(u, PlainReporters))
    /\ toServer[u] \in Seq(ServerTexts(u, PlainReporters))
    /\ toClient[u] \in Seq(ClientTexts(u, PlainReporters))
    /\ thread[u].at \in Sending => SentOn(u, thread[u], PlainReporters)

(* What user v has stored is what may be stored. *)
Kept(v, stored, P) ==
  /\ stored = [key \in DOMAIN stored |-> stored[key]]
  /\ \A key \in DOMAIN stored : stored[key] \in Seq(Bodies(v, key, P)) \ {<<>>}

BodiesAreReports ==
  \A u \in Users : Kept(u, gameNameUserNameToFramesList[u], PlainReporters)

(* A crash has a cause: somebody in a common game, or the user, who does not report plainly *)
Harmless(v, P) == v \notin P \/ \E w \in Users : w \notin P /\ Joined[v] \cap Joined[w] # {}

CrashesHaveACause ==
  \A u \in Users : program[u] = "crashed" => Harmless(u, PlainReporters)

(* The inductive invariant: every text on its way and every stored body is one that its
   sender may have said. *)
Provenance == Typed /\ TextsAreReports /\ BodiesAreReports /\ CrashesHaveACause

(* Nothing is on its way at the start. *)
LEMMA InitProvenance == Init => Provenance
<1>. SUFFICES ASSUME Init PROVE Provenance
  OBVIOUS
<1>1. Typed
  BY DEF Init, Typed, OfUsers
<1>21. \A u \in Users : thread[u].at \notin Sending
  BY ThreadAtStart DEF Init, Sending
<1>2. TextsAreReports
  BY <1>21 DEF Init, TextsAreReports
<1>3. ASSUME NEW u \in Users
      PROVE  Kept(u, gameNameUserNameToFramesList[u], PlainReporters)
  <2>1. gameNameUserNameToFramesList[u] = <<>>
    BY DEF Init, Empty
  <2>2. DOMAIN << >> = {} /\ << >> = [key \in {} |-> << >>[key]]
    OBVIOUS
  <2>. QED BY <2>1, <2>2 DEF Kept
<1>4. CrashesHaveACause
  BY DEF Init, CrashesHaveACause
<1>. QED BY <1>1, <1>2, <1>3, <1>4 DEF Provenance, BodiesAreReports

(* A report of a file that is not plain takes its user from those who report plainly. *)
LEMMA ReporterGetsLessPlain ==
  ASSUME Typed, NEW u \in Users, NEW file \in DOMAIN Files,
         reported' = [reported EXCEPT ![u] = Append(@, file)]
  PROVE  /\ PlainReporters' \subseteq PlainReporters
         /\ u \in PlainReporters' => file \in PlainFiles
         /\ reported' \in [Users -> Seq(DOMAIN Files)]
<1>1. reported[u] \in Seq(DOMAIN Files) /\ reported \in [Users -> Seq(DOMAIN Files)]
  BY DEF Typed
<1>2. /\ reported'[u] = Append(reported[u], file)
      /\ \A w \in Users : w # u => reported'[w] = reported[w]
  BY <1>1
<1>3. ToSet(Append(reported[u], file)) = ToSet(reported[u]) \cup {file}
  <2>. DEFINE q == reported[u]
              r == Append(q, file)
              n == Len(q)
  <2>1. /\ n \in Nat /\ DOMAIN q = 1 .. n /\ DOMAIN r = 1 .. n + 1
        /\ r[n + 1] = file /\ \A i \in 1 .. n : r[i] = q[i]
    BY <1>1, AppendIs
  <2>. HIDE DEF q, r, n
  <2>2. \A i \in 1 .. n + 1 : i \in 1 .. n \/ i = n + 1
    BY <2>1
  <2>3. n + 1 \in 1 .. n + 1 /\ \A i \in 1 .. n : i \in 1 .. n + 1
    BY <2>1
  <2>4. \A x : x \in ToSet(r) <=> \E i \in 1 .. n + 1 : x = r[i]
    BY <2>1 DEF ToSet
  <2>5. \A x : x \in ToSet(q) <=> \E i \in 1 .. n : x = q[i]
    BY <2>1 DEF ToSet
  <2>6. \A x : x \in ToSet(r) <=> x \in ToSet(q) \/ x = file
    BY <2>1, <2>2, <2>3, <2>4, <2>5
  <2>7. ToSet(r) = ToSet(q) \cup {file}
    BY <2>6
  <2>. QED BY <2>7 DEF q, r
<1>4. \A w \in Users : w # u => (ReportsPlainly(w)' <=> ReportsPlainly(w))
  BY <1>2 DEF ReportsPlainly
<1>5. ReportsPlainly(u)' => ReportsPlainly(u) /\ file \in PlainFiles
  BY <1>2, <1>3 DEF ReportsPlainly
<1>6. reported' \in [Users -> Seq(DOMAIN Files)]
  BY <1>1
<1>. QED BY <1>4, <1>5, <1>6 DEF PlainReporters

(* No other step does. *)
LEMMA ReportersStay ==
  ASSUME UNCHANGED reported
  PROVE  PlainReporters' = PlainReporters
BY DEF PlainReporters, ReportsPlainly

(* What holds for more plain reporters holds for fewer. *)
LEMMA LessProvenance ==
  ASSUME NEW P, NEW Q, Q \subseteq P, NEW u
  PROVE  /\ Seq(ServerTexts(u, P)) \subseteq Seq(ServerTexts(u, Q))
         /\ Seq(ClientTexts(u, P)) \subseteq Seq(ClientTexts(u, Q))
         /\ \A stored : Kept(u, stored, P) => Kept(u, stored, Q)
         /\ Harmless(u, P) => Harmless(u, Q)
         /\ \A t : SentOn(u, t, P) => SentOn(u, t, Q)
<1>1. /\ ServerTexts(u, P) \subseteq ServerTexts(u, Q)
      /\ ClientTexts(u, P) \subseteq ClientTexts(u, Q)
      /\ \A key : Bodies(u, key, P) \subseteq Bodies(u, key, Q)
  BY LessPlain
<1>2. \A key : Seq(Bodies(u, key, P)) \subseteq Seq(Bodies(u, key, Q))
  BY <1>1, SeqOfMore
<1>3. Harmless(u, P) => Harmless(u, Q)
  BY DEF Harmless
<1>4. \A t : SentOn(u, t, P) => SentOn(u, t, Q)
  BY <1>1 DEF SentOn
<1>. QED BY <1>1, <1>2, <1>3, <1>4, SeqOfMore DEF Kept

(* Another body that may be stored, appended under its key *)
LEMMA KeptMore ==
  ASSUME NEW v, NEW P, NEW stored, Kept(v, stored, P), NEW key, NEW body \in Bodies(v, key, P),
         NEW old, old = IF key \in DOMAIN stored THEN stored[key] ELSE <<>>,
         NEW new, DOMAIN new = DOMAIN stored \cup {key}, new = [k \in DOMAIN new |-> new[k]],
         new[key] = Append(old, body), \A k \in DOMAIN stored : k # key => new[k] = stored[k]
  PROVE  Kept(v, new, P)
<1>1. old \in Seq(Bodies(v, key, P))
  BY DEF Kept
<1>2. Append(old, body) \in Seq(Bodies(v, key, P)) /\ Append(old, body) # <<>>
  <2>1. \A S : \A q \in Seq(S), x \in S : Append(q, x) \in Seq(S) /\ Append(q, x) # <<>>
    BY ONLY AppendIs
  <2>. QED BY <1>1, <2>1
<1>3. \A k \in DOMAIN new : new[k] \in Seq(Bodies(v, k, P)) \ {<<>>}
  BY <1>2 DEF Kept
<1>. QED BY <1>3 DEF Kept

(* The same of the client's map as Store leaves it *)
LEMMA StoreKeeps ==
  ASSUME Provenance, NEW u \in Users, NEW key, NEW body \in Bodies(u, key, PlainReporters),
         Store(u, key, body)
  PROVE  /\ gameNameUserNameToFramesList' =
              [gameNameUserNameToFramesList EXCEPT ![u] = gameNameUserNameToFramesList'[u]]
         /\ Kept(u, gameNameUserNameToFramesList'[u], PlainReporters)
         /\ DOMAIN gameNameUserNameToFramesList[u] \subseteq DOMAIN gameNameUserNameToFramesList'[u]
<1>. DEFINE stored == gameNameUserNameToFramesList[u]
            old == StoredUnder(u, key)
            new == [k \in DOMAIN stored \cup {key} |->
                      IF k = key THEN Append(old, body) ELSE stored[k]]
<1>1. OfUsers(gameNameUserNameToFramesList) /\ Kept(u, stored, PlainReporters)
  BY DEF Provenance, Typed, BodiesAreReports
<1>2. old = IF key \in DOMAIN stored THEN stored[key] ELSE <<>>
  BY DEF StoredUnder
<1>3. gameNameUserNameToFramesList' = [gameNameUserNameToFramesList EXCEPT ![u] = new]
  BY DEF Store, StoredUnder
<1>4. gameNameUserNameToFramesList'[u] = new
  BY <1>1, <1>3 DEF OfUsers
<1>6. DOMAIN stored \subseteq DOMAIN new
  OBVIOUS
<1>7. /\ DOMAIN new = DOMAIN stored \cup {key} /\ new = [k \in DOMAIN new |-> new[k]]
      /\ new[key] = Append(old, body) /\ \A k \in DOMAIN stored : k # key => new[k] = stored[k]
  OBVIOUS
<1>. HIDE DEF old, new, stored
<1>5. Kept(u, new, PlainReporters)
  BY <1>1, <1>2, <1>7, KeptMore
<1>. QED BY <1>3, <1>4, <1>5, <1>6 DEF stored

(* The steps one by one: a report command, *)
LEMMA ReportKeepsProvenance ==
  ASSUME Provenance, NEW u \in Users, NEW file \in DOMAIN Files, Report(u, file)
  PROVE  Provenance'
<1>. DEFINE P == PlainReporters
            Q == PlainReporters'
            frames == reportProcess(u, Files[file])
<1>1. /\ AtKeyboard(u) /\ reported' = [reported EXCEPT ![u] = Append(@, file)]
      /\ StartSending(u, frames)
      /\ UNCHANGED <<toServer, toClient, open, thread, gameNameUserNameToFramesList, summarizing,
           output>>
  BY DEF Report, serverVars
<1>2. file \in DOMAIN Files
  BY ReportsAssumption
<1>3. Q \subseteq P /\ (u \in Q => file \in PlainFiles) /\ reported' \in [Users -> Seq(DOMAIN Files)]
  BY <1>1, <1>2, ReporterGetsLessPlain DEF Provenance
<1>4. \/ frames = Throws /\ u \notin Q
      \/ frames # Throws /\ frames \in Seq(ServerTexts(u, Q))
  BY <1>2, <1>3, ReportedFrames
<1>. HIDE DEF frames
<1>5. \A w \in Users :
        /\ framesAsStringsQ[w] \in Seq(ServerTexts(w, Q)) /\ toServer[w] \in Seq(ServerTexts(w, Q))
        /\ toClient[w] \in Seq(ClientTexts(w, Q)) /\ Kept(w, gameNameUserNameToFramesList[w], Q)
        /\ program[w] = "crashed" => Harmless(w, Q)
        /\ thread[w].at \in Sending => SentOn(w, thread[w], Q)
  BY <1>3, LessProvenance DEF Provenance, TextsAreReports, BodiesAreReports, CrashesHaveACause
<1>6. \/ /\ frames = Throws /\ program' = [program EXCEPT ![u] = "crashed"]
         /\ framesAsStringsQ' = framesAsStringsQ
      \/ /\ frames # Throws /\ framesAsStringsQ' = [framesAsStringsQ EXCEPT ![u] = frames]
         /\ program' = program
  BY <1>1 DEF StartSending, Stop
<1>7. summarizing[u] = Nobody
  BY <1>1 DEF AtKeyboard
<1>. HIDE DEF P, Q
<1>8. Typed'
  BY <1>1, <1>3, <1>6, <1>7 DEF Provenance, Typed, OfUsers
<1>9. \A w \in Users : framesAsStringsQ'[w] \in Seq(ServerTexts(w, Q))
  BY <1>4, <1>5, <1>6 DEF Provenance, Typed, OfUsers
<1>10. TextsAreReports'
  BY <1>1, <1>5, <1>9 DEF TextsAreReports, Q
<1>11. BodiesAreReports'
  BY <1>1, <1>5 DEF BodiesAreReports, Q
<1>12. ASSUME NEW w \in Users, program'[w] = "crashed"
       PROVE  Harmless(w, Q)
  <2>1. CASE program[w] = "crashed"
    BY <1>5, <2>1
  <2>2. CASE program[w] # "crashed"
    <3>1. w = u /\ u \notin Q
      BY <1>4, <1>6, <1>12, <2>2 DEF Provenance, Typed
    <3>. QED BY <3>1 DEF Harmless
  <2>. QED BY <2>1, <2>2
<1>. QED BY <1>8, <1>10, <1>11, <1>12 DEF Provenance, CrashesHaveACause, Q

(* the socket thread's write, *)
LEMMA SendNextKeepsProvenance ==
  ASSUME Provenance, NEW u \in Users, SendNext(u)
  PROVE  Provenance'
<1>. DEFINE P == PlainReporters
            q == framesAsStringsQ[u]
<1>1. /\ q # <<>>
      /\ framesAsStringsQ' = [framesAsStringsQ EXCEPT ![u] = Tail(q)]
      /\ toServer' = [toServer EXCEPT ![u] =
           IF open[u] THEN Append(toServer[u], Head(q)) ELSE toServer[u]]
      /\ UNCHANGED <<program, toClient, open, thread, gameNameUserNameToFramesList, summarizing,
           output, reported>>
  BY DEF SendNext, serverVars
<1>2. PlainReporters' = P
  BY <1>1, ReportersStay
<1>. HIDE DEF P
<1>3. \A w \in Users :
        /\ framesAsStringsQ[w] \in Seq(ServerTexts(w, P)) /\ toServer[w] \in Seq(ServerTexts(w, P))
        /\ toClient[w] \in Seq(ClientTexts(w, P))
        /\ thread[w].at \in Sending => SentOn(w, thread[w], P)
  BY DEF Provenance, TextsAreReports, P
<1>4. q \in Seq(ServerTexts(u, P))
  BY <1>3
<1>5. /\ Tail(q) \in Seq(ServerTexts(u, P))
      /\ Append(toServer[u], Head(q)) \in Seq(ServerTexts(u, P))
  <2>. DEFINE S == ServerTexts(u, P)
  <2>1. Head(q) \in S /\ Tail(q) \in Seq(S)
    BY <1>1, <1>4
  <2>. QED BY <1>3, <2>1
<1>6. summarizing[u] = Nobody
  BY <1>1 DEF Provenance, Typed
<1>7. Typed'
  BY <1>1, <1>6 DEF Provenance, Typed, OfUsers
<1>8. \A w \in Users : /\ framesAsStringsQ'[w] \in Seq(ServerTexts(w, P))
                       /\ toServer'[w] \in Seq(ServerTexts(w, P))
  BY <1>1, <1>3, <1>5 DEF Provenance, Typed, OfUsers
<1>9. TextsAreReports'
  BY <1>1, <1>2, <1>3, <1>8 DEF TextsAreReports
<1>10. BodiesAreReports' /\ CrashesHaveACause'
  BY <1>1, <1>2 DEF Provenance, BodiesAreReports, CrashesHaveACause, P
<1>. QED BY <1>7, <1>9, <1>10 DEF Provenance

(* a summary command up to its end, *)
LEMMA StartSummaryKeepsProvenance ==
  ASSUME Provenance, NEW u \in Users, NEW key \in DOMAIN gameNameUserNameToFramesList[u],
         StartSummary(u, key)
  PROVE  Provenance'
<1>. DEFINE s == [key |-> key, begun |-> Len(gameNameUserNameToFramesList[u][key]),
                  torn |-> FALSE]
<1>1. /\ AtKeyboard(u) /\ summarizing' = [summarizing EXCEPT ![u] = s]
      /\ UNCHANGED <<program, framesAsStringsQ, toServer, toClient, open, thread,
                     gameNameUserNameToFramesList, output, reported>>
  BY DEF StartSummary, serverVars
<1>2. PlainReporters' = PlainReporters
  BY <1>1, ReportersStay
<1>3. s.key = key /\ IsSummary(s)
  BY DEF IsSummary
<1>. HIDE DEF s
<1>4. framesAsStringsQ[u] = <<>>
  BY <1>1 DEF AtKeyboard
<1>5. Typed'
  BY <1>1, <1>3, <1>4 DEF Provenance, Typed, OfUsers
<1>6. TextsAreReports' /\ BodiesAreReports' /\ CrashesHaveACause'
  BY <1>1, <1>2 DEF Provenance, TextsAreReports, BodiesAreReports, CrashesHaveACause
<1>. QED BY <1>5, <1>6 DEF Provenance

LEMMA FinishSummaryIs ==
  ASSUME NEW u \in Users, FinishSummary(u),
         NEW key, key = summarizing[u].key, NEW bodies, bodies = gameNameUserNameToFramesList[u][key]
  PROVE  /\ Running(u) /\ summarizing[u] # Nobody
         /\ summarizing' = [summarizing EXCEPT ![u] = Nobody]
         /\ UNCHANGED <<framesAsStringsQ, toServer, toClient, open, thread,
              channelToConnectionIdsList, disturbed, gameNameUserNameToFramesList, reported>>
         /\ \/ /\ ~summarizing[u].torn /\ summaryProcess(key[1], bodies) = Throws
               /\ program' = [program EXCEPT ![u] = "crashed"] /\ UNCHANGED output
            \/ /\ ~summarizing[u].torn /\ summaryProcess(key[1], bodies) # Throws
               /\ WriteSummary(u, summaryProcess(key[1], bodies)) /\ UNCHANGED program
            \/ /\ summarizing[u].torn
               /\ program' = [program EXCEPT ![u] = "undefined"] /\ UNCHANGED output
            \/ /\ summarizing[u].torn /\ UNCHANGED program
               /\ \E summary : WriteSummary(u, summary)
<1>1. /\ Running(u) /\ summarizing[u] # Nobody
      /\ summarizing' = [summarizing EXCEPT ![u] = Nobody]
      /\ UNCHANGED <<framesAsStringsQ, toServer, toClient, serverVars,
           gameNameUserNameToFramesList, reported>>
      /\ SummarizeAll(u, key[1], bodies) \/ SummarizeTorn(u, key[1], bodies)
  BY DEF FinishSummary
<1>2. CASE SummarizeAll(u, key[1], bodies)
  BY <1>1, <1>2 DEF SummarizeAll, Stop, serverVars
<1>3. CASE SummarizeTorn(u, key[1], bodies)
  BY <1>1, <1>3 DEF SummarizeTorn, Stop, serverVars
<1>. QED BY <1>1, <1>2, <1>3

LEMMA FinishSummaryKeepsProvenance ==
  ASSUME Provenance, NEW u \in Users, FinishSummary(u)
  PROVE  Provenance'
<1>. DEFINE key == summarizing[u].key
            bodies == gameNameUserNameToFramesList[u][key]
            summary == summaryProcess(key[1], bodies)
            P == PlainReporters
<1>1. /\ summarizing[u] # Nobody /\ summarizing' = [summarizing EXCEPT ![u] = Nobody]
      /\ UNCHANGED <<framesAsStringsQ, toServer, toClient, open, thread,
           gameNameUserNameToFramesList, reported>>
  BY FinishSummaryIs
<1>11. \/ program' = program
       \/ program' = [program EXCEPT ![u] = "undefined"]
       \/ program' = [program EXCEPT ![u] = "crashed"] /\ summary = Throws
  BY FinishSummaryIs
<1>12. UNCHANGED output \/ \E text : WriteSummary(u, text)
  BY FinishSummaryIs
<1>2. PlainReporters' = P
  BY <1>1, ReportersStay
<1>3. key \in DOMAIN gameNameUserNameToFramesList[u]
  BY <1>1 DEF Provenance, Typed
<1>4. bodies \in Seq(Bodies(u, key, P)) /\ bodies # <<>>
  BY <1>3 DEF Provenance, BodiesAreReports, Kept
<1>5. summary = Throws => Harmless(u, P)
  <2>. HIDE DEF key, bodies, P
  <2>. QED BY <1>4, FinishedSummary DEF Harmless
<1>61. OfUsers(output)'
  BY <1>12 DEF WriteSummary, Provenance, Typed, OfUsers
<1>. HIDE DEF summary, bodies, key, P
<1>7. Typed'
  BY <1>1, <1>11, <1>61 DEF Provenance, Typed, OfUsers
<1>8. TextsAreReports' /\ BodiesAreReports'
  BY <1>1, <1>2 DEF Provenance, TextsAreReports, BodiesAreReports, P
<1>9. ASSUME NEW w \in Users, program'[w] = "crashed"
      PROVE  Harmless(w, P)
  <2>0. program \in [Users -> {"running", "ended", "crashed", "undefined"}]
    BY DEF Provenance, Typed
  <2>1. CASE program' = program \/ program' = [program EXCEPT ![u] = "undefined"]
    <3>1. program[w] = "crashed"
      BY <1>9, <2>0, <2>1
    <3>. QED BY <3>1 DEF Provenance, CrashesHaveACause, P
  <2>2. CASE program' = [program EXCEPT ![u] = "crashed"] /\ summary = Throws
    <3>1. program[w] = "crashed" \/ w = u
      BY <1>9, <2>0, <2>2
    <3>. QED BY <1>5, <2>2, <3>1 DEF Provenance, CrashesHaveACause, P
  <2>. QED BY <1>11, <2>1, <2>2
<1>. QED BY <1>2, <1>7, <1>8, <1>9 DEF Provenance, CrashesHaveACause

(* The first element of a queue and the others *)
LEMMA HeadAndTail ==
  ASSUME NEW S, NEW q \in Seq(S), q # <<>>
  PROVE  Head(q) \in S /\ Tail(q) \in Seq(S)
OBVIOUS

(* a step of the server's threads, *)
LEMMA ServerKeepsProvenance ==
  ASSUME Provenance, UNCHANGED clientVars, open' \in [Users -> BOOLEAN],
         OfUsers(toServer'), OfUsers(toClient'),
         \A w \in Users :
           /\ toServer'[w] \in Seq(ServerTexts(w, PlainReporters))
           /\ toClient'[w] \in Seq(ClientTexts(w, PlainReporters))
           /\ thread'[w].at \in Sending => SentOn(w, thread'[w], PlainReporters)
  PROVE  Provenance'
<1>1. PlainReporters' = PlainReporters
  BY ReportersStay DEF clientVars
<1>2. Typed'
  BY DEF Provenance, Typed, OfUsers, clientVars
<1>3. TextsAreReports'
  <2>1. UNCHANGED framesAsStringsQ
    BY DEF clientVars
  <2>2. \A w \in Users : framesAsStringsQ[w] \in Seq(ServerTexts(w, PlainReporters))
    BY DEF Provenance, TextsAreReports
  <2>. QED BY <1>1, <2>1, <2>2 DEF TextsAreReports
<1>4. BodiesAreReports' /\ CrashesHaveACause'
  BY <1>1 DEF Provenance, BodiesAreReports, CrashesHaveACause, clientVars
<1>. QED BY <1>2, <1>3, <1>4 DEF Provenance

LEMMA ForwardKeepsProvenance ==
  ASSUME Serving, Provenance, NEW u \in Users, Forward(u)
  PROVE  Provenance'
<1>. DEFINE P == PlainReporters
            q == toServer[u]
            error == encode(ErrorFrame)
<1>1. PICK f : f = extractFrame(Head(q))
  OBVIOUS
<1>2. PICK game : game = f.headers[<<"destination">>]
  OBVIOUS
<1>. DEFINE text == encode(MessageFrame(game, f.body))
<1>3. /\ q # <<>> /\ toServer' = [toServer EXCEPT ![u] = Tail(q)] /\ UNCHANGED clientVars
      /\ \/ End(u) /\ UNCHANGED toClient
         \/ /\ UNCHANGED open /\ thread' = [thread EXCEPT ![u] = Leaver(Joined[u])]
            /\ toClient' = [toClient EXCEPT ![u] = Append(toClient[u], error)]
         \/ /\ f # Throws /\ UNCHANGED <<open, toClient>>
            /\ thread' = [thread EXCEPT ![u] = Sender(game, text)]
  BY <1>1, <1>2, ForwardIs
<1>4. \A w \in Users :
        /\ toServer[w] \in Seq(ServerTexts(w, P)) /\ toClient[w] \in Seq(ClientTexts(w, P))
        /\ thread[w].at \in Sending => SentOn(w, thread[w], P)
  BY DEF Provenance, TextsAreReports
<1>. HIDE DEF P
<1>5. Head(q) \in ServerTexts(u, P) /\ Tail(q) \in Seq(ServerTexts(u, P))
  BY <1>3, <1>4, HeadAndTail
<1>6. Append(toClient[u], error) \in Seq(ClientTexts(u, P))
  <2>. DEFINE S == ClientTexts(u, P)
  <2>1. toClient[u] \in Seq(S) /\ error \in S
    BY <1>4, ErrorText
  <2>. HIDE DEF S
  <2>2. Append(toClient[u], error) \in Seq(S)
    BY <2>1
  <2>. QED BY <2>2 DEF S
<1>7. LET s == Sender(game, text) IN f # Throws => SentOn(u, s, P)
  <2>1. LET s == Sender(game, text) IN s.game = game /\ s.message = text
    BY ThreadBegins
  <2>. QED BY <1>1, <1>2, <1>5, <2>1 DEF SentOn
<1>81. Leaver(Joined[u]).at = "leave" /\ Thread("read").at = "read"
  BY ThreadBegins, ThreadAtStart DEF Begins
<1>8. Leaver(Joined[u]).at \notin Sending /\ Thread("read").at \notin Sending
  BY <1>81 DEF Sending
<1>. HIDE DEF text, error, q
<1>9. OfUsers(toServer) /\ OfUsers(toClient) /\ OfUsers(thread) /\ open \in [Users -> BOOLEAN]
  BY DEF Provenance, Typed, Serving, ThreadsKept
<1>10. /\ open' \in [Users -> BOOLEAN] /\ OfUsers(toServer') /\ OfUsers(toClient')
       /\ \A w \in Users : toServer'[w] \in Seq(ServerTexts(w, P))
       /\ \A w \in Users : toClient'[w] \in Seq(ClientTexts(w, P))
  BY <1>3, <1>4, <1>5, <1>6, <1>9 DEF OfUsers, End, q
<1>11. ASSUME NEW w \in Users, thread'[w].at \in Sending
       PROVE  SentOn(w, thread'[w], P)
  BY <1>3, <1>4, <1>7, <1>8, <1>9, <1>11 DEF OfUsers, End, Return
<1>. QED BY <1>3, <1>10, <1>11, ServerKeepsProvenance DEF P

(* A thread that is sending has been at it before. *)
KeepsSending(w) ==
  thread'[w].at \in Sending =>
    /\ thread[w].at \in Sending
    /\ thread'[w].game = thread[w].game /\ thread'[w].message = thread[w].message

LEMMA SendersGoOn ==
  ASSUME Serving, NEW u \in Users,
         \/ SendLoop(u) \/ NextAddressee(u) \/ SendTo(u)
         \/ LeaveGame(u) \/ RemoveLoop(u) \/ RemoveNext(u)
  PROVE  \A w \in Users : KeepsSending(w)
<1>1. OfUsers(thread) /\ \A w \in Users : IsThread(thread[w])
  BY DEF Serving, ThreadsKept, AtWork
<1>2. ASSUME NEW t, thread' = [thread EXCEPT ![u] = t],
             t.at \in Sending => /\ thread[u].at \in Sending /\ t.game = thread[u].game
                                 /\ t.message = thread[u].message
      PROVE  \A w \in Users : KeepsSending(w)
  <2>1. thread'[u] = t /\ \A w \in Users : w # u => thread'[w] = thread[w]
    BY <1>1, <1>2 DEF OfUsers
  <2>. QED BY <1>2, <2>1 DEF KeepsSending
<1>3. CASE End(u) \/ Return(u)
  <2>1. Thread("read").at \notin Sending
    BY ThreadAtStart DEF Sending
  <2>. QED BY <1>2, <1>3, <2>1 DEF End, Return
<1>. DEFINE t == thread[u]
<1>4. /\ \A at : Goes(Moved(t, at), t, at, t.next)
      /\ Goes(Further(t), t, "removeIf", t.next + 1)
      /\ \A d : Goes(SendingTo(t, d), t, "send_to", t.next + 1)
      /\ Goes(HasSent(t), t, "send", t.next)
  BY <1>1, ThreadGoes
<1>5. \A game, leaving :
        /\ Leaver(leaving).at \notin Sending /\ Remover(game, leaving).at \notin Sending
  BY ThreadBegins DEF Begins, Sending
<1>6. CASE SendLoop(u)
  <2>1. t.at \in Sending /\ \/ thread' = [thread EXCEPT ![u] = Moved(t, "send_next")]
                            \/ Return(u)
    BY <1>6, SendLoopIs DEF Sending
  <2>. QED BY <1>2, <1>3, <1>4, <2>1 DEF Goes
<1>7. CASE NextAddressee(u)
  <2>1. t.at \in Sending /\ \/ \E d : thread' = [thread EXCEPT ![u] = SendingTo(t, d)]
                            \/ End(u)
    BY <1>7, NextAddresseeIs DEF Sending
  <2>. QED BY <1>2, <1>3, <1>4, <2>1 DEF Goes
<1>8. CASE SendTo(u)
  <2>1. t.at \in Sending /\ thread' = [thread EXCEPT ![u] = HasSent(t)]
    BY <1>8, SendToIs DEF Sending
  <2>. QED BY <1>2, <1>4, <2>1 DEF Goes
<1>9. CASE LeaveGame(u)
  <2>1. \/ End(u)
        \/ \E game, leaving : thread' = [thread EXCEPT ![u] = Remover(game, leaving)]
    BY <1>9, LeaveGameIs
  <2>. QED BY <1>2, <1>3, <1>5, <2>1
<1>10. CASE RemoveLoop(u)
  <2>1. \/ thread' = [thread EXCEPT ![u] = Moved(t, "remove_next")]
        \/ thread' = [thread EXCEPT ![u] = Leaver(t.leaving)]
    BY <1>10, RemoveLoopIs
  <2>2. Moved(t, "remove_next").at \notin Sending
    BY <1>4 DEF Goes, Sending
  <2>. QED BY <1>2, <1>5, <2>1, <2>2
<1>11. CASE RemoveNext(u)
  <2>1. \/ End(u) \/ RemoveOwn(u, t.game)
        \/ thread' = [thread EXCEPT ![u] = Further(t)]
    BY <1>11, RemoveNextIs
  <2>2. Further(t).at \notin Sending
    BY <1>4 DEF Goes, Sending
  <2>3. CASE RemoveOwn(u, t.game)
    <3>1. thread'[u].at \notin Sending
      BY <2>3, RemoveOwnIs DEF Goes, Sending
    <3>2. \A w \in Users : w # u => /\ thread'[w].at = thread[w].at
                                    /\ thread'[w].game = thread[w].game
                                    /\ thread'[w].message = thread[w].message
      BY <2>3, RemoveOwnIs
    <3>. QED BY <3>1, <3>2 DEF KeepsSending
  <2>. QED BY <1>2, <1>3, <2>1, <2>2, <2>3
<1>. QED BY <1>6, <1>7, <1>8, <1>9, <1>10, <1>11

LEMMA GoingOnKeepsProvenance ==
  ASSUME Serving, Provenance, NEW u \in Users,
         \/ SendLoop(u) \/ NextAddressee(u) \/ SendTo(u)
         \/ LeaveGame(u) \/ RemoveLoop(u) \/ RemoveNext(u)
  PROVE  Provenance'
<1>. DEFINE P == PlainReporters
            t == thread[u]
            v == t.addressee
<1>1. UNCHANGED <<clientVars, toServer>>
  BY DEF SendLoop, NextAddressee, SendTo, LeaveGame, RemoveLoop, RemoveNext
<1>2. UNCHANGED open \/ End(u)
  BY DEF SendLoop, NextAddressee, SendTo, LeaveGame, RemoveLoop, RemoveNext, Interrupted, RemoveOwn
<1>3. \/ UNCHANGED toClient
      \/ /\ t.at = "send_to"
         /\ toClient' = [toClient EXCEPT ![v] =
                           IF open[v] THEN Append(toClient[v], t.message) ELSE toClient[v]]
  BY DEF SendLoop, NextAddressee, SendTo, LeaveGame, RemoveLoop, RemoveNext, At
<1>4. /\ OfUsers(toServer) /\ OfUsers(toClient) /\ open \in [Users -> BOOLEAN]
      /\ \A w \in Users :
           /\ toServer[w] \in Seq(ServerTexts(w, P)) /\ toClient[w] \in Seq(ClientTexts(w, P))
           /\ thread[w].at \in Sending => SentOn(w, thread[w], P)
  BY DEF Provenance, Typed, TextsAreReports
<1>. HIDE DEF P
<1>5. \A w \in Users : thread'[w].at \in Sending => SentOn(w, thread'[w], P)
  <2>1. \A w \in Users : KeepsSending(w)
    BY SendersGoOn
  <2>. QED BY <1>4, <2>1 DEF KeepsSending, SentOn
<1>6. ASSUME t.at = "send_to"
      PROVE  v \in Users /\ Append(toClient[v], t.message) \in Seq(ClientTexts(v, P))
  <2>1. v \in Users /\ t.game \in Joined[v] /\ t.game \in Joined[u] /\ SentOn(u, t, P)
    BY <1>4, <1>6 DEF Serving, ThreadsKept, AtWork, Sending
  <2>2. PICK s \in ServerTexts(u, P) :
          LET f == extractFrame(s) IN
          /\ f # Throws /\ f.headers[<<"destination">>] = t.game
          /\ t.message = encode(MessageFrame(t.game, f.body))
    BY <2>1 DEF SentOn
  <2>3. t.message \in ClientTexts(v, P)
    BY <2>1, <2>2, ForwardedText
  <2>. DEFINE S == ClientTexts(v, P)
  <2>4. toClient[v] \in Seq(S) /\ t.message \in S
    BY <1>4, <2>1, <2>3
  <2>. HIDE DEF S, t
  <2>5. Append(toClient[v], t.message) \in Seq(S)
    BY <2>4
  <2>. QED BY <2>1, <2>5 DEF S
<1>. HIDE DEF t, v
<1>7. OfUsers(toClient') /\ \A w \in Users : toClient'[w] \in Seq(ClientTexts(w, P))
  BY <1>3, <1>4, <1>6 DEF OfUsers
<1>8. open' \in [Users -> BOOLEAN] /\ OfUsers(toServer')
  BY <1>1, <1>2, <1>4 DEF End, OfUsers
<1>. QED BY <1>1, <1>4, <1>5, <1>7, <1>8, ServerKeepsProvenance DEF P

(* What processFromServer does with a text from the server *)
Torn(s) == [s EXCEPT !.torn = TRUE]

LEMMA TornIs ==
  ASSUME NEW s, IsSummary(s)
  PROVE  LET r == Torn(s) IN IsSummary(r) /\ r.key = s.key /\ r.begun = s.begun /\ r.torn
<1>1. ASSUME NEW b
      PROVE  [s EXCEPT !.torn = b] = [key |-> s.key, begun |-> s.begun, torn |-> b]
  BY DEF IsSummary
<1>2. Torn(s) = [key |-> s.key, begun |-> s.begun, torn |-> TRUE]
  BY <1>1 DEF Torn
<1>. QED BY <1>2 DEF IsSummary

LEMMA ListenIs ==
  ASSUME Provenance, NEW u \in Users, Listen(u),
         NEW f, f = stringToFrameFromServer(Head(toClient[u])),
         NEW game, game = f.headers[<<"destination">>]
  PROVE  /\ toClient[u] # <<>> /\ Head(toClient[u]) \in ClientTexts(u, PlainReporters) /\ f # Throws
         /\ toClient' = [toClient EXCEPT ![u] = Tail(toClient[u])]
         /\ Tail(toClient[u]) \in Seq(ClientTexts(u, PlainReporters))
         /\ UNCHANGED <<framesAsStringsQ, toServer, open, thread, channelToConnectionIdsList,
              disturbed, output, reported>>
         /\ PlainReporters' = PlainReporters
         /\ \/ /\ f.command # <<"MESSAGE">> \/ SenderOf(f.body) = Throws
               /\ UNCHANGED <<gameNameUserNameToFramesList, summarizing>>
               /\ \/ program' = [program EXCEPT ![u] = "ended"]
                  \/ program' = [program EXCEPT ![u] = "crashed"] /\ Harmless(u, PlainReporters)
            \/ /\ f.command = <<"MESSAGE">>
               /\ f.body \in Bodies(u, <<game, SenderOf(f.body)>>, PlainReporters)
               /\ Store(u, <<game, SenderOf(f.body)>>, f.body)
               /\ \/ UNCHANGED <<program, summarizing>>
                  \/ /\ summarizing[u] # Nobody /\ UNCHANGED program
                     /\ summarizing' = [summarizing EXCEPT ![u] = Torn(summarizing[u])]
                  \/ /\ program' = [program EXCEPT ![u] = "undefined"] /\ UNCHANGED summarizing
<1>. DEFINE P == PlainReporters
            q == toClient[u]
            t == Head(q)
            sender == SenderOf(f.body)
<1>1. /\ q # <<>> /\ toClient' = [toClient EXCEPT ![u] = Tail(q)]
      /\ processFromServer(u, f)
      /\ UNCHANGED <<framesAsStringsQ, toServer, open, thread, channelToConnectionIdsList,
           disturbed, output, reported>>
  BY DEF Listen, serverVars
<1>2. PlainReporters' = P
  BY <1>1, ReportersStay
<1>3. q \in Seq(ClientTexts(u, P))
  BY DEF Provenance, TextsAreReports
<1>. HIDE DEF P
<1>4. t \in ClientTexts(u, P) /\ Tail(q) \in Seq(ClientTexts(u, P))
  BY <1>1, <1>3, HeadAndTail
<1>. HIDE DEF t
<1>5. f = stringToFrameFromServer(t)
  BY DEF t
<1>6. f # Throws /\ (f.command = <<"ERROR">> \/ f.command = <<"MESSAGE">>)
  BY <1>4, <1>5 DEF ClientTexts
<1>7. \/ /\ f.command = <<"ERROR">> /\ Stop(u, "ended")
         /\ UNCHANGED <<gameNameUserNameToFramesList, summarizing>>
      \/ f.command = <<"MESSAGE">> /\ processMessage(u, game, sender, f.body)
  BY <1>1, <1>6 DEF processFromServer
<1>8. <<"ERROR">> # <<"MESSAGE">>
  OBVIOUS
<1>9. CASE f.command = <<"ERROR">>
  <2>1. /\ Stop(u, "ended") /\ UNCHANGED <<gameNameUserNameToFramesList, summarizing>>
        /\ f.command # <<"MESSAGE">>
    BY <1>7, <1>8, <1>9
  <2>. QED BY <1>1, <1>2, <1>4, <1>6, <2>1 DEF Stop, P, t
<1>10. CASE f.command = <<"MESSAGE">>
  <2>1. /\ sender = Throws => Harmless(u, P)
        /\ sender # Throws => f.body \in Bodies(u, <<game, sender>>, P)
    BY <1>4, <1>5, <1>10, HeardText DEF Harmless
  <2>2. \/ /\ sender = Throws /\ Stop(u, "crashed")
           /\ UNCHANGED <<gameNameUserNameToFramesList, summarizing>>
        \/ /\ sender # Throws /\ Store(u, <<game, sender>>, f.body)
           /\ \/ UNCHANGED <<program, summarizing>>
              \/ summarizing[u] # Nobody /\ MeetCopy(u)
    BY <1>7, <1>8, <1>10 DEF processMessage, Races
  <2>3. MeetCopy(u) =>
          \/ /\ summarizing' = [summarizing EXCEPT ![u] = Torn(summarizing[u])]
             /\ UNCHANGED program
          \/ Stop(u, "undefined") /\ UNCHANGED summarizing
    BY DEF MeetCopy, Torn
  <2>. QED BY <1>1, <1>2, <1>4, <1>6, <1>10, <2>1, <2>2, <2>3 DEF Stop, P, t
<1>. QED BY <1>6, <1>9, <1>10

(* and the client's handler. *)
LEMMA ListenKeepsProvenance ==
  ASSUME Provenance, NEW u \in Users, Listen(u)
  PROVE  Provenance'
<1>. DEFINE P == PlainReporters
            stored == gameNameUserNameToFramesList[u]
<1>1. PICK f : f = stringToFrameFromServer(Head(toClient[u]))
  OBVIOUS
<1>2. PICK game : game = f.headers[<<"destination">>]
  OBVIOUS
<1>3. PICK sender : sender = SenderOf(f.body)
  OBVIOUS
<1>4. /\ toClient' = [toClient EXCEPT ![u] = Tail(toClient[u])]
      /\ Tail(toClient[u]) \in Seq(ClientTexts(u, P))
      /\ UNCHANGED <<framesAsStringsQ, toServer, open, thread, output, reported>>
      /\ PlainReporters' = P
  BY <1>1, <1>2, ListenIs
<1>5. \/ UNCHANGED gameNameUserNameToFramesList
      \/ /\ f.body \in Bodies(u, <<game, sender>>, P)
         /\ Store(u, <<game, sender>>, f.body)
  BY <1>1, <1>2, <1>3, ListenIs
<1>51. \/ UNCHANGED summarizing
       \/ /\ summarizing[u] # Nobody
          /\ summarizing' = [summarizing EXCEPT ![u] = Torn(summarizing[u])]
  BY <1>1, <1>2, ListenIs
<1>6. /\ gameNameUserNameToFramesList' =
           [gameNameUserNameToFramesList EXCEPT ![u] = gameNameUserNameToFramesList'[u]]
      /\ Kept(u, gameNameUserNameToFramesList'[u], P)
      /\ DOMAIN stored \subseteq DOMAIN gameNameUserNameToFramesList'[u]
  <2>1. CASE UNCHANGED gameNameUserNameToFramesList
    BY <2>1 DEF Provenance, Typed, OfUsers, BodiesAreReports
  <2>2. CASE f.body \in Bodies(u, <<game, sender>>, P) /\ Store(u, <<game, sender>>, f.body)
    BY <2>2, StoreKeeps
  <2>. QED BY <1>5, <2>1, <2>2
<1>. HIDE DEF P
<1>7. program \in [Users -> {"running", "ended", "crashed", "undefined"}]
  BY DEF Provenance, Typed
<1>8. \/ program' = program
      \/ program' = [program EXCEPT ![u] = "ended"] \/ program' = [program EXCEPT ![u] = "undefined"]
      \/ program' = [program EXCEPT ![u] = "crashed"] /\ Harmless(u, P)
  BY <1>1, <1>2, ListenIs DEF P
<1>9. program' \in [Users -> {"running", "ended", "crashed", "undefined"}]
  BY <1>7, <1>8
<1>10. OfUsers(gameNameUserNameToFramesList) /\ OfUsers(gameNameUserNameToFramesList)'
  BY <1>6 DEF Provenance, Typed, OfUsers
<1>11. \A w \in Users :
         DOMAIN gameNameUserNameToFramesList[w] \subseteq DOMAIN gameNameUserNameToFramesList'[w]
  BY <1>6, <1>10 DEF OfUsers
<1>111. /\ OfUsers(summarizing')
        /\ \A w \in Users : summarizing'[w] # Nobody =>
             /\ summarizing[w] # Nobody /\ IsSummary(summarizing'[w])
             /\ summarizing'[w].key = summarizing[w].key
  <2>1. /\ OfUsers(summarizing)
        /\ \A w \in Users : summarizing[w] # Nobody => IsSummary(summarizing[w])
    BY DEF Provenance, Typed
  <2>2. summarizing[u] # Nobody =>
          /\ IsSummary(Torn(summarizing[u])) /\ Torn(summarizing[u]).key = summarizing[u].key
    BY <2>1, TornIs
  <2>. QED BY <1>51, <2>1, <2>2 DEF OfUsers
<1>12. Typed'
  BY <1>4, <1>9, <1>10, <1>11, <1>111 DEF Provenance, Typed, OfUsers
<1>13. TextsAreReports'
  BY <1>4 DEF Provenance, Typed, OfUsers, TextsAreReports, P
<1>14. BodiesAreReports'
  <2>1. \A w \in Users : w # u => gameNameUserNameToFramesList'[w] = gameNameUserNameToFramesList[w]
    BY <1>6, <1>10 DEF OfUsers
  <2>. QED BY <1>4, <1>6, <2>1 DEF Provenance, BodiesAreReports, P
<1>15. ASSUME NEW w \in Users, program'[w] = "crashed"
       PROVE  Harmless(w, P)
  <2>1. program[w] = "crashed" \/ (w = u /\ Harmless(u, P))
    <3>1. CASE program' = program
      BY <1>15, <3>1
    <3>2. CASE program' = [program EXCEPT ![u] = "ended"]
                 \/ program' = [program EXCEPT ![u] = "undefined"]
      BY <1>7, <1>15, <3>2
    <3>3. CASE program' = [program EXCEPT ![u] = "crashed"] /\ Harmless(u, P)
      BY <1>7, <1>15, <3>3
    <3>. QED BY <1>8, <3>1, <3>2, <3>3
  <2>. QED BY <2>1 DEF Provenance, CrashesHaveACause, P
<1>. QED BY <1>4, <1>12, <1>13, <1>14, <1>15 DEF Provenance, CrashesHaveACause

(* Every step keeps the invariant, *)
LEMMA NextKeepsProvenance ==
  ASSUME Serving, Provenance, [Next]_vars
  PROVE  Provenance'
<1>1. ASSUME NEW u \in Users, NEW file \in DOMAIN Files, Report(u, file)
      PROVE  Provenance'
  BY <1>1, ReportKeepsProvenance
<1>2. ASSUME NEW u \in Users, NEW key \in DOMAIN gameNameUserNameToFramesList[u], StartSummary(u, key)
      PROVE  Provenance'
  BY <1>2, StartSummaryKeepsProvenance
<1>3. ASSUME NEW u \in Users, SendNext(u)
      PROVE  Provenance'
  BY <1>3, SendNextKeepsProvenance
<1>4. ASSUME NEW u \in Users, FinishSummary(u)
      PROVE  Provenance'
  BY <1>4, FinishSummaryKeepsProvenance
<1>5. ASSUME NEW u \in Users, Forward(u)
      PROVE  Provenance'
  BY <1>5, ForwardKeepsProvenance
<1>6. ASSUME NEW u \in Users, Listen(u)
      PROVE  Provenance'
  BY <1>6, ListenKeepsProvenance
<1>7. ASSUME NEW u \in Users,
             \/ SendLoop(u) \/ NextAddressee(u) \/ SendTo(u)
             \/ LeaveGame(u) \/ RemoveLoop(u) \/ RemoveNext(u)
      PROVE  Provenance'
  BY <1>7, GoingOnKeepsProvenance
<1>8. CASE UNCHANGED vars
  <2>1. PlainReporters' = PlainReporters
    BY <1>8, ReportersStay DEF vars, clientVars
  <2>. QED BY <1>8, <2>1 DEF vars, clientVars, serverVars, Provenance, Typed, OfUsers,
                            TextsAreReports, BodiesAreReports, CrashesHaveACause
<1>. QED BY <1>1, <1>2, <1>3, <1>4, <1>5, <1>6, <1>7, <1>8 DEF Next

(* Provenance, for every report file and every interleaving: whatever the files contain, a
   body that server and clients take for one of user w was written by w's own report
   command and begins with w's line, and no client crashes without a cause. *)
THEOREM ProvenanceAlways == Spec => []Provenance
BY InitProvenance, ServingAlways, NextKeepsProvenance, PTL DEF Spec

(* The stored bodies have the type that TypeOK asks for. *)
LEMMA KeptTexts ==
  ASSUME Provenance, NEW u \in Users
  PROVE  gameNameUserNameToFramesList[u] \in
           [DOMAIN gameNameUserNameToFramesList[u] -> Seq(Texts) \ {<<>>}]
<1>. DEFINE stored == gameNameUserNameToFramesList[u]
<1>1. /\ stored = [key \in DOMAIN stored |-> stored[key]]
      /\ \A key \in DOMAIN stored : stored[key] \in Seq(Bodies(u, key, PlainReporters)) \ {<<>>}
  BY DEF Provenance, BodiesAreReports, Kept
<1>. HIDE DEF stored
<1>2. \A key : Bodies(u, key, PlainReporters) \subseteq Texts
  BY DEF Bodies
<1>3. \A key \in DOMAIN stored : stored[key] \in Seq(Texts) \ {<<>>}
  BY <1>1, <1>2, SeqOfMore
<1>4. stored \in [DOMAIN stored -> Seq(Texts) \ {<<>>}]
  BY <1>1, <1>3
<1>. QED BY <1>4 DEF stored

(* Every variable of the report path has its type in every reachable state. *)
THEOREM TypeCorrect == Spec => []TypeOK
<1>1. Serving /\ Provenance => TypeOK
  <2>. SUFFICES ASSUME Serving, Provenance PROVE TypeOK
    OBVIOUS
  <2>1. \A u \in Users : ServerTexts(u, PlainReporters) \subseteq Texts
         /\ ClientTexts(u, PlainReporters) \subseteq Texts
    BY DEF ServerTexts, ClientTexts
  <2>2. \A u \in Users : framesAsStringsQ[u] \in Seq(Texts) /\ toServer[u] \in Seq(Texts)
         /\ toClient[u] \in Seq(Texts)
    BY <2>1, SeqOfMore DEF Provenance, TextsAreReports
  <2>3. /\ framesAsStringsQ \in [Users -> Seq(Texts)] /\ toServer \in [Users -> Seq(Texts)]
        /\ toClient \in [Users -> Seq(Texts)]
    BY <2>2 DEF Provenance, Typed, OfUsers
  <2>4. channelToConnectionIdsList \in [Games -> Seq(Users)]
    BY DEF Serving, ListsKept
  <2>5. ASSUME NEW u \in Users
        PROVE  /\ ~At(u, "read") => open[u]
               /\ thread[u].at \in {"send_next", "remove_next"} /\ ~thread[u].stale => HasNext(u)
               /\ At(u, "send_to") => thread[u].addressee \in Users
    <3>1. /\ thread[u].at # "read" => open[u] /\ AtWork(u, thread[u])
          /\ Iterates(thread[u], channelToConnectionIdsList)
      BY DEF Serving, ThreadsKept
    <3>2. thread[u].at = "send_to" => thread[u].addressee \in Users
      BY DEF Serving, ThreadsKept, AtWork
    <3>. QED BY <3>1, <3>2 DEF At, Iterates, HasNext, IdsList
  <2>. QED BY <2>3, <2>4, <2>5, KeptTexts DEF Provenance, Typed, TypeOK
<1>. QED BY <1>1, ServingAlways, ProvenanceAlways, PTL

(* A client whose user reports plain files, and whose games only such users have joined, is
   never ended by an exception: neither report, processFromServer nor summary throws. *)
THEOREM PlainReportsDoNoHarm == Spec => []PlainReportsAreHarmless
<1>1. Provenance => PlainReportsAreHarmless
  BY DEF Provenance, CrashesHaveACause, Harmless, PlainReporters, PlainReportsAreHarmless
<1>. QED BY <1>1, ProvenanceAlways, PTL

-------------------------------------------------------------------------------
(* The way of the reports, and what is still on it. *)

(* A queue carries the told things from lo + 1 to hi, in order, and others among them.
   The count at a place in the queue is what has been told up to there. *)
Counting(f, q, others, telling) ==
  \A j \in 1 .. Len(q) :
    \/ q[j] \in others /\ f[j] = f[j - 1]
    \/ f[j] = f[j - 1] + 1 /\ f[j] \in DOMAIN telling /\ q[j] \in telling[f[j]]

Carries(q, others, telling, lo, hi) ==
  \E f \in [0 .. Len(q) -> Nat] :
    f[0] = lo /\ f[Len(q)] = hi /\ Counting(f, q, others, telling)

(* An empty queue carries nothing. *)
LEMMA CarriesNothing ==
  ASSUME NEW others, NEW telling, NEW lo \in Nat
  PROVE  /\ Carries(<<>>, others, telling, lo, lo)
         /\ \A hi : Carries(<<>>, others, telling, lo, hi) => hi = lo
<1>1. Len(<<>>) = 0 /\ 1 .. 0 = {}
  OBVIOUS
<1>. DEFINE f == [i \in 0 .. 0 |-> lo]
<1>2. f \in [0 .. 0 -> Nat] /\ f[0] = lo
  OBVIOUS
<1>. HIDE DEF f
<1>3. Counting(f, <<>>, others, telling)
  BY <1>1 DEF Counting
<1>. QED BY <1>1, <1>2, <1>3 DEF Carries

(* One more text at the end of the queue *)
LEMMA CarriesAppended ==
  ASSUME NEW S, NEW q \in Seq(S), NEW x \in S, NEW others, NEW telling, NEW lo \in Nat, NEW hi \in Nat,
         Carries(q, others, telling, lo, hi), NEW n \in Nat,
         \/ x \in others /\ n = hi
         \/ n = hi + 1 /\ n \in DOMAIN telling /\ x \in telling[n]
  PROVE  Carries(Append(q, x), others, telling, lo, n)
<1>. DEFINE l == Len(q)
            r == Append(q, x)
<1>1. /\ l \in Nat /\ Len(r) = l + 1 /\ r[l + 1] = x /\ \A i \in 1 .. l : r[i] = q[i]
  BY AppendIs
<1>2. PICK f \in [0 .. l -> Nat] : f[0] = lo /\ f[l] = hi /\ Counting(f, q, others, telling)
  BY DEF Carries
<1>. HIDE DEF r
<1>21. \A j \in 1 .. l :
    \/ q[j] \in others /\ f[j] = f[j - 1]
    \/ f[j] = f[j - 1] + 1 /\ f[j] \in DOMAIN telling /\ q[j] \in telling[f[j]]
  BY <1>2 DEF Counting
<1>. HIDE DEF l
<1>. DEFINE g == [i \in 0 .. l + 1 |-> IF i = l + 1 THEN n ELSE f[i]]
<1>3. /\ g \in [0 .. l + 1 -> Nat] /\ g[0] = lo /\ g[l + 1] = n
      /\ \A i \in 0 .. l : g[i] = f[i]
  BY <1>1, <1>2
<1>. HIDE DEF g
<1>4. ASSUME NEW j \in 1 .. l + 1
      PROVE  \/ r[j] \in others /\ g[j] = g[j - 1]
             \/ g[j] = g[j - 1] + 1 /\ g[j] \in DOMAIN telling /\ r[j] \in telling[g[j]]
  <2>1. CASE j = l + 1
    <3>1. g[j] = n /\ g[j - 1] = hi /\ r[j] = x
      BY <1>1, <1>2, <1>3, <2>1
    <3>. QED BY <3>1
  <2>2. CASE j \in 1 .. l
    <3>1. g[j] = f[j] /\ g[j - 1] = f[j - 1] /\ r[j] = q[j]
      BY <1>1, <1>3, <2>2
    <3>. QED BY <1>21, <2>2, <3>1
  <2>3. j \in 1 .. l \/ j = l + 1
    BY <1>1
  <2>. QED BY <2>1, <2>2, <2>3
<1>5. Counting(g, r, others, telling)
  BY <1>1, <1>4 DEF Counting
<1>6. Carries(r, others, telling, lo, n)
  BY <1>1, <1>3, <1>5 DEF Carries
<1>. QED BY <1>6 DEF r

(* Positions in a queue without its first element *)
LEMMA TailIs ==
  ASSUME NEW S, NEW q \in Seq(S), q # <<>>
  PROVE  /\ Tail(q) \in Seq(S) /\ Len(q) \in Nat \ {0} /\ Len(Tail(q)) = Len(q) - 1
         /\ Head(q) = q[1] /\ Head(q) \in S
         /\ \A i \in 1 .. Len(q) - 1 : Tail(q)[i] = q[i + 1]
OBVIOUS

(* The text at the head of the queue *)
LEMMA CarriesTail ==
  ASSUME NEW S, NEW q \in Seq(S), q # <<>>, NEW others, NEW telling, NEW lo \in Nat, NEW hi,
         Carries(q, others, telling, lo, hi)
  PROVE  \/ Head(q) \in others /\ Carries(Tail(q), others, telling, lo, hi)
         \/ /\ lo + 1 \in DOMAIN telling /\ Head(q) \in telling[lo + 1]
            /\ Carries(Tail(q), others, telling, lo + 1, hi)
<1>. DEFINE l == Len(q)
            r == Tail(q)
<1>1. /\ l \in Nat \ {0} /\ Len(r) = l - 1 /\ Head(q) = q[1] /\ \A i \in 1 .. l - 1 : r[i] = q[i + 1]
  BY TailIs
<1>2. PICK f \in [0 .. l -> Nat] : f[0] = lo /\ f[l] = hi /\ Counting(f, q, others, telling)
  BY DEF Carries
<1>3. \A j \in 1 .. l :
    \/ q[j] \in others /\ f[j] = f[j - 1]
    \/ f[j] = f[j - 1] + 1 /\ f[j] \in DOMAIN telling /\ q[j] \in telling[f[j]]
  BY <1>2 DEF Counting
<1>. HIDE DEF l, r
<1>. DEFINE g == [i \in 0 .. l - 1 |-> f[i + 1]]
<1>4. /\ g \in [0 .. l - 1 -> Nat] /\ g[l - 1] = hi /\ g[0] = f[1]
      /\ \A i \in 0 .. l - 1 : g[i] = f[i + 1]
  BY <1>1, <1>2
<1>. HIDE DEF g
<1>5. ASSUME NEW j \in 1 .. l - 1
      PROVE  \/ r[j] \in others /\ g[j] = g[j - 1]
             \/ g[j] = g[j - 1] + 1 /\ g[j] \in DOMAIN telling /\ r[j] \in telling[g[j]]
  <2>. DEFINE k == j + 1
  <2>1. k \in 1 .. l /\ g[j] = f[k] /\ g[j - 1] = f[k - 1] /\ r[j] = q[k]
    BY <1>1, <1>4
  <2>. HIDE DEF k
  <2>. QED BY <1>3, <2>1
<1>6. Counting(g, r, others, telling)
  BY <1>1, <1>5 DEF Counting
<1>7. Carries(r, others, telling, f[1], hi)
  BY <1>1, <1>4, <1>6 DEF Carries
<1>8. \/ q[1] \in others /\ f[1] = lo
      \/ f[1] = lo + 1 /\ f[1] \in DOMAIN telling /\ q[1] \in telling[f[1]]
  <2>1. 1 \in 1 .. l /\ 1 - 1 = 0
    BY <1>1
  <2>. QED BY <1>2, <1>3, <2>1
<1>. QED BY <1>1, <1>7, <1>8 DEF r

(* More things told later change nothing of what a queue carries. *)
LEMMA CarriesStill ==
  ASSUME NEW q, NEW others, NEW telling, NEW more, NEW lo, NEW hi,
         Carries(q, others, telling, lo, hi),
         \A k \in DOMAIN telling : k \in DOMAIN more /\ more[k] = telling[k]
  PROVE  Carries(q, others, more, lo, hi)
<1>1. PICK f \in [0 .. Len(q) -> Nat] : f[0] = lo /\ f[Len(q)] = hi /\ Counting(f, q, others, telling)
  BY DEF Carries
<1>2. Counting(f, q, others, more)
  BY <1>1 DEF Counting
<1>. QED BY <1>1, <1>2 DEF Carries

(* A queue of the told things, one by one *)
LEMMA CarriesAll ==
  ASSUME NEW q, Len(q) \in Nat, NEW others, NEW telling, NEW lo \in Nat,
         \A j \in 1 .. Len(q) : lo + j \in DOMAIN telling /\ q[j] \in telling[lo + j]
  PROVE  Carries(q, others, telling, lo, lo + Len(q))
<1>. DEFINE l == Len(q)
            f == [j \in 0 .. l |-> lo + j]
<1>1. l \in Nat
  OBVIOUS
<1>. HIDE DEF l
<1>2. /\ f \in [0 .. l -> Nat] /\ f[0] = lo /\ f[l] = lo + l
      /\ \A j \in 1 .. l : f[j] = lo + j /\ f[j] = f[j - 1] + 1
  BY <1>1
<1>. HIDE DEF f
<1>3. Counting(f, q, others, telling)
  BY <1>2 DEF Counting, l
<1>. QED BY <1>2, <1>3 DEF Carries, l

(* A queue in which there is none *)
LEMMA CarriesOnlyOthers ==
  ASSUME NEW q, Len(q) \in Nat, NEW others, NEW telling, NEW lo \in Nat,
         \A j \in 1 .. Len(q) : q[j] \in others
  PROVE  Carries(q, others, telling, lo, lo)
<1>. DEFINE l == Len(q)
            f == [j \in 0 .. l |-> lo]
<1>1. l \in Nat
  OBVIOUS
<1>. HIDE DEF l
<1>2. /\ f \in [0 .. l -> Nat] /\ f[0] = lo /\ f[l] = lo
      /\ \A j \in 1 .. l : f[j] = f[j - 1]
  BY <1>1
<1>. HIDE DEF f
<1>3. Counting(f, q, others, telling)
  BY <1>2 DEF Counting, l
<1>. QED BY <1>2, <1>3 DEF Carries, l

(* The events of files on one game, one file behind the other *)
OnGame(game, files) == FlattenSeq([i \in DOMAIN files |-> EventsOn[game][files[i]]])

(* Events of a plain file, and those of them that are on a game *)
LEMMA EventsInSeq ==
  ASSUME NEW file \in PlainFiles
  PROVE  Events(Files[file]) \in Seq(PlainEvents)
<1>. DEFINE data == Files[file]
            j == Member(data, <<"events">>)
            e == JsonElements(j)
<1>1. Events(data) = e
  BY DEF Events
<1>2. IsList(Events(data)) /\ \A i \in DOMAIN Events(data) : Events(data)[i] \in PlainEvents
  BY PlainFileParsed
<1>3. IsEvents(j)
  <2>1. file \in DOMAIN Files /\ Plain(data)
    BY DEF PlainFiles
  <2>2. IsFile(data) /\ HasMembers(data)
    BY <2>1, FilesAssumption DEF Plain, HasMembers
  <2>. QED BY <2>2, MemberOfFile
<1>4. e = [i \in DOMAIN e |-> e[i]]
  <2>1. CASE j.type = "array"
    <3>1. j.elements = [i \in DOMAIN j.elements |-> j.elements[i]]
      BY <1>3, <2>1 DEF IsEvents, IsJson
    <3>. QED BY <2>1, <3>1 DEF JsonElements
  <2>2. CASE j.type = "object"
    BY <2>2 DEF JsonElements
  <2>3. CASE j.type = "null"
    <3>1. e = <<>>
      BY <2>3 DEF JsonElements
    <3>2. << >> = [i \in DOMAIN << >> |-> << >>[i]]
      OBVIOUS
    <3>. QED BY <3>1, <3>2
  <2>4. CASE j.type \notin {"array", "object", "null"}
    <3>1. e = <<j>>
      BY <2>4 DEF JsonElements
    <3>2. \A x : <<x>> = [i \in DOMAIN <<x>> |-> <<x>>[i]]
      OBVIOUS
    <3>. QED BY <3>1, <3>2
  <2>. QED BY <2>1, <2>2, <2>3, <2>4
<1>. HIDE DEF e, data
<1>. QED BY <1>1, <1>2, <1>4, ListInSeq DEF data

LEMMA EventsOnIs ==
  ASSUME NEW v \in Users, NEW game \in Joined[v], NEW file \in PlainFiles
  PROVE  /\ EventsOn[game][file] = IF GameOf(Files[file]) = game THEN Events(Files[file]) ELSE <<>>
         /\ EventsOn[game][file] \in Seq(PlainEvents)
<1>1. file \in DOMAIN Files
  BY DEF PlainFiles
<1>2. game \in Games
  BY JoinedAreGames
<1>3. EventsOn[game][file] = IF GameOf(Files[file]) = game THEN Events(Files[file]) ELSE <<>>
  BY <1>1, <1>2 DEF EventsOn
<1>4. <<>> \in Seq(PlainEvents)
  OBVIOUS
<1>. QED BY <1>3, <1>4, EventsInSeq

(* One more file appends its events. *)
LEMMA OnGameMore ==
  ASSUME NEW v \in Users, NEW game \in Joined[v], NEW files \in Seq(PlainFiles)
  PROVE  /\ OnGame(game, files) \in Seq(PlainEvents)
         /\ \A file \in PlainFiles :
              OnGame(game, Append(files, file)) = OnGame(game, files) \o EventsOn[game][file]
<1>. DEFINE on(file) == EventsOn[game][file]
            each(s) == [i \in DOMAIN s |-> on(s[i])]
            S == Seq(PlainEvents)
<1>1. \A file \in PlainFiles : on(file) \in S
  BY EventsOnIs
<1>2. \A s : OnGame(game, s) = FlattenSeq(each(s))
  BY DEF OnGame
<1>. HIDE DEF on, S
<1>3. each(files) \in Seq(S)
  BY <1>1
<1>4. \A file \in PlainFiles : each(Append(files, file)) = Append(each(files), on(file))
  BY <1>1
<1>. HIDE DEF each
<1>5. FlattenSeq(each(files)) \in Seq(PlainEvents)
  BY <1>3, FlattenMore DEF S
<1>6. ASSUME NEW file \in PlainFiles
      PROVE  OnGame(game, Append(files, file)) = OnGame(game, files) \o on(file)
  <2>1. on(file) \in Seq(PlainEvents) /\ each(files) \in Seq(Seq(PlainEvents))
    BY <1>1, <1>3 DEF S
  <2>2. FlattenSeq(Append(each(files), on(file))) = FlattenSeq(each(files)) \o on(file)
    BY <2>1, FlattenMore
  <2>. QED BY <1>2, <1>4, <2>2
<1>. QED BY <1>2, <1>5, <1>6 DEF on

(* One who reports plainly has reported plain files only. *)
LEMMA PlainlyReported ==
  ASSUME Typed, NEW w \in Users, ReportsPlainly(w)
  PROVE  reported[w] \in Seq(PlainFiles)
<1>. DEFINE q == reported[w]
            n == Len(q)
<1>1. q \in Seq(DOMAIN Files)
  BY DEF Typed
<1>2. \A i \in DOMAIN q : q[i] \in PlainFiles
  BY DEF ReportsPlainly, ToSet
<1>. HIDE DEF q
<1>3. n \in Nat /\ q \in [1 .. n -> DOMAIN Files]
  BY <1>1
<1>. HIDE DEF n
<1>4. q \in [1 .. n -> PlainFiles]
  BY <1>2, <1>3
<1>5. q \in Seq(PlainFiles)
  BY <1>3, <1>4
<1>. QED BY <1>5 DEF q

-----------------------------------------------------------------------------
(* The texts of user w's reports on a game on their way to the server, in the order of
   the events, and the texts on the same way that are about another game *)
Sent(w, game, events) ==
  [k \in DOMAIN events |-> {t \in Texts : PlainlyRead(extractFrame(t), w, game, events[k])}]

NotOn(game) == {t \in Texts : extractFrame(t).headers[<<"destination">>] # game}

(* and those on the way from the server, with those not from w or about another game *)
Message(f, w, game) ==
  /\ f.command = <<"MESSAGE">> /\ f.headers[<<"destination">>] = game
  /\ SenderOf(f.body) = w

Forwarded(w, game, events) ==
  [k \in DOMAIN events |->
     {t \in Texts : LET f == stringToFrameFromServer(t) IN
                    Message(f, w, game) /\ BodyTells(f.body, w, game, events[k])}]

NotFrom(w, game) == {t \in Texts : ~Message(stringToFrameFromServer(t), w, game)}

(* What is not on the list of the game any more, or has no connection, gets no message. *)
Shown(v, game) == open[v] /\ v \in ToSet(channelToConnectionIdsList[game])

(* Whether v's turn in the loop over the list is yet to come, *)
Awaits(t, list, v) ==
  \/ t.at = "send_to" /\ t.addressee = v
  \/ \E k \in t.next .. Len(list) : list[k] = v

(* and what the thread that sends holds for v then *)
Held(t, game, list, v) ==
  IF t.at \in Sending /\ t.game = game /\ Awaits(t, list, v) THEN <<t.message>> ELSE <<>>

HeldFor(v, w, game) == Held(thread[w], game, channelToConnectionIdsList[game], v)

(* What v has stored of w's reports on a game are the first ones, and the others are on
   their way one behind the other: to v, with the thread that sends one on, to the
   server, and in w's client.  What has left the server while v's connection was closed is
   missing. *)
OnTheWay(heard, shown, served, client, held, server, frames, w, game, events, n) ==
  \E a, b, c \in Nat :
    /\ heard => Carries(client, NotFrom(w, game), Forwarded(w, game, events), n, a)
    /\ served =>
         /\ shown => Carries(held, NotFrom(w, game), Forwarded(w, game, events), a, b)
         /\ Carries(server, NotOn(game), Sent(w, game, events), b, c)
         /\ Carries(frames, NotOn(game), Sent(w, game, events), c, Len(events))

LEMMA WayDomains ==
  ASSUME NEW w, NEW game, NEW events
  PROVE  DOMAIN Sent(w, game, events) = DOMAIN events
          /\ DOMAIN Forwarded(w, game, events) = DOMAIN events
BY DEF Sent, Forwarded

(* Less is asked of the way when fewer are listening. *)
LEMMA WayEnds ==
  ASSUME NEW heard, NEW shown, NEW served, NEW client, NEW held, NEW server, NEW frames,
         NEW w, NEW game, NEW events, NEW n,
         OnTheWay(heard, shown, served, client, held, server, frames, w, game, events, n),
         NEW heard2, NEW shown2, NEW served2, NEW client2, NEW held2, NEW server2,
         heard2 => heard /\ client2 = client, shown2 => shown,
         served2 => served /\ (shown2 => held2 = held) /\ server2 = server
  PROVE  OnTheWay(heard2, shown2, served2, client2, held2, server2, frames, w, game, events, n)
<1>. DEFINE not == NotFrom(w, game)
            from == Forwarded(w, game, events)
            no == NotOn(game)
            to == Sent(w, game, events)
<1>1. PICK a \in Nat, b \in Nat, c \in Nat :
        /\ heard => Carries(client, not, from, n, a)
        /\ served => /\ shown => Carries(held, not, from, a, b)
                     /\ Carries(server, no, to, b, c)
                     /\ Carries(frames, no, to, c, Len(events))
  BY DEF OnTheWay
<1>. HIDE DEF not, from, no, to
<1>2. heard2 => Carries(client2, not, from, n, a)
  BY <1>1
<1>3. served2 => /\ shown2 => Carries(held2, not, from, a, b)
                 /\ Carries(server2, no, to, b, c)
                 /\ Carries(frames, no, to, c, Len(events))
  BY <1>1
<1>. QED BY <1>2, <1>3 DEF OnTheWay, not, from, no, to

(* The socket thread moves a text from the client's queue to the connection. *)
LEMMA WaySent ==
  ASSUME NEW heard, NEW shown, NEW served, NEW client, NEW held, NEW server, NEW frames,
         NEW w, NEW game, NEW events, NEW n,
         OnTheWay(heard, shown, served, client, held, server, frames, w, game, events, n),
         NEW S, server \in Seq(S), frames \in Seq(S), frames # <<>>,
         NEW server2, served => server2 = Append(server, Head(frames)), Len(events) \in Nat
  PROVE  OnTheWay(heard, shown, served, client, held, server2, Tail(frames), w, game, events, n)
<1>. DEFINE t == Head(frames)
            to == Sent(w, game, events)
            no == NotOn(game)
<1>1. PICK a \in Nat, b \in Nat, c \in Nat :
        /\ heard => Carries(client, NotFrom(w, game), Forwarded(w, game, events), n, a)
        /\ served =>
             /\ shown => Carries(held, NotFrom(w, game), Forwarded(w, game, events), a, b)
             /\ Carries(server, no, to, b, c)
             /\ Carries(frames, no, to, c, Len(events))
  BY DEF OnTheWay
<1>2. CASE ~served
  BY <1>1, <1>2 DEF OnTheWay
<1>3. CASE served
  <2>. HIDE DEF to, no
  <2>1. t \in S
    BY HeadAndTail
  <2>2. \/ t \in no /\ Carries(Tail(frames), no, to, c, Len(events))
        \/ /\ c + 1 \in DOMAIN to /\ t \in to[c + 1]
           /\ Carries(Tail(frames), no, to, c + 1, Len(events))
    BY <1>1, <1>3, CarriesTail
  <2>. HIDE DEF t
  <2>3. CASE t \in no /\ Carries(Tail(frames), no, to, c, Len(events))
    <3>1. Carries(Append(server, t), no, to, b, c)
      BY <1>1, <1>3, <2>1, <2>3, CarriesAppended
    <3>. QED BY <1>1, <1>3, <2>3, <3>1 DEF OnTheWay, to, no, t
  <2>4. CASE c + 1 \in DOMAIN to /\ t \in to[c + 1] /\ Carries(Tail(frames), no, to, c + 1, Len(events))
    <3>. DEFINE d == c + 1
    <3>1. d \in Nat
      OBVIOUS
    <3>2. Carries(Append(server, t), no, to, b, d)
      BY <1>1, <1>3, <2>1, <2>4, <3>1, CarriesAppended
    <3>. HIDE DEF d
    <3>3. Carries(Tail(frames), no, to, d, Len(events))
      BY <2>4 DEF d
    <3>. QED BY <1>1, <1>3, <3>1, <3>2, <3>3 DEF OnTheWay, to, no, t
  <2>. QED BY <2>2, <2>3, <2>4
<1>. QED BY <1>2, <1>3

(* A text to v that is not w's on the game *)
LEMMA WayOfOther ==
  ASSUME NEW heard, NEW shown, NEW served, NEW client, NEW held, NEW server, NEW frames,
         NEW w, NEW game, NEW events, NEW n \in Nat,
         OnTheWay(heard, shown, served, client, held, server, frames, w, game, events, n),
         NEW t \in NotFrom(w, game), client \in Seq(Texts)
  PROVE  OnTheWay(heard, shown, served, Append(client, t), held, server, frames, w, game, events, n)
<1>. DEFINE not == NotFrom(w, game)
            from == Forwarded(w, game, events)
            no == NotOn(game)
            to == Sent(w, game, events)
<1>1. PICK a \in Nat, b \in Nat, c \in Nat :
        /\ heard => Carries(client, not, from, n, a)
        /\ served => /\ shown => Carries(held, not, from, a, b)
                     /\ Carries(server, no, to, b, c)
                     /\ Carries(frames, no, to, c, Len(events))
  BY DEF OnTheWay
<1>2. t \in Texts /\ t \in not
  BY DEF NotFrom
<1>. HIDE DEF not, from, no, to
<1>3. heard => Carries(Append(client, t), not, from, n, a)
  BY <1>1, <1>2, CarriesAppended
<1>. QED BY <1>1, <1>3 DEF OnTheWay, not, from, no, to

(* The server takes w's next text, and holds it for v if it is on the game. *)
LEMMA WayServed ==
  ASSUME NEW heard, NEW shown, NEW served, NEW client, NEW server, NEW frames, NEW w, NEW game,
         NEW events, NEW n \in Nat,
         OnTheWay(heard, shown, served, client, <<>>, server, frames, w, game, events, n), served,
         server \in Seq(Texts), server # <<>>, NEW held,
         Head(server) \in NotOn(game) => held = <<>>,
         \A k \in DOMAIN events : shown /\ Head(server) \in Sent(w, game, events)[k] =>
           \E t \in Forwarded(w, game, events)[k] : held = <<t>>
  PROVE  OnTheWay(heard, shown, served, client, held, Tail(server), frames, w, game, events, n)
<1>. DEFINE s == Head(server)
            to == Sent(w, game, events)
            no == NotOn(game)
            from == Forwarded(w, game, events)
            not == NotFrom(w, game)
<1>1. PICK a \in Nat, b \in Nat, c \in Nat :
        /\ heard => Carries(client, not, from, n, a)
        /\ shown => Carries(<<>>, not, from, a, b)
        /\ Carries(server, no, to, b, c)
        /\ Carries(frames, no, to, c, Len(events))
  BY DEF OnTheWay
<1>2. DOMAIN to = DOMAIN events /\ DOMAIN from = DOMAIN events
  BY WayDomains
<1>3. \A k \in DOMAIN events : from[k] \subseteq Texts
  BY DEF Forwarded
<1>4. /\ s \in no => held = <<>>
      /\ \A k \in DOMAIN events : shown /\ s \in to[k] => \E t \in from[k] : held = <<t>>
  OBVIOUS
<1>. HIDE DEF to, no, from, not
<1>5. \/ s \in no /\ Carries(Tail(server), no, to, b, c)
      \/ b + 1 \in DOMAIN to /\ s \in to[b + 1] /\ Carries(Tail(server), no, to, b + 1, c)
  BY <1>1, CarriesTail
<1>. HIDE DEF s
<1>6. CASE s \in no /\ Carries(Tail(server), no, to, b, c)
  BY <1>1, <1>4, <1>6 DEF OnTheWay, to, no, from, not
<1>7. CASE b + 1 \in DOMAIN to /\ s \in to[b + 1] /\ Carries(Tail(server), no, to, b + 1, c)
  <2>. DEFINE d == b + 1
  <2>1. d \in Nat /\ d = b + 1 /\ d \in DOMAIN events /\ Carries(Tail(server), no, to, d, c)
         /\ s \in to[d]
    BY <1>2, <1>7
  <2>. HIDE DEF d
  <2>2. shown => Carries(held, not, from, a, d)
    <3>. SUFFICES ASSUME shown PROVE Carries(held, not, from, a, d)
      OBVIOUS
    <3>1. PICK t \in from[d] : held = <<t>>
      BY <1>4, <2>1
    <3>2. a = b
      BY <1>1, CarriesNothing
    <3>3. t \in Texts /\ d \in DOMAIN from /\ <<t>> = Append(<<>>, t) /\ <<>> \in Seq(Texts)
      BY <1>2, <1>3, <2>1, <3>1
    <3>4. Carries(<<>>, not, from, a, b)
      BY <1>1
    <3>5. Carries(Append(<<>>, t), not, from, a, d)
      BY <2>1, <3>1, <3>3, <3>4, CarriesAppended
    <3>. QED BY <3>1, <3>3, <3>5
  <2>. QED BY <1>1, <2>1, <2>2 DEF OnTheWay, to, no, from, not
<1>. QED BY <1>5, <1>6, <1>7

(* The thread that sends reaches v. *)
LEMMA WayReached ==
  ASSUME NEW heard, NEW shown, NEW served, NEW client, NEW t \in Texts, NEW server, NEW frames,
         NEW w, NEW game, NEW events, NEW n \in Nat,
         OnTheWay(heard, shown, served, client, <<t>>, server, frames, w, game, events, n),
         shown, served, client \in Seq(Texts)
  PROVE  OnTheWay(heard, shown, served, Append(client, t), <<>>, server, frames, w, game, events, n)
<1>. DEFINE to == Sent(w, game, events)
            no == NotOn(game)
            from == Forwarded(w, game, events)
            not == NotFrom(w, game)
<1>1. PICK a \in Nat, b \in Nat, c \in Nat :
        /\ heard => Carries(client, not, from, n, a)
        /\ Carries(<<t>>, not, from, a, b)
        /\ Carries(server, no, to, b, c)
        /\ Carries(frames, no, to, c, Len(events))
  BY DEF OnTheWay
<1>. HIDE DEF to, no, from, not
<1>2. <<t>> \in Seq(Texts) /\ <<t>> # <<>> /\ Head(<<t>>) = t /\ Tail(<<t>>) = <<>>
  OBVIOUS
<1>3. \/ t \in not /\ Carries(<<>>, not, from, a, b)
      \/ a + 1 \in DOMAIN from /\ t \in from[a + 1] /\ Carries(<<>>, not, from, a + 1, b)
  <2>. DEFINE q == <<t>>
  <2>1. q \in Seq(Texts) /\ q # <<>> /\ Carries(q, not, from, a, b) /\ Head(q) = t /\ Tail(q) = <<>>
    BY <1>1, <1>2
  <2>. HIDE DEF q
  <2>. QED BY <2>1, CarriesTail
<1>4. a + 1 \in Nat
  OBVIOUS
<1>5. \/ t \in not /\ b = a
      \/ b = a + 1 /\ b \in DOMAIN from /\ t \in from[b]
  BY <1>3, <1>4, CarriesNothing
<1>6. heard => Carries(Append(client, t), not, from, n, b)
  BY <1>1, <1>5, CarriesAppended
<1>7. Carries(<<>>, not, from, b, b)
  BY CarriesNothing
<1>. QED BY <1>1, <1>6, <1>7 DEF OnTheWay, to, no, from, not

(* The client takes the next text from the server. *)
LEMMA WayHeard ==
  ASSUME NEW shown, NEW served, NEW client, NEW held, NEW server, NEW frames, NEW w, NEW game,
         NEW events, NEW n \in Nat,
         OnTheWay(TRUE, shown, served, client, held, server, frames, w, game, events, n),
         NEW S, client \in Seq(S), client # <<>>
  PROVE  \/ /\ Head(client) \in NotFrom(w, game)
            /\ OnTheWay(TRUE, shown, served, Tail(client), held, server, frames, w, game, events, n)
         \/ /\ n + 1 \in DOMAIN events /\ Head(client) \in Forwarded(w, game, events)[n + 1]
            /\ OnTheWay(TRUE, shown, served, Tail(client), held, server, frames, w, game, events,
                        n + 1)
<1>. DEFINE from == Forwarded(w, game, events)
            not == NotFrom(w, game)
<1>1. PICK a \in Nat, b \in Nat, c \in Nat :
        /\ Carries(client, not, from, n, a)
        /\ served =>
             /\ shown => Carries(held, not, from, a, b)
             /\ Carries(server, NotOn(game), Sent(w, game, events), b, c)
             /\ Carries(frames, NotOn(game), Sent(w, game, events), c, Len(events))
  BY DEF OnTheWay
<1>2. DOMAIN from = DOMAIN events
  BY WayDomains
<1>. HIDE DEF from, not
<1>3. \/ Head(client) \in not /\ Carries(Tail(client), not, from, n, a)
      \/ /\ n + 1 \in DOMAIN from /\ Head(client) \in from[n + 1]
         /\ Carries(Tail(client), not, from, n + 1, a)
  BY <1>1, CarriesTail
<1>. QED BY <1>1, <1>2, <1>3 DEF OnTheWay, from, not

(* A report command fills w's queue, which was empty. *)
LEMMA WayReported ==
  ASSUME NEW S, NEW heard, NEW shown, NEW served, NEW client, NEW held, NEW server, NEW w, NEW game,
         NEW events \in Seq(S), NEW n \in Nat,
         OnTheWay(heard, shown, served, client, held, server, <<>>, w, game, events, n),
         NEW more \in Seq(S), NEW frames \in Seq(Texts),
         \/ more = <<>> /\ \A i \in 1 .. Len(frames) : frames[i] \in NotOn(game)
         \/ /\ Len(frames) = Len(more)
            /\ \A i \in 1 .. Len(frames) :
                 PlainlyRead(extractFrame(frames[i]), w, game, more[i])
  PROVE  OnTheWay(heard, shown, served, client, held, server, frames, w, game, events \o more, n)
<1>. DEFINE all == events \o more
            l == Len(events)
            m == Len(frames)
<1>1. PICK a \in Nat, b \in Nat, c \in Nat :
        /\ heard => Carries(client, NotFrom(w, game), Forwarded(w, game, events), n, a)
        /\ served =>
             /\ shown => Carries(held, NotFrom(w, game), Forwarded(w, game, events), a, b)
             /\ Carries(server, NotOn(game), Sent(w, game, events), b, c)
             /\ Carries(<<>>, NotOn(game), Sent(w, game, events), c, l)
  BY DEF OnTheWay
<1>2. /\ l \in Nat /\ m \in Nat /\ Len(more) \in Nat /\ Len(all) = l + Len(more)
      /\ DOMAIN events = 1 .. l /\ DOMAIN all = 1 .. l + Len(more)
      /\ \A k \in 1 .. l : all[k] = events[k]
      /\ \A i \in 1 .. Len(more) : all[l + i] = more[i]
  OBVIOUS
<1>3. \A i \in 1 .. m : frames[i] \in Texts
  OBVIOUS
<1>. DEFINE e == Len(more)
<1>4. e \in Nat
  BY <1>2
<1>. HIDE DEF all, l, m, e
<1>5. \A k \in DOMAIN events : k \in DOMAIN all /\ all[k] = events[k]
  BY <1>2, <1>4 DEF e
<1>6. /\ DOMAIN Sent(w, game, all) = DOMAIN all /\ DOMAIN Forwarded(w, game, all) = DOMAIN all
      /\ DOMAIN Sent(w, game, events) = DOMAIN events
      /\ DOMAIN Forwarded(w, game, events) = DOMAIN events
  BY WayDomains
<1>7. \A k \in DOMAIN events : /\ Sent(w, game, all)[k] = Sent(w, game, events)[k]
                               /\ Forwarded(w, game, all)[k] = Forwarded(w, game, events)[k]
  BY <1>5 DEF Sent, Forwarded
<1>8. /\ heard => Carries(client, NotFrom(w, game), Forwarded(w, game, all), n, a)
      /\ served => /\ shown => Carries(held, NotFrom(w, game), Forwarded(w, game, all), a, b)
                   /\ Carries(server, NotOn(game), Sent(w, game, all), b, c)
  BY <1>1, <1>5, <1>6, <1>7, CarriesStill
<1>9. served => c = l
  BY <1>1, <1>2, CarriesNothing
<1>10. served => Carries(frames, NotOn(game), Sent(w, game, all), l, Len(all))
  <2>1. CASE more = <<>> /\ \A i \in 1 .. m : frames[i] \in NotOn(game)
    <3>1. Len(all) = l
      <4>1. Len(more) = 0
        BY <2>1
      <4>. QED BY <1>2, <4>1
    <3>. QED BY <1>2, <2>1, <3>1, CarriesOnlyOthers DEF m
  <2>2. CASE m = e /\ \A i \in 1 .. m : PlainlyRead(extractFrame(frames[i]), w, game, more[i])
    <3>1. \A i \in 1 .. m : /\ l + i \in DOMAIN all
                            /\ PlainlyRead(extractFrame(frames[i]), w, game, all[l + i])
      BY <1>2, <1>4, <2>2 DEF e
    <3>2. \A i \in 1 .. m : l + i \in DOMAIN Sent(w, game, all)
           /\ frames[i] \in Sent(w, game, all)[l + i]
      BY <1>3, <1>6, <3>1 DEF Sent
    <3>3. Carries(frames, NotOn(game), Sent(w, game, all), l, l + m)
      BY <1>2, <3>2, CarriesAll DEF m
    <3>4. Len(all) = l + m
      BY <1>2, <2>2 DEF e
    <3>. QED BY <3>3, <3>4
  <2>. QED BY <2>1, <2>2 DEF m, e
<1>. QED BY <1>1, <1>8, <1>9, <1>10 DEF OnTheWay, all

(* The bodies tell of the first events, in order. *)
TellFirst(bodies, w, game, events) ==
  /\ Len(bodies) \in Nat /\ Len(bodies) <= Len(events)
  /\ \A i \in 1 .. Len(bodies) : BodyTells(bodies[i], w, game, events[i])

(* What w has reported on the game is stored at v, or on its way to v. *)
Delivered(v, w, game) ==
  /\ TellFirst(StoredUnder(v, <<game, w>>), w, game, ReportedOn(w, game))
  /\ OnTheWay(Running(v), Shown(v, game), open[w], toClient[v], HeldFor(v, w, game), toServer[w],
              framesAsStringsQ[w], w, game, ReportedOn(w, game), Len(StoredUnder(v, <<game, w>>)))

(* The inductive invariant of the delivery, for those who report plainly, where no removal
   has met a report *)
Delivery ==
  \A v \in Users, w \in Users : \A game \in Joined[v] \cap Joined[w] :
    ReportsPlainly(w) /\ <<w, game>> \notin disturbed => Delivered(v, w, game)

(* The queues under the provenance invariant *)
LEMMA TextsOnTheWay ==
  ASSUME Provenance, NEW u \in Users
  PROVE  /\ framesAsStringsQ[u] \in Seq(ServerTexts(u, PlainReporters))
         /\ toServer[u] \in Seq(ServerTexts(u, PlainReporters))
         /\ toClient[u] \in Seq(ClientTexts(u, PlainReporters))
         /\ framesAsStringsQ[u] \in Seq(Texts) /\ toServer[u] \in Seq(Texts)
         /\ toClient[u] \in Seq(Texts)
<1>1. /\ framesAsStringsQ[u] \in Seq(ServerTexts(u, PlainReporters))
      /\ toServer[u] \in Seq(ServerTexts(u, PlainReporters))
      /\ toClient[u] \in Seq(ClientTexts(u, PlainReporters))
  BY DEF Provenance, TextsAreReports
<1>2. ServerTexts(u, PlainReporters) \subseteq Texts /\ ClientTexts(u, PlainReporters) \subseteq Texts
  BY DEF ServerTexts, ClientTexts
<1>. QED BY <1>1, <1>2, SeqOfMore

(* The events that one who reports plainly has reported on a game *)
LEMMA ReportedEvents ==
  ASSUME Provenance, NEW w \in Users, NEW game \in Joined[w], ReportsPlainly(w)
  PROVE  /\ reported[w] \in Seq(PlainFiles)
         /\ ReportedOn(w, game) = OnGame(game, reported[w])
         /\ ReportedOn(w, game) \in Seq(PlainEvents) /\ Len(ReportedOn(w, game)) \in Nat
<1>1. reported[w] \in Seq(PlainFiles)
  BY PlainlyReported DEF Provenance
<1>2. ReportedOn(w, game) = OnGame(game, reported[w])
  BY DEF ReportedOn, OnGame
<1>3. OnGame(game, reported[w]) \in Seq(PlainEvents)
  BY <1>1, OnGameMore
<1>4. \A S : \A q \in Seq(S) : Len(q) \in Nat
  BY ONLY LenProperties
<1>. QED BY <1>1, <1>2, <1>3, <1>4

(* A concatenation begins with its first part. *)
LEMMA LongerConcat ==
  ASSUME NEW S, NEW p \in Seq(S), NEW q \in Seq(S)
  PROVE  /\ Len(p) \in Nat /\ Len(q) \in Nat /\ Len(p \o q) = Len(p) + Len(q)
         /\ \A i \in 1 .. Len(p) : (p \o q)[i] = p[i]
OBVIOUS

(* More events reported later change nothing of the first ones. *)
LEMMA TellFirstStill ==
  ASSUME NEW S, NEW events \in Seq(S), NEW more \in Seq(S), NEW w, NEW game, NEW bodies,
         TellFirst(bodies, w, game, events)
  PROVE  TellFirst(bodies, w, game, events \o more)
<1>. DEFINE all == events \o more
            n == Len(bodies)
            l == Len(events)
<1>1. /\ l \in Nat /\ Len(more) \in Nat /\ Len(all) = l + Len(more)
      /\ \A i \in 1 .. l : all[i] = events[i]
  BY LongerConcat
<1>2. n \in Nat /\ n <= l /\ \A i \in 1 .. n : BodyTells(bodies[i], w, game, events[i])
  BY DEF TellFirst
<1>. HIDE DEF all, n, l
<1>3. n <= Len(all) /\ \A i \in 1 .. n : all[i] = events[i]
  BY <1>1, <1>2
<1>. QED BY <1>2, <1>3 DEF TellFirst, n, all

(* A thread that does not send on the game holds nothing. *)
LEMMA NotHeld ==
  ASSUME NEW t, NEW game, t.at \notin Sending \/ t.game # game, NEW list, NEW v
  PROVE  Held(t, game, list, v) = <<>>
BY DEF Held

(* Nothing is reported, stored or on its way at the start. *)
LEMMA InitDelivery == Init => Delivery
<1>. SUFFICES ASSUME Init, NEW v \in Users, NEW w \in Users, NEW game \in Joined[v] \cap Joined[w]
     PROVE  Delivered(v, w, game)
  BY DEF Delivery
<1>1. StoredUnder(v, <<game, w>>) = <<>>
  <2>1. gameNameUserNameToFramesList[v] = <<>> /\ DOMAIN << >> = {}
    BY DEF Init, Empty
  <2>. QED BY <2>1 DEF StoredUnder
<1>2. ReportedOn(w, game) = <<>>
  <2>1. reported[w] = <<>>
    BY DEF Init
  <2>2. [i \in DOMAIN << >> |-> EventsOn[game][<< >>[i]]] = <<>>
    OBVIOUS
  <2>. QED BY <2>1, <2>2, FlattenNone DEF ReportedOn
<1>3. Len(<<>>) = 0 /\ 1 .. 0 = {} /\ 0 \in Nat
  OBVIOUS
<1>4. TellFirst(<<>>, w, game, <<>>)
  BY <1>3 DEF TellFirst
<1>5. toClient[v] = <<>> /\ toServer[w] = <<>> /\ framesAsStringsQ[w] = <<>>
  BY DEF Init
<1>6. /\ Carries(<<>>, NotFrom(w, game), Forwarded(w, game, <<>>), 0, 0)
      /\ Carries(<<>>, NotOn(game), Sent(w, game, <<>>), 0, 0)
  BY <1>3, CarriesNothing
<1>7. OnTheWay(Running(v), Shown(v, game), open[w], <<>>, <<>>, <<>>, <<>>, w, game, <<>>, 0)
  BY <1>3, <1>6 DEF OnTheWay
<1>8. HeldFor(v, w, game) = <<>>
  <2>1. thread[w].at = "read"
    BY ThreadAtStart DEF Init
  <2>. QED BY <2>1, NotHeld DEF HeldFor, Sending
<1>. QED BY <1>1, <1>2, <1>3, <1>4, <1>5, <1>7, <1>8 DEF Delivered

(* A step that takes nothing from the way and stores nothing *)
LEMMA DeliveryStill ==
  ASSUME Delivery,
         UNCHANGED <<framesAsStringsQ, toClient, gameNameUserNameToFramesList, reported>>,
         disturbed \subseteq disturbed',
         \A v \in Users : Running(v)' => Running(v),
         \A v, w \in Users : \A game \in Joined[v] \cap Joined[w] :
           <<w, game>> \notin disturbed' =>
             /\ Shown(v, game)' => Shown(v, game)
             /\ open'[w] => open[w] /\ HeldFor(v, w, game)' = HeldFor(v, w, game)
                                    /\ toServer'[w] = toServer[w]
  PROVE  Delivery'
<1>. SUFFICES ASSUME NEW v \in Users, NEW w \in Users, NEW game \in Joined[v] \cap Joined[w],
                     ReportsPlainly(w)', <<w, game>> \notin disturbed'
     PROVE  Delivered(v, w, game)'
  BY DEF Delivery
<1>1. ReportsPlainly(w) /\ <<w, game>> \notin disturbed
  BY DEF ReportsPlainly
<1>2. /\ TellFirst(StoredUnder(v, <<game, w>>), w, game, ReportedOn(w, game))
      /\ OnTheWay(Running(v), Shown(v, game), open[w], toClient[v], HeldFor(v, w, game), toServer[w],
                  framesAsStringsQ[w], w, game, ReportedOn(w, game), Len(StoredUnder(v, <<game, w>>)))
  BY <1>1 DEF Delivery, Delivered
<1>3. /\ StoredUnder(v, <<game, w>>)' = StoredUnder(v, <<game, w>>)
      /\ ReportedOn(w, game)' = ReportedOn(w, game)
  BY DEF StoredUnder, ReportedOn
<1>4. OnTheWay(Running(v)', Shown(v, game)', open'[w], toClient[v], HeldFor(v, w, game)', toServer'[w],
               framesAsStringsQ[w], w, game, ReportedOn(w, game), Len(StoredUnder(v, <<game, w>>)))
  <2>1. /\ Running(v)' => Running(v) /\ toClient[v] = toClient[v]
        /\ Shown(v, game)' => Shown(v, game)
        /\ open'[w] => open[w] /\ HeldFor(v, w, game)' = HeldFor(v, w, game)
                               /\ toServer'[w] = toServer[w]
    OBVIOUS
  <2>. QED BY <1>2, <2>1, WayEnds
<1>. QED BY <1>2, <1>3, <1>4 DEF Delivered

(* The client's own steps leave it so. *)
LEMMA ServerStill ==
  ASSUME UNCHANGED <<serverVars, toServer>>
  PROVE  /\ disturbed \subseteq disturbed'
         /\ \A v, w \in Users : \A game \in Joined[v] \cap Joined[w] :
              /\ Shown(v, game)' => Shown(v, game)
              /\ open'[w] => open[w] /\ HeldFor(v, w, game)' = HeldFor(v, w, game)
                                     /\ toServer'[w] = toServer[w]
BY DEF serverVars, Shown, HeldFor, Held, Awaits


(* A client that stops does not run again. *)
LEMMA StopsRun ==
  ASSUME Provenance, NEW u \in Users, NEW how, program' = [program EXCEPT ![u] = how],
         how # "running"
  PROVE  \A v \in Users : Running(v)' => Running(v)
BY DEF Provenance, Typed, Running

(* A summary takes nothing from the way, at its start *)
LEMMA StartSummaryKeepsDelivery ==
  ASSUME Provenance, Delivery, NEW u \in Users, NEW key, StartSummary(u, key)
  PROVE  Delivery'
<1>1. UNCHANGED <<program, framesAsStringsQ, toClient, gameNameUserNameToFramesList, reported>>
      /\ UNCHANGED <<serverVars, toServer>>
  BY DEF StartSummary
<1>. QED BY <1>1, DeliveryStill, ServerStill DEF Running

(* or at its end. *)
LEMMA FinishSummaryKeepsDelivery ==
  ASSUME Provenance, Delivery, NEW u \in Users, FinishSummary(u)
  PROVE  Delivery'
<1>1. /\ UNCHANGED <<framesAsStringsQ, toClient, gameNameUserNameToFramesList, reported>>
      /\ UNCHANGED <<serverVars, toServer>>
      /\ program' = program \/ \E how \in {"crashed", "undefined"} : program' = [program EXCEPT ![u] = how]
  BY FinishSummaryIs DEF serverVars
<1>2. \A v \in Users : Running(v)' => Running(v)
  <2>1. CASE program' = program
    BY <2>1 DEF Running
  <2>2. ASSUME NEW how \in {"crashed", "undefined"}, program' = [program EXCEPT ![u] = how]
        PROVE  \A v \in Users : Running(v)' => Running(v)
    <3>1. how # "running"
      OBVIOUS
    <3>. QED BY <2>2, <3>1, StopsRun
  <2>. QED BY <1>1, <2>1, <2>2
<1>. QED BY <1>1, <1>2, DeliveryStill, ServerStill

(* The socket thread's write *)
LEMMA SendNextKeepsDelivery ==
  ASSUME Provenance, Delivery, NEW u \in Users, SendNext(u)
  PROVE  Delivery'
<1>1. /\ framesAsStringsQ[u] # <<>>
      /\ framesAsStringsQ' = [framesAsStringsQ EXCEPT ![u] = Tail(framesAsStringsQ[u])]
      /\ toServer' = [toServer EXCEPT ![u] =
           IF open[u] THEN Append(toServer[u], Head(framesAsStringsQ[u])) ELSE toServer[u]]
      /\ UNCHANGED <<program, toClient, open, thread, channelToConnectionIdsList, disturbed,
           gameNameUserNameToFramesList, reported>>
  BY DEF SendNext, serverVars
<1>. SUFFICES ASSUME NEW v \in Users, NEW w \in Users, NEW game \in Joined[v] \cap Joined[w],
                     ReportsPlainly(w)', <<w, game>> \notin disturbed'
     PROVE  Delivered(v, w, game)'
  BY DEF Delivery
<1>. DEFINE events == ReportedOn(w, game)
            n == Len(StoredUnder(v, <<game, w>>))
<1>2. ReportsPlainly(w) /\ <<w, game>> \notin disturbed
  BY <1>1 DEF ReportsPlainly
<1>3. /\ TellFirst(StoredUnder(v, <<game, w>>), w, game, events)
      /\ OnTheWay(Running(v), Shown(v, game), open[w], toClient[v], HeldFor(v, w, game), toServer[w],
                  framesAsStringsQ[w], w, game, events, n)
  BY <1>2 DEF Delivery, Delivered
<1>4. /\ StoredUnder(v, <<game, w>>)' = StoredUnder(v, <<game, w>>)
      /\ events' = events /\ Running(v)' = Running(v)
      /\ Shown(v, game)' = Shown(v, game) /\ HeldFor(v, w, game)' = HeldFor(v, w, game)
  BY <1>1 DEF StoredUnder, ReportedOn, Running, Shown, HeldFor, Held, Awaits
<1>5. OfUsers(framesAsStringsQ) /\ OfUsers(toServer)
  BY DEF Provenance, Typed
<1>6. framesAsStringsQ[w] \in Seq(Texts) /\ toServer[w] \in Seq(Texts) /\ Len(events) \in Nat
  BY <1>2, TextsOnTheWay, ReportedEvents
<1>7. OnTheWay(Running(v), Shown(v, game), open[w], toClient[v], HeldFor(v, w, game), toServer'[w],
               framesAsStringsQ'[w], w, game, events, n)
  <2>1. CASE w # u
    <3>1. toServer'[w] = toServer[w] /\ framesAsStringsQ'[w] = framesAsStringsQ[w]
      BY <1>1, <1>5, <2>1 DEF OfUsers
    <3>. QED BY <1>3, <3>1
  <2>2. CASE w = u
    <3>1. /\ framesAsStringsQ'[w] = Tail(framesAsStringsQ[w]) /\ framesAsStringsQ[w] # <<>>
          /\ open[w] => toServer'[w] = Append(toServer[w], Head(framesAsStringsQ[w]))
      BY <1>1, <1>5, <2>2 DEF OfUsers
    <3>. DEFINE shown == Shown(v, game)
                held == HeldFor(v, w, game)
    <3>. HIDE DEF events, n, shown, held
    <3>2. OnTheWay(Running(v), shown, open[w], toClient[v], held, toServer[w], framesAsStringsQ[w],
                   w, game, events, n)
      BY <1>3 DEF shown, held
    <3>3. OnTheWay(Running(v), shown, open[w], toClient[v], held, toServer'[w], framesAsStringsQ'[w],
                   w, game, events, n)
      BY <1>6, <3>1, <3>2, WaySent
    <3>. QED BY <3>3 DEF shown, held
  <2>. QED BY <2>1, <2>2
<1>. QED BY <1>1, <1>3, <1>4, <1>7 DEF Delivered

(* What the frames of a report say, by the game it is on *)
LEMMA FramesSay ==
  ASSUME NEW u \in Users, NEW file \in PlainFiles, NEW v \in Users, NEW game \in Joined[v],
         NEW frames, frames = reportProcess(u, Files[file])
  PROVE  /\ frames # Throws /\ frames \in Seq(Texts) /\ EventsOn[game][file] \in Seq(PlainEvents)
         /\ \/ /\ EventsOn[game][file] = <<>>
               /\ \A i \in 1 .. Len(frames) : frames[i] \in NotOn(game)
            \/ /\ Len(frames) = Len(EventsOn[game][file])
               /\ \A i \in 1 .. Len(frames) :
                    PlainlyRead(extractFrame(frames[i]), u, game, EventsOn[game][file][i])
<1>. DEFINE data == Files[file]
<1>1. file \in DOMAIN Files
  BY DEF PlainFiles
<1>2. /\ frames # Throws /\ IsList(frames) /\ DOMAIN frames = DOMAIN Events(data)
      /\ IsList(Events(data))
      /\ \A i \in DOMAIN frames :
           PlainlyRead(extractFrame(frames[i]), u, GameOf(data), Events(data)[i])
  BY PlainFrames
<1>3. frames \in Seq(Texts)
  <2>1. frames \in Seq(ServerTexts(u, {}))
    BY <1>1, <1>2, ReportedFrames
  <2>2. ServerTexts(u, {}) \subseteq Texts
    BY DEF ServerTexts
  <2>. QED BY <2>1, <2>2, SeqOfMore
<1>4. /\ EventsOn[game][file] = IF GameOf(data) = game THEN Events(data) ELSE <<>>
      /\ EventsOn[game][file] \in Seq(PlainEvents)
  BY EventsOnIs
<1>. DEFINE n == Len(frames)
            m == Len(Events(data))
<1>5. n \in Nat /\ m \in Nat /\ DOMAIN frames = 1 .. n /\ 1 .. n = 1 .. m
  BY <1>2 DEF IsList
<1>6. n = m
  <2>. HIDE DEF n, m
  <2>1. \A i, j \in Nat : 1 .. i = 1 .. j => i = j
    <3>. SUFFICES ASSUME NEW i \in Nat, NEW j \in Nat, 1 .. i = 1 .. j, i # j PROVE FALSE
      OBVIOUS
    <3>1. CASE i < j
      <4>1. j \in 1 .. j /\ j \notin 1 .. i
        BY <3>1
      <4>. QED BY <4>1
    <3>2. CASE j < i
      <4>1. i \in 1 .. i /\ i \notin 1 .. j
        BY <3>2
      <4>. QED BY <4>1
    <3>. QED BY <3>1, <3>2
  <2>. QED BY <1>5, <2>1
<1>7. \A i \in 1 .. n : frames[i] \in Texts
  BY <1>3
<1>. HIDE DEF n, m, data
<1>8. CASE GameOf(data) = game
  <2>1. Len(EventsOn[game][file]) = n
    BY <1>4, <1>6, <1>8 DEF m
  <2>. QED BY <1>2, <1>3, <1>4, <1>5, <1>8, <2>1 DEF n
<1>9. CASE GameOf(data) # game
  <2>1. \A i \in 1 .. n : frames[i] \in NotOn(game)
    BY <1>2, <1>5, <1>7, <1>9 DEF PlainlyRead, NotOn
  <2>. QED BY <1>2, <1>3, <1>4, <1>9, <2>1 DEF n
<1>. QED BY <1>8, <1>9

(* A report command: it waits until its user's queue is empty. *)
LEMMA ReportKeepsDelivery ==
  ASSUME Provenance, Delivery, NEW u \in Users, NEW file \in DOMAIN Files, Report(u, file)
  PROVE  Delivery'
<1>. DEFINE frames == reportProcess(u, Files[file])
<1>1. /\ AtKeyboard(u) /\ reported' = [reported EXCEPT ![u] = Append(@, file)]
      /\ StartSending(u, frames)
      /\ UNCHANGED <<toServer, toClient, open, thread, channelToConnectionIdsList, disturbed,
           gameNameUserNameToFramesList>>
  BY DEF Report, serverVars
<1>2. file \in DOMAIN Files
  BY ReportsAssumption
<1>3. PlainReporters' \subseteq PlainReporters /\ (u \in PlainReporters' => file \in PlainFiles)
  BY <1>1, <1>2, ReporterGetsLessPlain DEF Provenance
<1>. HIDE DEF frames
<1>4. \/ /\ program' = [program EXCEPT ![u] = "crashed"] /\ framesAsStringsQ' = framesAsStringsQ
         /\ frames = Throws
      \/ /\ frames # Throws /\ framesAsStringsQ' = [framesAsStringsQ EXCEPT ![u] = frames]
         /\ program' = program
  BY <1>1 DEF StartSending, Stop
<1>5. OfUsers(framesAsStringsQ) /\ reported \in [Users -> Seq(DOMAIN Files)]
  BY DEF Provenance, Typed
<1>6. \A v \in Users : Running(v)' => Running(v)
  <2>1. CASE program' = program
    BY <2>1 DEF Running
  <2>2. CASE program' = [program EXCEPT ![u] = "crashed"]
    BY <2>2, StopsRun
  <2>. QED BY <1>4, <2>1, <2>2
<1>. SUFFICES ASSUME NEW v \in Users, NEW w \in Users, NEW game \in Joined[v] \cap Joined[w],
                     ReportsPlainly(w)', <<w, game>> \notin disturbed'
     PROVE  Delivered(v, w, game)'
  BY DEF Delivery
<1>. DEFINE events == ReportedOn(w, game)
            bodies == StoredUnder(v, <<game, w>>)
            n == Len(bodies)
            shown == Shown(v, game)
            held == HeldFor(v, w, game)
<1>7. w \in PlainReporters' /\ ReportsPlainly(w) /\ <<w, game>> \notin disturbed
  BY <1>1, <1>3 DEF PlainReporters
<1>71. Shown(v, game)' = shown /\ HeldFor(v, w, game)' = held
  BY <1>1 DEF Shown, HeldFor, Held, Awaits
<1>8. /\ TellFirst(bodies, w, game, events)
      /\ OnTheWay(Running(v), shown, open[w], toClient[v], held, toServer[w], framesAsStringsQ[w],
                  w, game, events, n)
  BY <1>7 DEF Delivery, Delivered
<1>. HIDE DEF shown, held
<1>9. OnTheWay(Running(v)', shown, open[w], toClient[v], held, toServer[w], framesAsStringsQ[w],
               w, game, events, n)
  <2>. HIDE DEF events, n
  <2>1. Running(v)' => Running(v) /\ toClient[v] = toClient[v]
    BY <1>6
  <2>2. open[w] => open[w] /\ held = held /\ toServer[w] = toServer[w]
    OBVIOUS
  <2>. QED BY <1>8, <2>1, <2>2, WayEnds
<1>10. bodies' = bodies
  BY <1>1 DEF StoredUnder
<1>11. CASE w # u
  <2>1. framesAsStringsQ'[w] = framesAsStringsQ[w] /\ reported'[w] = reported[w]
    BY <1>1, <1>4, <1>5, <1>11 DEF OfUsers
  <2>2. events' = events
    BY <2>1 DEF ReportedOn
  <2>. QED BY <1>1, <1>71, <1>8, <1>9, <1>10, <2>1, <2>2 DEF Delivered
<1>12. CASE w = u
  <2>. DEFINE more == EventsOn[game][file]
  <2>1. file \in PlainFiles
    BY <1>3, <1>7, <1>12
  <2>2. /\ frames # Throws /\ frames \in Seq(Texts) /\ more \in Seq(PlainEvents)
        /\ \/ more = <<>> /\ \A i \in 1 .. Len(frames) : frames[i] \in NotOn(game)
           \/ /\ Len(frames) = Len(more)
              /\ \A i \in 1 .. Len(frames) : PlainlyRead(extractFrame(frames[i]), w, game, more[i])
    BY <1>12, <2>1, FramesSay DEF frames
  <2>3. framesAsStringsQ'[w] = frames /\ framesAsStringsQ[w] = <<>>
    BY <1>1, <1>4, <1>5, <1>12, <2>2 DEF OfUsers, AtKeyboard
  <2>4. /\ reported[w] \in Seq(PlainFiles) /\ events = OnGame(game, reported[w])
        /\ events \in Seq(PlainEvents)
    BY <1>7, ReportedEvents
  <2>5. events' = events \o more
    <3>1. reported'[w] = Append(reported[w], file)
      BY <1>1, <1>5, <1>12
    <3>2. events' = OnGame(game, reported'[w])
      BY DEF ReportedOn, OnGame
    <3>3. OnGame(game, Append(reported[w], file)) = OnGame(game, reported[w]) \o more
      BY <2>1, <2>4, OnGameMore
    <3>. QED BY <2>4, <3>1, <3>2, <3>3
  <2>6. n \in Nat
    BY <1>8 DEF TellFirst
  <2>. HIDE DEF events, more, bodies, n
  <2>7. TellFirst(bodies, w, game, events \o more)
    BY <1>8, <2>2, <2>4, TellFirstStill
  <2>8. OnTheWay(Running(v)', shown, open[w], toClient[v], held, toServer[w], <<>>, w, game, events, n)
    BY <1>9, <2>3
  <2>9. OnTheWay(Running(v)', shown, open[w], toClient[v], held, toServer[w], frames,
                 w, game, events \o more, n)
    BY <2>2, <2>4, <2>6, <2>8, WayReported
  <2>10. /\ TellFirst(bodies', w, game, events')
         /\ OnTheWay(Running(v)', Shown(v, game)', open'[w], toClient'[v], HeldFor(v, w, game)',
                     toServer'[w], framesAsStringsQ'[w], w, game, events', Len(bodies'))
    BY <1>1, <1>71, <1>10, <2>3, <2>5, <2>7, <2>9 DEF n
  <2>. QED BY <2>10 DEF Delivered, bodies, events
<1>. QED BY <1>11, <1>12

(* A message on the report that frame f of user u is *)
IsMessageOf(t, f, u) ==
  LET m == stringToFrameFromServer(t) IN
  /\ t \in Texts
  /\ m.command = <<"MESSAGE">>
  /\ m.headers[<<"destination">>] = f.headers[<<"destination">>]
  /\ m.body = f.body
  /\ \A w \in Users : w # u => SenderOf(f.body) # w

(* The server's MESSAGE is one on the report that it has read. *)
LEMMA MessageSays ==
  ASSUME NEW u \in Users, NEW P, NEW s \in ServerTexts(u, P), extractFrame(s) # Throws,
         extractFrame(s).headers[<<"destination">>] \in Joined[u]
  PROVE  IsMessageOf(encode(MessageFrame(extractFrame(s).headers[<<"destination">>],
                                         extractFrame(s).body)),
                     extractFrame(s), u)
<1>. DEFINE f == extractFrame(s)
            game == f.headers[<<"destination">>]
            body == f.body
            t == encode(MessageFrame(game, body))
            m == stringToFrameFromServer(t)
<1>1. body = Empty \/ SentBy(body, u)
  BY DEF ServerTexts, ReadsAs
<1>2. Blankless(body)
  BY <1>1, EmptyIsBlankless DEF SentBy
<1>3. IsName(game)
  BY NamesAssumption
<1>. HIDE DEF body, game
<1>4. \A w \in Users : w # u => SenderOf(body) # w
  <2>1. CASE body = Empty
    BY <2>1, EmptyNamesNobody, UsersAreNames DEF SenderOf
  <2>2. CASE SentBy(body, u)
    BY <2>2, SentByNames, UsersAreNames DEF SenderOf
  <2>. QED BY <1>1, <2>1, <2>2
<1>5. /\ t \in Texts
      /\ m # Throws /\ m.command = <<"MESSAGE">> /\ m.headers[<<"destination">>] = game
      /\ m.body = body
  BY <1>2, <1>3, MessageRead
<1>. HIDE DEF t
<1>6. IsMessageOf(t, f, u)
  BY <1>4, <1>5 DEF IsMessageOf, game, body
<1>. QED BY <1>6 DEF t, game, body

(* An error is no report. *)
LEMMA ErrorIsNotFrom ==
  ASSUME NEW w, NEW game
  PROVE  encode(ErrorFrame) \in NotFrom(w, game)
<1>1. <<"ERROR">> # <<"MESSAGE">>
  OBVIOUS
<1>. QED BY <1>1, ErrorRead DEF NotFrom, Message

(* The server's handler takes a frame, and refuses it or begins to send it on. *)
LEMMA ForwardKeepsDelivery ==
  ASSUME Serving, Provenance, Delivery, NEW u \in Users, Forward(u)
  PROVE  Delivery'
<1>1. PICK f : f = extractFrame(Head(toServer[u]))
  OBVIOUS
<1>2. PICK dest : dest = f.headers[<<"destination">>]
  OBVIOUS
<1>. DEFINE text == encode(MessageFrame(dest, f.body))
            error == encode(ErrorFrame)
            sender == Sender(dest, text)
            leaver == Leaver(Joined[u])
            s == Head(toServer[u])
<1>3. /\ open[u] /\ thread[u].at = "read" /\ toServer[u] # <<>>
      /\ toServer' = [toServer EXCEPT ![u] = Tail(toServer[u])]
      /\ UNCHANGED <<clientVars, channelToConnectionIdsList, disturbed>>
      /\ \/ End(u) /\ UNCHANGED toClient
         \/ /\ dest \notin Joined[u] /\ UNCHANGED open
            /\ toClient' = [toClient EXCEPT ![u] = Append(toClient[u], error)]
            /\ thread' = [thread EXCEPT ![u] = leaver]
         \/ /\ f # Throws /\ dest \in Joined[u] /\ UNCHANGED <<open, toClient>>
            /\ thread' = [thread EXCEPT ![u] = sender]
  BY <1>1, <1>2, ForwardIs
<1>4. /\ OfUsers(toServer) /\ OfUsers(toClient) /\ OfUsers(thread) /\ open \in [Users -> BOOLEAN]
      /\ \A x \in Users : toServer[x] \in Seq(Texts) /\ toClient[x] \in Seq(Texts)
      /\ s \in ServerTexts(u, PlainReporters)
  BY <1>3, TextsOnTheWay, HeadAndTail DEF Provenance, Typed, Serving, ThreadsKept
<1>5. UNCHANGED <<program, framesAsStringsQ, gameNameUserNameToFramesList, reported>>
  BY <1>3 DEF clientVars
<1>6. /\ leaver.at \notin Sending /\ thread[u].at \notin Sending
      /\ sender.at = "send" /\ sender.next = 1 /\ sender.game = dest /\ sender.message = text
  <2>1. /\ Begins(sender, "send") /\ sender.game = dest /\ sender.message = text
        /\ Begins(leaver, "leave")
    BY ThreadBegins
  <2>. HIDE DEF sender, leaver, text
  <2>. QED BY <1>3, <2>1 DEF Begins, Sending
<1>7. f # Throws /\ dest \in Joined[u] =>
        /\ text \in Texts
        /\ stringToFrameFromServer(text).command = <<"MESSAGE">>
        /\ stringToFrameFromServer(text).headers[<<"destination">>] = dest
        /\ stringToFrameFromServer(text).body = f.body
  <2>1. f # Throws /\ dest \in Joined[u] => IsMessageOf(text, f, u)
    BY <1>1, <1>2, <1>4, MessageSays
  <2>. QED BY <1>2, <2>1 DEF IsMessageOf
<1>. SUFFICES ASSUME NEW v \in Users, NEW w \in Users, NEW game \in Joined[v] \cap Joined[w],
                     ReportsPlainly(w)', <<w, game>> \notin disturbed'
     PROVE  Delivered(v, w, game)'
  BY DEF Delivery
<1>8. error \in NotFrom(w, game)
  BY ErrorIsNotFrom
<1>. HIDE DEF s, text, error, sender, leaver
<1>. DEFINE events == ReportedOn(w, game)
            bodies == StoredUnder(v, <<game, w>>)
            n == Len(bodies)
            shown == Shown(v, game)
            list == channelToConnectionIdsList[game]
            Way(shows, served, client, held, server) ==
              OnTheWay(Running(v), shows, served, client, held, server, framesAsStringsQ[w],
                       w, game, events, n)
<1>9. ReportsPlainly(w) /\ <<w, game>> \notin disturbed
  BY <1>3, <1>5 DEF ReportsPlainly
<1>10. /\ TellFirst(bodies, w, game, events)
       /\ Way(shown, open[w], toClient[v], HeldFor(v, w, game), toServer[w])
  BY <1>9 DEF Delivery, Delivered
<1>11. /\ bodies' = bodies /\ events' = events /\ Running(v)' = Running(v)
       /\ channelToConnectionIdsList' = channelToConnectionIdsList
       /\ HeldFor(v, w, game)' = Held(thread'[w], game, list, v)
  BY <1>3, <1>5 DEF StoredUnder, ReportedOn, Running, HeldFor
<1>12. n \in Nat
  BY <1>10 DEF TellFirst
<1>. HIDE DEF events, bodies, n
<1>13. ASSUME NEW shows, NEW served, NEW held, NEW server, NEW t \in NotFrom(w, game),
              Way(shows, served, toClient[v], held, server)
       PROVE  Way(shows, served, Append(toClient[v], t), held, server)
  BY <1>4, <1>12, <1>13, WayOfOther
<1>14. Shown(v, game)' => shown
  <2>1. open'[v] => open[v]
    BY <1>3, <1>4 DEF End
  <2>. QED BY <1>11, <2>1 DEF Shown
<1>15. SUFFICES Way(Shown(v, game)', open'[w], toClient'[v], HeldFor(v, w, game)', toServer'[w])
  BY <1>5, <1>10, <1>11 DEF Delivered, events, bodies, n
<1>. HIDE DEF shown, list
<1>. DEFINE shown2 == Shown(v, game)'
            held2 == HeldFor(v, w, game)'
            client2 == toClient'[v]
            server2 == toServer'[w]
<1>16. client2 = toClient[v] \/ client2 = Append(toClient[v], error)
  BY <1>3, <1>4 DEF OfUsers
<1>17. CASE w # u
  <2>1. server2 = toServer[w] /\ thread'[w] = thread[w] /\ open'[w] = open[w]
    BY <1>3, <1>4, <1>17 DEF OfUsers, End, Return
  <2>2. held2 = HeldFor(v, w, game)
    BY <1>11, <2>1 DEF HeldFor, list
  <2>. DEFINE held == HeldFor(v, w, game)
  <2>3. Way(shown, open[w], toClient[v], held, toServer[w])
    BY <1>10
  <2>. HIDE DEF held2, shown2, client2, server2, held, Way
  <2>4. Way(shown, open[w], client2, held, toServer[w])
    BY <1>8, <1>13, <1>16, <2>3
  <2>5. (Running(v) => Running(v) /\ client2 = client2) /\ (shown2 => shown)
    BY <1>14 DEF shown2
  <2>6. open'[w] => open[w] /\ held2 = held /\ server2 = toServer[w]
    BY <2>1, <2>2 DEF held
  <2>7. Way(shown2, open'[w], client2, held2, server2)
    BY <2>4, <2>5, <2>6, WayEnds DEF Way
  <2>. QED BY <2>7 DEF held2, shown2, client2, server2, Way
<1>18. CASE w = u /\ End(u) /\ UNCHANGED toClient
  <2>1. ~open'[w] /\ client2 = toClient[v]
    BY <1>4, <1>18 DEF End
  <2>. DEFINE held == HeldFor(v, w, game)
  <2>2. Way(shown, open[w], toClient[v], held, toServer[w])
    BY <1>10
  <2>. HIDE DEF held2, shown2, client2, server2, held, Way
  <2>3. (Running(v) => Running(v) /\ client2 = toClient[v]) /\ (shown2 => shown)
    BY <1>14, <2>1 DEF shown2
  <2>4. open'[w] => open[w] /\ held2 = held /\ server2 = toServer[w]
    BY <2>1
  <2>5. Way(shown2, open'[w], client2, held2, server2)
    BY <2>2, <2>3, <2>4, WayEnds DEF Way
  <2>. QED BY <2>5 DEF held2, shown2, client2, server2, Way
<1>19. CASE w = u /\ UNCHANGED open
  <2>1. /\ server2 = Tail(toServer[w]) /\ toServer[w] \in Seq(Texts) /\ toServer[w] # <<>> /\ open[w]
        /\ Head(toServer[w]) = s /\ open'[w] = open[w] /\ shown2 = shown
    BY <1>3, <1>4, <1>11, <1>19 DEF OfUsers, s, Shown, shown
  <2>2. ~End(u)
    BY <1>3, <1>4, <1>19 DEF End
  <2>3. HeldFor(v, w, game) = <<>>
    BY <1>6, <1>19, NotHeld DEF HeldFor
  <2>4. Way(shown, open[w], toClient[v], <<>>, toServer[w])
    BY <1>10, <2>3
  <2>5. s \in NotOn(game) => dest # game
    BY <1>1, <1>2 DEF NotOn, s
  <2>6. \A k \in DOMAIN events : s \in Sent(w, game, events)[k] =>
          dest = game /\ BodyTells(f.body, w, game, events[k])
    BY <1>1, <1>2 DEF Sent, PlainlyRead, s
  <2>7. CASE dest \notin Joined[u] /\ thread' = [thread EXCEPT ![u] = leaver]
    <3>1. held2 = <<>>
      BY <1>4, <1>6, <1>11, <1>19, <2>7, NotHeld DEF OfUsers
    <3>2. dest # game
      BY <1>19, <2>7
    <3>. HIDE DEF held2, client2, server2, shown2, Way
    <3>3. Way(shown, open[w], toClient[v], held2, Tail(toServer[w]))
      <4>1. s \in NotOn(game) => held2 = <<>>
        BY <3>1
      <4>2. \A k \in DOMAIN events : shown /\ s \in Sent(w, game, events)[k] =>
              \E t \in Forwarded(w, game, events)[k] : held2 = <<t>>
        BY <2>6, <3>2
      <4>. QED BY <1>12, <2>1, <2>4, <4>1, <4>2, WayServed DEF Way
    <3>4. Way(shown, open[w], client2, held2, Tail(toServer[w]))
      BY <1>8, <1>13, <1>16, <3>3
    <3>. QED BY <2>1, <3>4 DEF held2, client2, server2, shown2, Way
  <2>8. CASE /\ f # Throws /\ dest \in Joined[u] /\ UNCHANGED toClient
             /\ thread' = [thread EXCEPT ![u] = sender]
    <3>1. held2 = Held(sender, game, list, v) /\ client2 = toClient[v]
      BY <1>4, <1>11, <1>19, <2>8 DEF OfUsers
    <3>2. dest # game => held2 = <<>>
      BY <1>6, <3>1, NotHeld
    <3>3. shown /\ dest = game => held2 = <<text>>
      <4>. SUFFICES ASSUME shown, dest = game PROVE held2 = <<text>>
        OBVIOUS
      <4>1. v \in ToSet(list) /\ list \in Seq(Users)
        BY JoinedAreGames DEF shown, Shown, list, Serving, ListsKept
      <4>2. \E k \in 1 .. Len(list) : list[k] = v
        BY <4>1 DEF ToSet
      <4>3. Awaits(sender, list, v)
        BY <1>6, <4>2 DEF Awaits
      <4>. QED BY <1>6, <3>1, <4>3 DEF Held, Sending
    <3>. HIDE DEF held2, client2, server2, shown2, Way
    <3>4. \A k \in DOMAIN events : shown /\ s \in Sent(w, game, events)[k] =>
            \E t \in Forwarded(w, game, events)[k] : held2 = <<t>>
      <4>. SUFFICES ASSUME NEW k \in DOMAIN events, shown, s \in Sent(w, game, events)[k]
                    PROVE  text \in Forwarded(w, game, events)[k] /\ held2 = <<text>>
        OBVIOUS
      <4>1. dest = game /\ BodyTells(f.body, w, game, events[k])
        BY <2>6
      <4>2. SenderOf(f.body) = w
        BY <4>1 DEF BodyTells
      <4>. QED BY <1>7, <2>8, <3>3, <4>1, <4>2 DEF Forwarded, Message
    <3>5. Way(shown, open[w], toClient[v], held2, Tail(toServer[w]))
      BY <1>12, <2>1, <2>4, <2>5, <3>2, <3>4, WayServed DEF Way
    <3>. QED BY <2>1, <3>1, <3>5 DEF held2, client2, server2, shown2, Way
  <2>. QED BY <1>3, <2>2, <2>7, <2>8
<1>. QED BY <1>3, <1>17, <1>18, <1>19

(* One thread goes on, and holds for everyone what it has held. *)
LEMMA OneThreadStill ==
  ASSUME Serving, Delivery, NEW u \in Users, NEW t, thread' = [thread EXCEPT ![u] = t],
         UNCHANGED <<clientVars, toServer, toClient, channelToConnectionIdsList, disturbed>>,
         UNCHANGED open \/ open' = [open EXCEPT ![u] = FALSE],
         \A v \in Users : \A game \in Joined[u] :
           open'[u] => Held(t, game, channelToConnectionIdsList[game], v) = HeldFor(v, u, game)
  PROVE  Delivery'
<1>1. OfUsers(thread) /\ open \in [Users -> BOOLEAN]
  BY DEF Serving, ThreadsKept
<1>2. /\ thread'[u] = t /\ \A w \in Users : w # u => thread'[w] = thread[w]
      /\ \A w \in Users : open'[w] => open[w]
  BY <1>1 DEF OfUsers
<1>3. ASSUME NEW v \in Users, NEW w \in Users, NEW game \in Joined[v] \cap Joined[w]
      PROVE  /\ Shown(v, game)' => Shown(v, game)
             /\ open'[w] => open[w] /\ HeldFor(v, w, game)' = HeldFor(v, w, game)
                                    /\ toServer'[w] = toServer[w]
  <2>1. Shown(v, game)' => Shown(v, game)
    BY <1>2 DEF Shown
  <2>2. HeldFor(v, w, game)' = Held(thread'[w], game, channelToConnectionIdsList[game], v)
    BY DEF HeldFor
  <2>3. CASE w = u
    BY <1>2, <2>1, <2>2, <2>3
  <2>4. CASE w # u
    <3>1. thread'[w] = thread[w]
      BY <1>2, <2>4
    <3>2. HeldFor(v, w, game)' = HeldFor(v, w, game)
      BY <2>2, <3>1 DEF HeldFor
    <3>. QED BY <1>2, <2>1, <3>2
  <2>. QED BY <2>3, <2>4
<1>. QED BY <1>3, DeliveryStill DEF clientVars, Running

LEMMA EndKeepsDelivery ==
  ASSUME Serving, Delivery, NEW u \in Users, End(u),
         UNCHANGED <<clientVars, toServer, toClient, channelToConnectionIdsList, disturbed>>
  PROVE  Delivery'
<1>1. ~open'[u] /\ open' = [open EXCEPT ![u] = FALSE] /\ thread' = [thread EXCEPT ![u] = Thread("read")]
  BY DEF Serving, ThreadsKept, End, Return
<1>. QED BY <1>1, OneThreadStill

(* A thread that leaves the lists holds nothing. *)
LEMMA LeavingKeepsDelivery ==
  ASSUME Serving, Delivery, NEW u \in Users, thread[u].at \notin Sending, NEW t, t.at \notin Sending,
         thread' = [thread EXCEPT ![u] = t], UNCHANGED open,
         UNCHANGED <<clientVars, toServer, toClient, channelToConnectionIdsList, disturbed>>
  PROVE  Delivery'
<1>1. \A v \in Users : \A game \in Joined[u] :
        Held(t, game, channelToConnectionIdsList[game], v) = HeldFor(v, u, game)
  BY NotHeld DEF HeldFor
<1>. QED BY <1>1, OneThreadStill

(* The loop over the list has come to its end only when nobody awaits the message. *)
LEMMA SendLoopKeepsDelivery ==
  ASSUME Serving, Delivery, NEW u \in Users, SendLoop(u)
  PROVE  Delivery'
<1>. DEFINE t == thread[u]
            s == Moved(t, "send_next")
            r == Thread("read")
<1>1. /\ t.at = "send"
      /\ UNCHANGED <<clientVars, toServer, toClient, open, channelToConnectionIdsList, disturbed>>
      /\ \/ thread' = [thread EXCEPT ![u] = s]
         \/ /\ ~(t.next <= Len(channelToConnectionIdsList[t.game]))
            /\ thread' = [thread EXCEPT ![u] = r]
  BY SendLoopIs DEF Return
<1>11. /\ UNCHANGED open
       /\ UNCHANGED <<clientVars, toServer, toClient, channelToConnectionIdsList, disturbed>>
  BY <1>1
<1>2. IsThread(t) /\ t.next \in Nat /\ t.game \in Games
  BY <1>1, JoinedAreGames DEF Serving, ThreadsKept, AtWork, Sending
<1>3. Goes(s, t, "send_next", t.next) /\ r.at = "read"
  BY <1>2, ThreadGoes, ThreadAtStart
<1>. HIDE DEF s, r
<1>4. CASE thread' = [thread EXCEPT ![u] = s]
  <2>1. \A v \in Users : \A game \in Joined[u] :
          Held(s, game, channelToConnectionIdsList[game], v) = HeldFor(v, u, game)
    BY <1>1, <1>3 DEF HeldFor, Held, Awaits, Goes, Sending
  <2>. QED BY <1>11, <1>4, <2>1, OneThreadStill
<1>5. CASE /\ ~(t.next <= Len(channelToConnectionIdsList[t.game]))
           /\ thread' = [thread EXCEPT ![u] = r]
  <2>. DEFINE list == channelToConnectionIdsList[t.game]
  <2>1. ASSUME NEW v \in Users, NEW game \in Joined[u]
        PROVE  Held(r, game, channelToConnectionIdsList[game], v) = HeldFor(v, u, game)
    <3>1. Held(r, game, channelToConnectionIdsList[game], v) = <<>>
      BY <1>3, NotHeld DEF Sending
    <3>2. Len(list) \in Nat
      BY <1>2 DEF Serving, ListsKept
    <3>3. ~Awaits(t, list, v)
      <4>1. \A k \in t.next .. Len(list) : FALSE
        BY <1>2, <1>5, <3>2
      <4>. QED BY <1>1, <4>1 DEF Awaits
    <3>4. Held(t, game, channelToConnectionIdsList[game], v) = <<>>
      BY <3>3 DEF Held
    <3>. QED BY <3>1, <3>4 DEF HeldFor
  <2>. QED BY <1>11, <1>5, <2>1, OneThreadStill
<1>. QED BY <1>1, <1>4, <1>5

(* What next() returns is awaited still. *)
LEMMA NextAddresseeKeepsDelivery ==
  ASSUME Serving, Delivery, NEW u \in Users, NextAddressee(u)
  PROVE  Delivery'
<1>. DEFINE t == thread[u]
            list == channelToConnectionIdsList[t.game]
            d == list[t.next]
            s == SendingTo(t, d)
<1>1. /\ t.at = "send_next"
      /\ UNCHANGED <<clientVars, toServer, toClient, channelToConnectionIdsList, disturbed>>
      /\ \/ End(u)
         \/ ~t.stale /\ UNCHANGED open /\ thread' = [thread EXCEPT ![u] = s]
  BY NextAddresseeIs
<1>2. CASE End(u)
  BY <1>1, <1>2, EndKeepsDelivery
<1>3. CASE ~End(u)
  <2>1. IsThread(t) /\ t.next \in DOMAIN list /\ t.game \in Games
    BY <1>1, <1>3, NextIsListed DEF Serving, ThreadsKept, AtWork
  <2>2. Goes(s, t, "send_to", t.next + 1) /\ s.addressee = d
    BY <2>1, ThreadGoes
  <2>3. DOMAIN list = 1 .. Len(list) /\ Len(list) \in Nat
    BY <2>1 DEF Serving, ListsKept
  <2>4. t.next \in 1 .. Len(list) /\ t.next \in Nat
    BY <2>1, <2>3
  <2>. DEFINE n == t.next
              l == Len(list)
  <2>5. \A v : (\E k \in n .. l : list[k] = v) <=> (list[n] = v \/ \E k \in n + 1 .. l : list[k] = v)
    <3>1. n \in Nat /\ l \in Nat /\ n <= l
      BY <2>3, <2>4
    <3>. HIDE DEF n, l, list
    <3>2. \A k : k \in n .. l <=> k = n \/ k \in n + 1 .. l
      BY <3>1
    <3>. QED BY <3>2
  <2>. HIDE DEF s
  <2>6. ASSUME NEW v, NEW game
        PROVE  Held(s, game, channelToConnectionIdsList[game], v) = HeldFor(v, u, game)
    <3>1. Awaits(s, list, v) <=> Awaits(t, list, v)
      BY <1>1, <2>2, <2>5 DEF Awaits, Goes
    <3>2. s.at \in Sending /\ t.at \in Sending /\ s.game = t.game /\ s.message = t.message
      BY <1>1, <2>2 DEF Goes, Sending
    <3>. QED BY <3>1, <3>2 DEF HeldFor, Held
  <2>. QED BY <1>1, <1>3, <2>6, OneThreadStill
<1>. QED BY <1>2, <1>3

(* Where nobody is removed meanwhile, what next() has returned is on the list once, behind
   the iterator. *)
LEMMA AddresseeIsBehind ==
  ASSUME Serving, NEW u \in Users, thread[u].at = "send_to", <<u, thread[u].game>> \notin disturbed
  PROVE  LET t == thread[u]
             list == channelToConnectionIdsList[t.game]
         IN  /\ t.addressee \in ToSet(list)
             /\ \A k \in t.next .. Len(list) : list[k] # t.addressee
<1>. DEFINE t == thread[u]
            list == channelToConnectionIdsList[t.game]
<1>1. AtWork(u, t) /\ Iterates(t, channelToConnectionIdsList) /\ Noted(u, t, disturbed)
  BY DEF Serving, ThreadsKept
<1>2. ~t.stale /\ t.next \in Nat \ {0} /\ t.game \in Games
  BY <1>1, JoinedAreGames DEF Noted, AtWork, Sending
<1>3. t.next - 1 \in DOMAIN list /\ list[t.next - 1] = t.addressee
  BY <1>1, <1>2 DEF Iterates
<1>4. IsInjective(list) /\ DOMAIN list = 1 .. Len(list) /\ Len(list) \in Nat
  BY <1>2 DEF Serving, ListsKept
<1>. HIDE DEF t, list
<1>5. ASSUME NEW k \in t.next .. Len(list), list[k] = t.addressee
      PROVE  FALSE
  <2>. DEFINE i == t.next - 1
  <2>1. k \in DOMAIN list /\ k # i /\ i \in DOMAIN list /\ list[i] = list[k]
    BY <1>2, <1>3, <1>4, <1>5
  <2>. HIDE DEF i
  <2>. QED BY <1>4, <2>1 DEF IsInjective
<1>. QED BY <1>3, <1>5 DEF ToSet, t, list

(* The message is sent to one of those on the list. *)
LEMMA SendToKeepsDelivery ==
  ASSUME Serving, Provenance, Delivery, NEW u \in Users, SendTo(u)
  PROVE  Delivery'
<1>. DEFINE t == thread[u]
            d == t.addressee
            r == HasSent(t)
            text == t.message
<1>1. /\ t.at = "send_to" /\ thread' = [thread EXCEPT ![u] = r]
      /\ toClient' = [toClient EXCEPT ![d] = IF open[d] THEN Append(toClient[d], text) ELSE toClient[d]]
      /\ UNCHANGED <<clientVars, toServer, open, channelToConnectionIdsList, disturbed>>
  BY SendToIs
<1>2. /\ OfUsers(toClient) /\ OfUsers(thread) /\ open \in [Users -> BOOLEAN]
      /\ \A x \in Users : toClient[x] \in Seq(Texts)
      /\ AtWork(u, t) /\ open[u] /\ SentOn(u, t, PlainReporters)
  BY <1>1, TextsOnTheWay DEF Provenance, TextsAreReports, Typed, Serving, ThreadsKept, Sending
<1>3. d \in Users /\ t.game \in Joined[u] /\ t.next \in Nat
  BY <1>1, <1>2 DEF AtWork, Sending
<1>4. Goes(r, t, "send", t.next)
  BY <1>2, ThreadGoes DEF AtWork
<1>5. UNCHANGED <<program, framesAsStringsQ, gameNameUserNameToFramesList, reported>>
  BY <1>1 DEF clientVars
<1>6. /\ text \in Texts /\ stringToFrameFromServer(text).headers[<<"destination">>] = t.game
      /\ \A w \in Users : w # u => SenderOf(stringToFrameFromServer(text).body) # w
  <2>1. PICK s \in ServerTexts(u, PlainReporters) :
          LET f == extractFrame(s) IN
          /\ f # Throws /\ f.headers[<<"destination">>] = t.game
          /\ text = encode(MessageFrame(t.game, f.body))
    BY <1>2 DEF SentOn
  <2>2. IsMessageOf(text, extractFrame(s), u)
    BY <1>3, <2>1, MessageSays
  <2>. QED BY <2>1, <2>2 DEF IsMessageOf
<1>. SUFFICES ASSUME NEW v \in Users, NEW w \in Users, NEW game \in Joined[v] \cap Joined[w],
                     ReportsPlainly(w)', <<w, game>> \notin disturbed'
     PROVE  Delivered(v, w, game)'
  BY DEF Delivery
<1>7. w # u \/ t.game # game => text \in NotFrom(w, game)
  BY <1>6 DEF NotFrom, Message
<1>. DEFINE events == ReportedOn(w, game)
            bodies == StoredUnder(v, <<game, w>>)
            n == Len(bodies)
            shown == Shown(v, game)
            list == channelToConnectionIdsList[game]
            held == HeldFor(v, w, game)
            Way(client, holds) ==
              OnTheWay(Running(v), shown, open[w], client, holds, toServer[w], framesAsStringsQ[w],
                       w, game, events, n)
<1>8. ReportsPlainly(w) /\ <<w, game>> \notin disturbed
  BY <1>1, <1>5 DEF ReportsPlainly
<1>9. TellFirst(bodies, w, game, events) /\ Way(toClient[v], held)
  BY <1>8 DEF Delivery, Delivered
<1>10. /\ bodies' = bodies /\ events' = events /\ Running(v)' = Running(v) /\ shown' = shown
       /\ HeldFor(v, w, game)' = Held(thread'[w], game, list, v)
  BY <1>1, <1>5 DEF StoredUnder, ReportedOn, Running, HeldFor, Shown
<1>11. n \in Nat
  BY <1>9 DEF TellFirst
<1>12. SUFFICES Way(toClient'[v], HeldFor(v, w, game)')
  BY <1>1, <1>5, <1>9, <1>10 DEF Delivered
<1>. DEFINE held2 == HeldFor(v, w, game)'
            client2 == toClient'[v]
<1>13. client2 = IF v = d /\ open[v] THEN Append(toClient[v], text) ELSE toClient[v]
  BY <1>1, <1>2, <1>3 DEF OfUsers
<1>14. w = u => held2 = Held(r, game, list, v) /\ held = Held(t, game, list, v)
  BY <1>1, <1>2, <1>10 DEF OfUsers, HeldFor
<1>15. w # u => held2 = held
  <2>1. w # u => thread'[w] = thread[w]
    BY <1>1, <1>2 DEF OfUsers
  <2>. QED BY <1>10, <2>1 DEF HeldFor
<1>16. CASE w # u \/ t.game # game
  <2>1. held2 = held
    BY <1>4, <1>14, <1>15, <1>16, NotHeld DEF Goes
  <2>. HIDE DEF held2, held, client2, events, bodies, n, shown, text, d, t
  <2>2. Way(client2, held)
    BY <1>2, <1>7, <1>9, <1>11, <1>13, <1>16, WayOfOther
  <2>3. Way(client2, held2)
    BY <2>1, <2>2
  <2>. QED BY <2>3 DEF held2, client2
<1>17. CASE w = u /\ t.game = game
  <2>1. d \in ToSet(list) /\ \A k \in t.next .. Len(list) : list[k] # d
    BY <1>1, <1>8, <1>17, AddresseeIsBehind
  <2>2. /\ Awaits(r, list, v) <=> \E k \in t.next .. Len(list) : list[k] = v
        /\ Awaits(t, list, v) <=> v = d \/ \E k \in t.next .. Len(list) : list[k] = v
    BY <1>1, <1>4 DEF Awaits, Goes
  <2>3. t.at \in Sending /\ r.at \in Sending /\ r.game = game /\ t.game = game /\ r.message = text
    BY <1>1, <1>4, <1>17 DEF Goes, Sending
  <2>4. CASE v # d
    <3>1. Held(r, game, list, v) = Held(t, game, list, v)
      BY <2>2, <2>3, <2>4 DEF Held
    <3>2. held2 = held /\ client2 = toClient[v]
      BY <1>13, <1>14, <1>17, <2>4, <3>1
    <3>. HIDE DEF held2, held, client2, events, bodies, n, shown
    <3>3. Way(client2, held2)
      BY <1>9, <3>2
    <3>. QED BY <3>3 DEF held2, client2
  <2>5. CASE v = d
    <3>1. held = <<text>> /\ held2 = <<>>
      BY <1>14, <1>17, <2>1, <2>2, <2>3, <2>5 DEF Held
    <3>2. shown <=> open[v]
      BY <2>1, <2>5 DEF Shown
    <3>3. open[w]
      BY <1>2, <1>17
    <3>. HIDE DEF held2, held, client2, events, bodies, n, shown, text, d, t
    <3>4. CASE open[v]
      <4>1. client2 = Append(toClient[v], text)
        BY <1>13, <2>5, <3>4
      <4>2. Way(toClient[v], <<text>>)
        BY <1>9, <3>1
      <4>3. Way(Append(toClient[v], text), <<>>)
        BY <1>2, <1>6, <1>11, <3>2, <3>3, <3>4, <4>2, WayReached
      <4>. QED BY <3>1, <4>1, <4>3 DEF held2, client2
    <3>5. CASE ~open[v]
      <4>1. client2 = toClient[v]
        BY <1>13, <3>5
      <4>2. ~shown
        BY <3>2, <3>5
      <4>3. Way(toClient[v], held2)
        BY <1>9, <4>2, WayEnds
      <4>. QED BY <4>1, <4>3 DEF held2, client2
    <3>. QED BY <3>4, <3>5
  <2>. QED BY <2>4, <2>5
<1>. QED BY <1>16, <1>17

(* The steps of a thread that leaves the lists *)
LEMMA LeaveGameKeepsDelivery ==
  ASSUME Serving, Delivery, NEW u \in Users, LeaveGame(u)
  PROVE  Delivery'
<1>. DEFINE t == thread[u]
<1>1. /\ t.at = "leave"
      /\ UNCHANGED <<clientVars, toServer, toClient, channelToConnectionIdsList, disturbed>>
      /\ \/ End(u)
         \/ \E game \in t.leaving :
              thread' = [thread EXCEPT ![u] = Remover(game, t.leaving \ {game})] /\ UNCHANGED open
  BY LeaveGameIs
<1>2. CASE End(u)
  BY <1>1, <1>2, EndKeepsDelivery
<1>3. ASSUME NEW game \in t.leaving, UNCHANGED open,
             thread' = [thread EXCEPT ![u] = Remover(game, t.leaving \ {game})]
      PROVE  Delivery'
  <2>. DEFINE s == Remover(game, t.leaving \ {game})
  <2>1. Begins(s, "removeIf")
    BY ThreadBegins
  <2>2. thread' = [thread EXCEPT ![u] = s]
    BY <1>3
  <2>. HIDE DEF s
  <2>3. s.at \notin Sending /\ thread[u].at \notin Sending
    BY <1>1, <2>1 DEF Begins, Sending
  <2>. QED BY <1>1, <1>3, <2>2, <2>3, LeavingKeepsDelivery
<1>. QED BY <1>1, <1>2, <1>3

LEMMA RemoveLoopKeepsDelivery ==
  ASSUME Serving, Delivery, NEW u \in Users, RemoveLoop(u)
  PROVE  Delivery'
<1>. DEFINE t == thread[u]
            s == Moved(t, "remove_next")
            l == Leaver(t.leaving)
<1>1. /\ t.at = "removeIf" /\ UNCHANGED open
      /\ UNCHANGED <<clientVars, toServer, toClient, channelToConnectionIdsList, disturbed>>
      /\ thread' = [thread EXCEPT ![u] = s] \/ thread' = [thread EXCEPT ![u] = l]
  BY RemoveLoopIs
<1>2. Goes(s, t, "remove_next", t.next) /\ Begins(l, "leave")
  BY ThreadGoes, ThreadBegins DEF Serving, ThreadsKept, AtWork
<1>. HIDE DEF s, l
<1>3. s.at \notin Sending /\ l.at \notin Sending /\ thread[u].at \notin Sending
  BY <1>1, <1>2 DEF Goes, Begins, Sending
<1>. QED BY <1>1, <1>3, LeavingKeepsDelivery

(* A removal takes nothing from the reports on the game that are not being sent on. *)
LEMMA RemoveOwnKeepsDelivery ==
  ASSUME Serving, Delivery, NEW u \in Users, thread[u].at = "remove_next", ~thread[u].stale,
         NEW g, g = thread[u].game, RemoveOwn(u, g), UNCHANGED <<clientVars, toServer, toClient>>
  PROVE  Delivery'
<1>. DEFINE list == channelToConnectionIdsList[g]
            rest == RemoveAt(list, thread[u].next)
<1>1. g \in Games /\ thread[u].next \in DOMAIN list
  BY NextIsListed
<1>2. /\ channelToConnectionIdsList' = [channelToConnectionIdsList EXCEPT ![g] = rest]
      /\ disturbed' = disturbed \cup {<<w, g>> : w \in SendersOn(g)} /\ UNCHANGED open
  BY DEF RemoveOwn
<1>3. ToSet(rest) \subseteq ToSet(list)
  <2>1. list \in Seq(Users) /\ IsInjective(list)
    BY <1>1 DEF Serving, ListsKept
  <2>. DEFINE n == thread[u].next
  <2>. HIDE DEF list, n
  <2>2. ToSet(RemoveAt(list, n)) = ToSet(list) \ {list[n]}
    BY <1>1, <2>1, WithoutOne DEF n
  <2>. QED BY <2>2 DEF n
<1>. HIDE DEF rest
<1>4. /\ channelToConnectionIdsList'[g] = rest
      /\ \A game \in Games : game # g =>
           channelToConnectionIdsList'[game] = channelToConnectionIdsList[game]
  BY <1>1, <1>2 DEF Serving, ListsKept
<1>5. /\ Goes(thread'[u], thread[u], "removeIf", thread[u].next)
      /\ \A w \in Users : w # u =>
           /\ thread'[w].at = thread[w].at
           /\ thread'[w].game = thread[w].game /\ thread'[w].message = thread[w].message
           /\ thread'[w].next = thread[w].next /\ thread'[w].addressee = thread[w].addressee
  BY RemoveOwnIs
<1>6. ASSUME NEW v \in Users, NEW w \in Users, NEW game \in Joined[v] \cap Joined[w],
             <<w, game>> \notin disturbed'
      PROVE  /\ Shown(v, game)' => Shown(v, game)
             /\ HeldFor(v, w, game)' = HeldFor(v, w, game)
  <2>1. game \in Games
    BY JoinedAreGames
  <2>2. ToSet(channelToConnectionIdsList'[game]) \subseteq ToSet(channelToConnectionIdsList[game])
    BY <1>3, <1>4, <2>1
  <2>3. Shown(v, game)' => Shown(v, game)
    BY <1>2, <2>2 DEF Shown
  <2>4. CASE w = u
    <3>1. thread[w].at \notin Sending /\ thread'[w].at \notin Sending
      BY <1>5, <2>4 DEF Goes, Sending
    <3>. QED BY <2>3, <3>1, NotHeld DEF HeldFor
  <2>5. CASE w # u /\ game = g
    <3>1. w \notin SendersOn(g)
      BY <1>2, <1>6, <2>5
    <3>2. thread[w].at \notin Sending \/ thread[w].game # game
      BY <2>5, <3>1 DEF SendersOn
    <3>3. thread'[w].at \notin Sending \/ thread'[w].game # game
      BY <1>5, <2>5, <3>2
    <3>. QED BY <2>3, <3>2, <3>3, NotHeld DEF HeldFor
  <2>6. CASE w # u /\ game # g
    <3>1. channelToConnectionIdsList'[game] = channelToConnectionIdsList[game]
      BY <1>4, <2>1, <2>6
    <3>2. HeldFor(v, w, game)' = HeldFor(v, w, game)
      BY <1>5, <2>6, <3>1 DEF HeldFor, Held, Awaits
    <3>. QED BY <2>3, <3>2
  <2>. QED BY <2>4, <2>5, <2>6
<1>. QED BY <1>2, <1>6, DeliveryStill DEF clientVars, Running

LEMMA RemoveNextKeepsDelivery ==
  ASSUME Serving, Delivery, NEW u \in Users, RemoveNext(u)
  PROVE  Delivery'
<1>. DEFINE t == thread[u]
            s == Further(t)
<1>1. /\ t.at = "remove_next" /\ UNCHANGED <<clientVars, toServer, toClient>>
      /\ \/ End(u) /\ UNCHANGED <<channelToConnectionIdsList, disturbed>>
         \/ ~t.stale /\ RemoveOwn(u, t.game)
         \/ /\ thread' = [thread EXCEPT ![u] = s]
            /\ UNCHANGED <<open, channelToConnectionIdsList, disturbed>>
  BY RemoveNextIs
<1>2. CASE End(u) /\ UNCHANGED <<channelToConnectionIdsList, disturbed>>
  BY <1>1, <1>2, EndKeepsDelivery
<1>3. CASE ~t.stale /\ RemoveOwn(u, t.game)
  BY <1>1, <1>3, RemoveOwnKeepsDelivery
<1>4. CASE /\ thread' = [thread EXCEPT ![u] = s]
           /\ UNCHANGED <<open, channelToConnectionIdsList, disturbed>>
  <2>1. Goes(s, t, "removeIf", t.next + 1)
    BY ThreadGoes DEF Serving, ThreadsKept, AtWork
  <2>. HIDE DEF s
  <2>2. s.at \notin Sending /\ thread[u].at \notin Sending
    BY <1>1, <2>1 DEF Goes, Sending
  <2>3. /\ UNCHANGED open
        /\ UNCHANGED <<clientVars, toServer, toClient, channelToConnectionIdsList, disturbed>>
    BY <1>1, <1>4
  <2>. QED BY <1>4, <2>2, <2>3, LeavingKeepsDelivery
<1>. QED BY <1>1, <1>2, <1>3, <1>4

(* What is stored under a key, if anything *)
LEMMA StoredTexts ==
  ASSUME Provenance, NEW v \in Users, NEW key
  PROVE  StoredUnder(v, key) \in Seq(Texts)
<1>1. <<>> \in Seq(Texts)
  OBVIOUS
<1>. QED BY <1>1, KeptTexts DEF StoredUnder

(* Store appends under one key and leaves the others. *)
LEMMA StoreAppends ==
  ASSUME Provenance, NEW u \in Users, NEW key, NEW body, Store(u, key, body)
  PROVE  /\ StoredUnder(u, key)' = Append(StoredUnder(u, key), body)
         /\ \A k : k # key => StoredUnder(u, k)' = StoredUnder(u, k)
         /\ \A v \in Users : v # u =>
              gameNameUserNameToFramesList'[v] = gameNameUserNameToFramesList[v]
<1>. DEFINE stored == gameNameUserNameToFramesList[u]
            new == [k \in DOMAIN stored \cup {key} |->
                      IF k = key THEN Append(StoredUnder(u, k), body) ELSE StoredUnder(u, k)]
<1>1. OfUsers(gameNameUserNameToFramesList)
  BY DEF Provenance, Typed
<1>2. gameNameUserNameToFramesList' = [gameNameUserNameToFramesList EXCEPT ![u] = new]
  BY DEF Store
<1>. HIDE DEF new
<1>3. /\ gameNameUserNameToFramesList'[u] = new
      /\ \A v \in Users : v # u =>
           gameNameUserNameToFramesList'[v] = gameNameUserNameToFramesList[v]
  BY <1>1, <1>2 DEF OfUsers
<1>4. /\ DOMAIN new = DOMAIN stored \cup {key}
      /\ new[key] = Append(StoredUnder(u, key), body)
      /\ \A k \in DOMAIN stored : k # key => new[k] = StoredUnder(u, k)
  BY DEF new
<1>5. /\ \A k : StoredUnder(u, k)' = IF k \in DOMAIN new THEN new[k] ELSE <<>>
      /\ \A k : StoredUnder(u, k) = IF k \in DOMAIN stored THEN stored[k] ELSE <<>>
  BY <1>3 DEF StoredUnder
<1>. HIDE DEF stored
<1>6. ASSUME NEW k, k # key
      PROVE  StoredUnder(u, k)' = StoredUnder(u, k)
  <2>1. CASE k \in DOMAIN stored
    BY <1>4, <1>5, <1>6, <2>1
  <2>2. CASE k \notin DOMAIN stored
    BY <1>4, <1>5, <1>6, <2>2
  <2>. QED BY <2>1, <2>2
<1>. QED BY <1>3, <1>4, <1>5, <1>6
(* A client that has stopped stores nothing more. *)
LEMMA WayUnheard ==
  ASSUME NEW shown, NEW served, NEW client, NEW held, NEW server, NEW frames, NEW w, NEW game,
         NEW events, NEW n
  PROVE  /\ \A heard, client2 : OnTheWay(heard, shown, served, client, held, server, frames, w, game, events, n) =>
              OnTheWay(FALSE, shown, served, client2, held, server, frames, w, game, events, n)
         /\ OnTheWay(TRUE, shown, served, client, held, server, frames, w, game, events, n) =>
              \A heard : OnTheWay(heard, shown, served, client, held, server, frames, w, game, events, n)
BY Zenon DEF OnTheWay


(* The body that is stored next tells of the next event. *)
LEMMA TellOneMore ==
  ASSUME NEW S, NEW bodies \in Seq(S), NEW body \in S, NEW w, NEW game,
         NEW E, NEW events \in Seq(E), TellFirst(bodies, w, game, events),
         Len(bodies) + 1 \in DOMAIN events,
         BodyTells(body, w, game, events[Len(bodies) + 1])
  PROVE  TellFirst(Append(bodies, body), w, game, events)
<1>. DEFINE n == Len(bodies)
            l == Len(events)
            new == Append(bodies, body)
<1>1. n \in Nat /\ Len(new) = n + 1 /\ new[n + 1] = body /\ \A i \in 1 .. n : new[i] = bodies[i]
  BY AppendIs
<1>2. l \in Nat /\ n + 1 <= l
  <2>1. l \in Nat /\ DOMAIN events = 1 .. l
    OBVIOUS
  <2>. QED BY <1>1, <2>1
<1>3. \A i \in 1 .. n : BodyTells(bodies[i], w, game, events[i])
  BY DEF TellFirst
<1>4. BodyTells(body, w, game, events[n + 1])
  OBVIOUS
<1>. HIDE DEF n, l, new
<1>5. ASSUME NEW i \in 1 .. n + 1
      PROVE  BodyTells(new[i], w, game, events[i])
  <2>1. CASE i = n + 1
    BY <1>1, <1>4, <2>1
  <2>2. CASE i \in 1 .. n
    BY <1>1, <1>3, <2>2
  <2>. QED BY <1>1, <2>1, <2>2
<1>6. Len(new) \in Nat /\ Len(new) <= Len(events)
  BY <1>1, <1>2 DEF l
<1>. QED BY <1>1, <1>5, <1>6 DEF TellFirst, new

(* The client's handler stores the next event, or stops. *)
LEMMA ListenKeepsDelivery ==
  ASSUME Provenance, Delivery, NEW u \in Users, Listen(u)
  PROVE  Delivery'
<1>1. PICK f : f = stringToFrameFromServer(Head(toClient[u]))
  OBVIOUS
<1>2. PICK dest : dest = f.headers[<<"destination">>]
  OBVIOUS
<1>3. PICK sender : sender = SenderOf(f.body)
  OBVIOUS
<1>4. /\ toClient[u] # <<>> /\ toClient' = [toClient EXCEPT ![u] = Tail(toClient[u])]
      /\ UNCHANGED <<framesAsStringsQ, toServer, open, thread, channelToConnectionIdsList,
           disturbed, reported>>
  BY <1>1, <1>2, ListenIs
<1>5. \/ /\ UNCHANGED gameNameUserNameToFramesList
         /\ \E how \in {"ended", "undefined", "crashed"} : program' = [program EXCEPT ![u] = how]
      \/ /\ f.command = <<"MESSAGE">> /\ f.body \in Texts
         /\ Store(u, <<dest, sender>>, f.body)
         /\ UNCHANGED program \/ program' = [program EXCEPT ![u] = "undefined"]
  BY <1>1, <1>2, <1>3, ListenIs DEF Bodies
<1>6. /\ Running(u) /\ OfUsers(toClient)
      /\ program \in [Users -> {"running", "ended", "crashed", "undefined"}]
  BY DEF Listen, Provenance, Typed
<1>. SUFFICES ASSUME NEW v \in Users, NEW w \in Users, NEW game \in Joined[v] \cap Joined[w],
                     ReportsPlainly(w)', <<w, game>> \notin disturbed'
     PROVE  Delivered(v, w, game)'
  BY DEF Delivery
<1>. DEFINE events == ReportedOn(w, game)
            bodies == StoredUnder(v, <<game, w>>)
            n == Len(bodies)
            shown == Shown(v, game)
            held == HeldFor(v, w, game)
            Way(heard, client, m) ==
              OnTheWay(heard, shown, open[w], client, held, toServer[w], framesAsStringsQ[w],
                       w, game, events, m)
<1>7. ReportsPlainly(w) /\ <<w, game>> \notin disturbed
  BY <1>4 DEF ReportsPlainly
<1>8. TellFirst(bodies, w, game, events) /\ Way(Running(v), toClient[v], n)
  BY <1>7 DEF Delivery, Delivered
<1>9. events' = events /\ Shown(v, game)' = shown /\ HeldFor(v, w, game)' = held
  BY <1>4 DEF ReportedOn, Shown, HeldFor, Held, Awaits
<1>. HIDE DEF shown, held
<1>10. n \in Nat /\ bodies \in Seq(Texts) /\ toClient[v] \in Seq(Texts) /\ events \in Seq(PlainEvents)
  BY <1>7, <1>8, StoredTexts, TextsOnTheWay, ReportedEvents DEF TellFirst
<1>. HIDE DEF events
<1>11. CASE v # u
  <2>1. toClient'[v] = toClient[v] /\ Running(v)' = Running(v)
    BY <1>4, <1>5, <1>6, <1>11 DEF OfUsers, Running
  <2>2. bodies' = bodies
    <3>1. gameNameUserNameToFramesList'[v] = gameNameUserNameToFramesList[v]
      BY <1>5, <1>11, StoreAppends
    <3>. QED BY <3>1 DEF StoredUnder
  <2>. QED BY <1>4, <1>8, <1>9, <2>1, <2>2 DEF Delivered, events
<1>12. CASE /\ v = u /\ UNCHANGED gameNameUserNameToFramesList
            /\ \E how \in {"ended", "undefined", "crashed"} : program' = [program EXCEPT ![u] = how]
  <2>1. ~Running(v)'
    BY <1>6, <1>12 DEF Running
  <2>2. bodies' = bodies
    BY <1>12 DEF StoredUnder
  <2>3. Way(FALSE, toClient'[v], n)
    <3>. HIDE DEF n
    <3>. QED BY <1>8, WayUnheard
  <2>4. Running(v)' = FALSE
    BY <2>1 DEF Running
  <2>. QED BY <1>4, <1>8, <1>9, <2>2, <2>3, <2>4 DEF Delivered, events
<1>13. CASE /\ v = u /\ f.command = <<"MESSAGE">> /\ f.body \in Texts
            /\ Store(u, <<dest, sender>>, f.body)
            /\ UNCHANGED program \/ program' = [program EXCEPT ![u] = "undefined"]
  <2>1. toClient'[v] = Tail(toClient[v]) /\ toClient[v] # <<>>
    BY <1>4, <1>6, <1>13 DEF OfUsers
  <2>2. Running(v) = TRUE /\ Running(v)' \in BOOLEAN
    BY <1>6, <1>13 DEF Running
  <2>21. ASSUME NEW client, NEW m, Way(TRUE, client, m)
         PROVE  Way(Running(v)', client, m)
    BY <2>21, WayUnheard
  <2>3. /\ <<dest, sender>> = <<game, w>> => bodies' = Append(bodies, f.body)
        /\ <<dest, sender>> # <<game, w>> => bodies' = bodies
    <3>. DEFINE key == <<dest, sender>>
    <3>1. Store(v, key, f.body)
      BY <1>13
    <3>. HIDE DEF key
    <3>2. /\ StoredUnder(v, key)' = Append(StoredUnder(v, key), f.body)
          /\ \A k : k # key => StoredUnder(v, k)' = StoredUnder(v, k)
      BY <3>1, StoreAppends
    <3>3. /\ key = <<game, w>> => bodies' = Append(bodies, f.body)
          /\ key # <<game, w>> => bodies' = bodies
      BY <3>2
    <3>. QED BY <3>3 DEF key
  <2>4. \/ /\ Head(toClient[v]) \in NotFrom(w, game)
           /\ Way(TRUE, Tail(toClient[v]), n)
        \/ /\ n + 1 \in DOMAIN events /\ Head(toClient[v]) \in Forwarded(w, game, events)[n + 1]
           /\ Way(TRUE, Tail(toClient[v]), n + 1)
    <3>1. Way(TRUE, toClient[v], n)
      BY <1>8, <2>2
    <3>. HIDE DEF n
    <3>. QED BY <1>10, <2>1, <3>1, WayHeard
  <2>5. f = stringToFrameFromServer(Head(toClient[v]))
    BY <1>1, <1>13
  <2>6. CASE /\ Head(toClient[v]) \in NotFrom(w, game) /\ Way(TRUE, Tail(toClient[v]), n)
    <3>1. ~Message(f, w, game)
      BY <2>5, <2>6 DEF NotFrom
    <3>2. dest # game \/ sender # w
      BY <1>2, <1>3, <1>13, <3>1 DEF Message
    <3>3. <<dest, sender>> # <<game, w>>
      BY <3>2
    <3>4. bodies' = bodies
      BY <2>3, <3>3
    <3>5. Way(Running(v)', toClient'[v], n)
      BY <2>1, <2>6, <2>21
    <3>. QED BY <1>4, <1>8, <1>9, <3>4, <3>5 DEF Delivered, events
  <2>7. CASE /\ n + 1 \in DOMAIN events /\ Head(toClient[v]) \in Forwarded(w, game, events)[n + 1]
             /\ Way(TRUE, Tail(toClient[v]), n + 1)
    <3>1. Message(f, w, game) /\ BodyTells(f.body, w, game, events[n + 1])
      BY <2>5, <2>7 DEF Forwarded
    <3>2. <<dest, sender>> = <<game, w>>
      BY <1>2, <1>3, <3>1 DEF Message
    <3>3. bodies' = Append(bodies, f.body)
      BY <2>3, <3>2
    <3>4. TellFirst(Append(bodies, f.body), w, game, events)
      BY <1>8, <1>10, <1>13, <2>7, <3>1, TellOneMore
    <3>5. Len(Append(bodies, f.body)) = n + 1
      BY <1>10, <1>13, AppendIs
    <3>6. TellFirst(bodies', w, game, events) /\ Way(TRUE, Tail(toClient[v]), Len(bodies'))
      BY <2>7, <3>3, <3>4, <3>5
    <3>7. Way(Running(v)', toClient'[v], Len(bodies'))
      <4>. DEFINE m == Len(bodies')
      <4>1. Way(TRUE, Tail(toClient[v]), m)
        BY <3>6
      <4>. HIDE DEF m, Way
      <4>2. Way(Running(v)', Tail(toClient[v]), m)
        BY <2>21, <4>1
      <4>. QED BY <2>1, <4>2 DEF m
    <3>. QED BY <1>4, <1>9, <3>6, <3>7 DEF Delivered, events
  <2>. QED BY <2>4, <2>6, <2>7
<1>. QED BY <1>5, <1>11, <1>12, <1>13


(* Every step keeps the invariant. *)
LEMMA NextKeepsDelivery ==
  ASSUME Serving, Provenance, Delivery, [Next]_vars
  PROVE  Delivery'
<1>1. ASSUME NEW u \in Users, NEW file \in DOMAIN Files, Report(u, file)
      PROVE  Delivery'
  BY <1>1, ReportKeepsDelivery
<1>2. ASSUME NEW u \in Users, NEW key \in DOMAIN gameNameUserNameToFramesList[u], StartSummary(u, key)
      PROVE  Delivery'
  BY <1>2, StartSummaryKeepsDelivery
<1>3. ASSUME NEW u \in Users, SendNext(u)
      PROVE  Delivery'
  BY <1>3, SendNextKeepsDelivery
<1>4. ASSUME NEW u \in Users, FinishSummary(u)
      PROVE  Delivery'
  BY <1>4, FinishSummaryKeepsDelivery
<1>5. ASSUME NEW u \in Users, Forward(u)
      PROVE  Delivery'
  BY <1>5, ForwardKeepsDelivery
<1>6. ASSUME NEW u \in Users, Listen(u)
      PROVE  Delivery'
  BY <1>6, ListenKeepsDelivery
<1>7. ASSUME NEW u \in Users, SendLoop(u) \/ NextAddressee(u) \/ SendTo(u)
      PROVE  Delivery'
  BY <1>7, SendLoopKeepsDelivery, NextAddresseeKeepsDelivery, SendToKeepsDelivery
<1>8. ASSUME NEW u \in Users, LeaveGame(u) \/ RemoveLoop(u) \/ RemoveNext(u)
      PROVE  Delivery'
  BY <1>8, LeaveGameKeepsDelivery, RemoveLoopKeepsDelivery, RemoveNextKeepsDelivery
<1>9. CASE UNCHANGED vars
  <2>1. /\ UNCHANGED <<framesAsStringsQ, toClient, gameNameUserNameToFramesList, reported>>
        /\ UNCHANGED program /\ UNCHANGED <<serverVars, toServer>>
    BY <1>9 DEF vars, clientVars
  <2>. QED BY <2>1, DeliveryStill, ServerStill DEF Running
<1>. QED BY <1>1, <1>2, <1>3, <1>4, <1>5, <1>6, <1>7, <1>8, <1>9 DEF Next

(* Delivery in order, without loss or repetition: what v has stored of w's plain reports on a
   game are w's first events, and the rest is in the three queues between them and in the
   hands of the server's thread that sends one on, in the order of the events, at every
   moment and for any number of users, games and files: but for the reports on a game that a
   removal from its list has met. *)
THEOREM DeliveryAlways == Spec => []Delivery
<1>1. Serving /\ Provenance /\ Delivery /\ [Next]_vars => Delivery'
  BY NextKeepsDelivery
<1>. QED BY <1>1, InitDelivery, ServingAlways, ProvenanceAlways, PTL DEF Spec

-------------------------------------------------------------------------------
(* What is stored. *)

(* The last values of a single event are those it gives. *)
LEMMA LastValuesOfOne ==
  ASSUME NEW e, NEW label
  PROVE  LastValues(<<e>>, label) = MapOf(e, label)
<1>1. <<e>> = Append(<<>>, e) /\ <<>> \in Seq({e})
  OBVIOUS
<1>2. LastValues(Append(<<>>, e), label) = Override(LastValues(<<>>, label), MapOf(e, label))
  BY <1>1, LastValuesMore
<1>3. DOMAIN LastValues(<<>>, label) = {}
  <2>1. Giving(<<>>, label, 1) = {} /\ \A k : Giving(<<>>, label, k) = {}
    <3>1. DOMAIN << >> = {}
      OBVIOUS
    <3>. QED BY <3>1 DEF Giving
  <2>. QED BY <2>1, LastValuesIs
<1>. DEFINE f == LastValues(<<>>, label)
            g == MapOf(e, label)
<1>4. DOMAIN g = DOMAIN g /\ g = [k \in DOMAIN g |-> g[k]]
  BY MapOfIs
<1>. HIDE DEF f, g
<1>5. DOMAIN f = {} => Override(f, g) = g
  BY <1>4 DEF Override
<1>. QED BY <1>1, <1>2, <1>3, <1>5 DEF f, g

(* What is stored was sent by a user who has joined the game. *)
LEMMA StoredFromMembers ==
  ASSUME Provenance, NEW v \in Users, NEW w, NEW game, StoredUnder(v, <<game, w>>) # <<>>
  PROVE  w \in Users /\ game \in Joined[v] \cap Joined[w]
<1>. DEFINE key == <<game, w>>
            q == gameNameUserNameToFramesList[v][key]
<1>1. key \in DOMAIN gameNameUserNameToFramesList[v]
  BY DEF StoredUnder
<1>2. q \in Seq(Bodies(v, key, PlainReporters)) /\ q # <<>>
  BY <1>1 DEF Provenance, BodiesAreReports, Kept
<1>. HIDE DEF q
<1>3. Head(q) \in Bodies(v, key, PlainReporters)
  BY <1>2, HeadAndTail
<1>4. PICK x \in Users : \E g \in Joined[v] \cap Joined[x] : key = <<g, x>>
  BY <1>3 DEF Bodies
<1>. QED BY <1>4

(* What is asked of a stored body *)
ReadsWell(body, event) ==
  LET report == ReadReport(body) IN
  /\ report # Throws
  /\ report.name = TextOf(event, <<"event name">>)
  /\ report.time = TextOf(event, <<"time">>)
  /\ report.description = TextOf(event, DescriptionLabel)
  /\ PutAll(report.game) = LastValues(<<event>>, GeneralLabel)
  /\ PutAll(report.team_a) = LastValues(<<event>>, TeamALabel)
  /\ PutAll(report.team_b) = LastValues(<<event>>, TeamBLabel)

(* A body that tells of an event reads as StoredReportsAreWhole asks. *)
LEMMA ToldBodyReadsWell ==
  ASSUME NEW body, NEW w, NEW game, NEW event, BodyTells(body, w, game, event)
  PROVE  ReadsWell(body, event)
<1>. DEFINE report == ReadReport(body)
<1>1. ReadsAsEvent(report, event)
  BY DEF BodyTells
<1>. HIDE DEF report
<1>2. report # Throws
  BY <1>1, ThrowsAssumption DEF ReadsAsEvent
<1>3. \A label : LastValues(<<event>>, label) = MapOf(event, label)
  BY LastValuesOfOne
<1>. QED BY <1>1, <1>2, <1>3 DEF ReadsAsEvent, ReadsWell, report

(* The bodies that a client has stored of a user who reports plain files are those of the first
   events reported, in order, none twice and none left out, unless a removal from the list of the
   game has met one of the reports; and summary reads each as the event it was written of: no
   field is lost, cut or taken for another. *)
THEOREM StoredWhole == Spec => []StoredReportsAreWhole
<1>1. Provenance /\ Delivery => StoredReportsAreWhole
  <2>. SUFFICES ASSUME Provenance, Delivery, NEW v \in Users, NEW w \in Users,
                       NEW game \in Joined[v], ReportsPlainly(w), <<w, game>> \notin disturbed
       PROVE  LET bodies == StoredUnder(v, <<game, w>>)
                  events == ReportedOn(w, game)
              IN  /\ Len(bodies) <= Len(events)
                  /\ \A i \in DOMAIN bodies :
                       LET report == ReadReport(bodies[i]) IN
                       /\ report # Throws
                       /\ report.name = TextOf(events[i], <<"event name">>)
                       /\ report.time = TextOf(events[i], <<"time">>)
                       /\ report.description = TextOf(events[i], DescriptionLabel)
                       /\ PutAll(report.game) = LastValues(<<events[i]>>, GeneralLabel)
                       /\ PutAll(report.team_a) = LastValues(<<events[i]>>, TeamALabel)
                       /\ PutAll(report.team_b) = LastValues(<<events[i]>>, TeamBLabel)
    BY DEF StoredReportsAreWhole
  <2>. DEFINE bodies == StoredUnder(v, <<game, w>>)
              events == ReportedOn(w, game)
              n == Len(bodies)
  <2>1. TellFirst(bodies, w, game, events)
    <3>1. CASE game \in Joined[w]
      BY <3>1 DEF Delivery, Delivered
    <3>2. CASE game \notin Joined[w]
      <4>1. bodies = <<>>
        BY <3>2, StoredFromMembers
      <4>2. Len(<<>>) = 0 /\ 1 .. 0 = {} /\ 0 \in Nat
        OBVIOUS
      <4>3. Len(events) \in Nat
        <5>1. events \in Seq(PlainEvents)
          BY PlainlyReported, OnGameMore DEF Provenance, ReportedOn, OnGame
        <5>. QED BY <5>1, LenProperties
      <4>. QED BY <4>1, <4>2, <4>3 DEF TellFirst
    <3>. QED BY <3>1, <3>2
  <2>2. DOMAIN bodies = 1 .. n
    <3>1. bodies \in Seq(Texts)
      BY StoredTexts
    <3>. QED BY <3>1
  <2>. HIDE DEF bodies, events, n
  <2>3. ASSUME NEW i \in DOMAIN bodies
        PROVE  ReadsWell(bodies[i], events[i])
    BY <2>1, <2>2, ToldBodyReadsWell DEF TellFirst, n
  <2>4. Len(bodies) <= Len(events)
    BY <2>1 DEF TellFirst
  <2>. QED BY <2>3, <2>4 DEF ReadsWell, bodies, events
<1>. QED BY <1>1, ProvenanceAlways, DeliveryAlways, PTL

(* Once no frame is on its way, whoever joined the game has stored every event reported on it
   in plain files, to the last (SendNext, sendProcess, processFromServer), unless one of the
   two has come to an end or is coming to it, or a removal has met a report. *)
THEOREM Arrival == Spec => []ReportsArrive
<1>1. Serving /\ Delivery => ReportsArrive
  <2>. SUFFICES ASSUME Serving, Delivery, NEW v \in Users, NEW w \in Users,
                         NEW game \in Joined[v] \cap Joined[w],
                       ReportsPlainly(w), <<w, game>> \notin disturbed, AtRest(v), AtRest(w),
                       framesAsStringsQ[w] = <<>>, toServer[w] = <<>>, toClient[v] = <<>>
       PROVE  Len(StoredUnder(v, <<game, w>>)) = Len(ReportedOn(w, game))
    BY DEF ReportsArrive
  <2>. DEFINE events == ReportedOn(w, game)
              n == Len(StoredUnder(v, <<game, w>>))
  <2>01. Shown(v, game)
    <3>1. open[v] /\ thread[v].at \notin Leaving
      BY DEF AtRest, At, Leaving
    <3>. QED BY <3>1 DEF Shown, Serving, StillListed
  <2>02. HeldFor(v, w, game) = <<>>
    BY NotHeld DEF AtRest, At, Sending, HeldFor
  <2>1. /\ n \in Nat /\ Running(v) /\ open[w]
        /\ OnTheWay(Running(v), Shown(v, game), open[w], <<>>, <<>>, <<>>, <<>>, w, game, events, n)
    BY <2>02 DEF Delivery, Delivered, TellFirst, AtRest
  <2>. HIDE DEF events, n
  <2>2. PICK a \in Nat, b \in Nat, c \in Nat :
          /\ Carries(<<>>, NotFrom(w, game), Forwarded(w, game, events), n, a)
          /\ Carries(<<>>, NotFrom(w, game), Forwarded(w, game, events), a, b)
          /\ Carries(<<>>, NotOn(game), Sent(w, game, events), b, c)
          /\ Carries(<<>>, NotOn(game), Sent(w, game, events), c, Len(events))
    BY <2>01, <2>1 DEF OnTheWay
  <2>3. a = n /\ b = a /\ c = b /\ Len(events) = c
    BY <2>1, <2>2, CarriesNothing
  <2>4. n = Len(events)
    BY <2>2, <2>3
  <2>. QED BY <2>4 DEF events, n
<1>. QED BY <1>1, ServingAlways, DeliveryAlways, PTL

-------------------------------------------------------------------------------
(* What a summary file tells. *)

(* The first elements of a sequence, and of a longer one *)
LEMMA FirstOnes ==
  ASSUME NEW S, NEW q \in Seq(S), NEW n \in Nat, n <= Len(q)
  PROVE  /\ SubSeq(q, 1, n) \in Seq(S) /\ Len(SubSeq(q, 1, n)) = n
         /\ \A i \in 1 .. n : SubSeq(q, 1, n)[i] = q[i]
OBVIOUS

LEMMA FirstOnesStay ==
  ASSUME NEW S, NEW q \in Seq(S), NEW r \in Seq(S), NEW n \in Nat, n <= Len(q)
  PROVE  SubSeq(q \o r, 1, n) = SubSeq(q, 1, n) /\ n <= Len(q \o r)
<1>. DEFINE all == q \o r
            a == SubSeq(all, 1, n)
            b == SubSeq(q, 1, n)
<1>1. /\ all \in Seq(S) /\ Len(q) \in Nat /\ Len(r) \in Nat /\ Len(all) = Len(q) + Len(r)
      /\ \A i \in 1 .. Len(q) : all[i] = q[i]
  BY LongerConcat
<1>. HIDE DEF all
<1>2. n <= Len(all)
  BY <1>1
<1>3. a \in Seq(S) /\ Len(a) = n /\ \A i \in 1 .. n : a[i] = all[i]
  BY <1>1, <1>2, FirstOnes
<1>4. b \in Seq(S) /\ Len(b) = n /\ \A i \in 1 .. n : b[i] = q[i]
  BY FirstOnes
<1>. HIDE DEF a, b
<1>5. \A i \in 1 .. n : a[i] = b[i]
  BY <1>1, <1>3, <1>4
<1>6. a = b
  BY <1>3, <1>4, <1>5, SeqEqual
<1>. QED BY <1>2, <1>6 DEF a, b, all

(* What has been stored when a summary is asked for is still stored when it is written. *)
StoredIn(stored, key) == IF key \in DOMAIN stored THEN stored[key] ELSE <<>>

Begun(s, stored) == s.begun \in Nat /\ s.begun <= Len(StoredIn(stored, s.key))

SummariesBegun ==
  \A u \in Users : summarizing[u] # Nobody => Begun(summarizing[u], gameNameUserNameToFramesList[u])

(* The summary on file gives the first events that w has reported on a game, those
   among them that had been stored when it was asked for. *)
GivesFirst(summary, game, events, begun) ==
  \E n \in begun .. Len(events) : summary = SummaryOf(game, SubSeq(events, 1, n))

WrittenTells(out, u) ==
  \E w \in Users : \E game \in Joined[u] \cap Joined[w] :
    /\ out.key = <<game, w>> /\ out.begun \in Nat
    /\ ReportsPlainly(w) /\ <<w, game>> \notin disturbed =>
         GivesFirst(out.summary, game, ReportedOn(w, game), out.begun)

SummariesWritten ==
  \A u \in Users : output[u] # Nobody /\ ~output[u].torn => WrittenTells(output[u], u)

(* A summary still gives the first events when more have been reported. *)
LEMMA GivesFirstStill ==
  ASSUME NEW S, NEW events \in Seq(S), NEW more \in Seq(S), NEW summary, NEW game,
         NEW begun \in Nat, GivesFirst(summary, game, events, begun)
  PROVE  GivesFirst(summary, game, events \o more, begun)
<1>. DEFINE all == events \o more
<1>1. PICK n \in begun .. Len(events) : summary = SummaryOf(game, SubSeq(events, 1, n))
  BY DEF GivesFirst
<1>2. Len(events) \in Nat /\ Len(more) \in Nat /\ Len(all) = Len(events) + Len(more)
  BY LongerConcat
<1>3. n \in Nat /\ n <= Len(events) /\ begun <= n
  BY <1>2
<1>4. SubSeq(all, 1, n) = SubSeq(events, 1, n)
  BY <1>3, FirstOnesStay
<1>. HIDE DEF all
<1>5. n \in begun .. Len(all)
  BY <1>2, <1>3
<1>6. GivesFirst(summary, game, all, begun)
  BY <1>1, <1>4, <1>5 DEF GivesFirst
<1>. QED BY <1>6 DEF all

(* A report command of anybody: events are added behind those there are. *)
LEMMA ReportedMore ==
  ASSUME Provenance, NEW u \in Users, NEW file \in DOMAIN Files, Report(u, file),
         NEW w \in Users, NEW game \in Joined[w], ReportsPlainly(w)'
  PROVE  /\ ReportsPlainly(w)
         /\ \E more \in Seq(PlainEvents) : ReportedOn(w, game)' = ReportedOn(w, game) \o more
<1>1. reported' = [reported EXCEPT ![u] = Append(@, file)] /\ file \in DOMAIN Files
  BY ReportsAssumption DEF Report
<1>2. PlainReporters' \subseteq PlainReporters /\ (u \in PlainReporters' => file \in PlainFiles)
  BY <1>1, ReporterGetsLessPlain DEF Provenance
<1>3. w \in PlainReporters' /\ ReportsPlainly(w)
  BY <1>2 DEF PlainReporters
<1>4. /\ reported[w] \in Seq(PlainFiles) /\ ReportedOn(w, game) = OnGame(game, reported[w])
      /\ ReportedOn(w, game) \in Seq(PlainEvents)
  BY <1>3, ReportedEvents
<1>5. reported \in [Users -> Seq(DOMAIN Files)]
  BY DEF Provenance, Typed
<1>6. ReportedOn(w, game)' = OnGame(game, reported'[w])
  BY DEF ReportedOn, OnGame
<1>7. CASE w # u
  <2>1. reported'[w] = reported[w]
    BY <1>1, <1>5, <1>7
  <2>2. <<>> \in Seq(PlainEvents) /\ \A s \in Seq(PlainEvents) : s \o <<>> = s
    OBVIOUS
  <2>3. ReportedOn(w, game)' = ReportedOn(w, game) \o <<>>
    BY <1>4, <1>6, <2>1, <2>2
  <2>. QED BY <1>3, <2>2, <2>3
<1>8. CASE w = u
  <2>1. reported'[w] = Append(reported[w], file)
    BY <1>1, <1>5, <1>8
  <2>2. /\ EventsOn[game][file] \in Seq(PlainEvents)
        /\ OnGame(game, Append(reported[w], file)) = OnGame(game, reported[w]) \o EventsOn[game][file]
    BY <1>2, <1>3, <1>4, <1>8, EventsOnIs, OnGameMore
  <2>. QED BY <1>3, <1>4, <1>6, <2>1, <2>2
<1>. QED BY <1>7, <1>8

(* so what is on file stays true, *)
LEMMA ReportKeepsWritten ==
  ASSUME Provenance, SummariesWritten, NEW u \in Users, NEW file \in DOMAIN Files, Report(u, file)
  PROVE  SummariesWritten'
<1>1. output' = output /\ disturbed' = disturbed
  BY DEF Report, serverVars
<1>. SUFFICES ASSUME NEW v \in Users, output[v] # Nobody, ~output[v].torn
     PROVE  WrittenTells(output[v], v)'
  BY <1>1 DEF SummariesWritten
<1>. DEFINE out == output[v]
<1>2. PICK w \in Users : \E game \in Joined[v] \cap Joined[w] :
        /\ out.key = <<game, w>> /\ out.begun \in Nat
        /\ ReportsPlainly(w) /\ <<w, game>> \notin disturbed =>
             GivesFirst(out.summary, game, ReportedOn(w, game), out.begun)
  BY DEF SummariesWritten, WrittenTells
<1>21. PICK game \in Joined[v] \cap Joined[w] :
        /\ out.key = <<game, w>> /\ out.begun \in Nat
        /\ ReportsPlainly(w) /\ <<w, game>> \notin disturbed =>
             GivesFirst(out.summary, game, ReportedOn(w, game), out.begun)
  BY <1>2
<1>3. ASSUME ReportsPlainly(w)', <<w, game>> \notin disturbed
      PROVE  GivesFirst(out.summary, game, ReportedOn(w, game)', out.begun)
  <2>1. ReportsPlainly(w)
    BY <1>3, ReportedMore
  <2>2. PICK more \in Seq(PlainEvents) : ReportedOn(w, game)' = ReportedOn(w, game) \o more
    BY <1>3, ReportedMore
  <2>3. ReportedOn(w, game) \in Seq(PlainEvents)
    BY <2>1, ReportedEvents
  <2>. QED BY <1>3, <1>21, <2>1, <2>2, <2>3, GivesFirstStill
<1>. QED BY <1>1, <1>21, <1>3 DEF WrittenTells

(* as it does when nothing is reported or written. *)
LEMMA WrittenStill ==
  ASSUME SummariesWritten, UNCHANGED <<output, reported>>, disturbed \subseteq disturbed'
  PROVE  SummariesWritten'
BY DEF SummariesWritten, WrittenTells, ReportsPlainly, ReportedOn

(* What FinishSummary writes *)
LEMMA FinishedTells ==
  ASSUME Provenance, Delivery, SummariesBegun, NEW u \in Users, summarizing[u] # Nobody,
         NEW key, key = summarizing[u].key,
         NEW out, out.key = key, out.begun = summarizing[u].begun,
         out.summary = summaryProcess(key[1], gameNameUserNameToFramesList[u][key])
  PROVE  WrittenTells(out, u)
<1>. DEFINE bodies == gameNameUserNameToFramesList[u][key]
            n == Len(bodies)
<1>1. key \in DOMAIN gameNameUserNameToFramesList[u]
  BY DEF Provenance, Typed
<1>2. bodies = StoredUnder(u, key) /\ bodies # <<>> /\ bodies \in Seq(Texts)
  BY <1>1, KeptTexts DEF StoredUnder
<1>3. PICK w, game : w \in Users /\ game \in Joined[u] \cap Joined[w] /\ key = <<game, w>>
  <2>1. bodies \in Seq(Bodies(u, key, PlainReporters))
    BY <1>1 DEF Provenance, BodiesAreReports, Kept
  <2>. HIDE DEF bodies
  <2>2. Head(bodies) \in Bodies(u, key, PlainReporters)
    BY <1>2, <2>1, HeadAndTail
  <2>. QED BY <2>2 DEF Bodies
<1>4. out.begun \in Nat /\ out.begun <= n
  BY <1>1 DEF SummariesBegun, Begun, StoredIn
<1>5. n \in Nat /\ n > 0 /\ DOMAIN bodies = 1 .. n
  <2>. HIDE DEF bodies
  <2>. QED BY <1>2
<1>6. ASSUME ReportsPlainly(w), <<w, game>> \notin disturbed
      PROVE  GivesFirst(out.summary, game, ReportedOn(w, game), out.begun)
  <2>. DEFINE events == ReportedOn(w, game)
              first == SubSeq(events, 1, n)
  <2>1. TellFirst(bodies, w, game, events)
    BY <1>2, <1>3, <1>6 DEF Delivery, Delivered
  <2>2. events \in Seq(PlainEvents) /\ Len(events) \in Nat
    BY <1>3, <1>6, ReportedEvents
  <2>3. out.summary = summaryProcess(game, bodies)
    BY <1>3
  <2>. HIDE DEF bodies, events, n
  <2>4. n <= Len(events) /\ \A i \in 1 .. n : BodyTells(bodies[i], w, game, events[i])
    BY <2>1 DEF TellFirst, n
  <2>5. first \in Seq(PlainEvents) /\ Len(first) = n /\ \A i \in 1 .. n : first[i] = events[i]
    BY <1>5, <2>2, <2>4, FirstOnes
  <2>. HIDE DEF first
  <2>6. \A i \in 1 .. n : BodyTells(bodies[i], w, game, first[i])
    BY <2>4, <2>5
  <2>7. BodiesTell(bodies, w, game, first)
    BY <1>5, <2>5, <2>6 DEF BodiesTell, n
  <2>8. PlainGame(game)
    <3>1. 1 \in 1 .. n
      BY <1>5
    <3>. QED BY <2>4, <3>1 DEF BodyTells
  <2>9. out.summary = SummaryOf(game, first)
    BY <2>3, <2>7, <2>8, SummaryOfBodies
  <2>10. n \in out.begun .. Len(events)
    BY <1>4, <1>5, <2>2, <2>4
  <2>. QED BY <2>9, <2>10 DEF GivesFirst, first, events
<1>. QED BY <1>3, <1>4, <1>6 DEF WrittenTells

(* What is stored only grows, *)
LEMMA BegunStill ==
  ASSUME NEW s, NEW stored, NEW more, Begun(s, stored),
         Len(StoredIn(stored, s.key)) \in Nat, Len(StoredIn(more, s.key)) \in Nat,
         Len(StoredIn(stored, s.key)) <= Len(StoredIn(more, s.key))
  PROVE  Begun(s, more)
<1>. DEFINE m == Len(StoredIn(stored, s.key))
            n == Len(StoredIn(more, s.key))
            b == s.begun
<1>1. b \in Nat /\ b <= m
  BY DEF Begun
<1>2. m \in Nat /\ n \in Nat /\ m <= n
  OBVIOUS
<1>. HIDE DEF m, n, b
<1>3. b \in Nat /\ b <= n
  BY <1>1, <1>2
<1>. QED BY <1>3 DEF Begun, n, b

(* or stays as it is, *)
LEMMA BegunSame ==
  ASSUME SummariesBegun, UNCHANGED <<gameNameUserNameToFramesList, summarizing>>
  PROVE  SummariesBegun'
BY DEF SummariesBegun, Nobody

(* a summary starts with what is stored, *)
LEMMA StartedBegun ==
  ASSUME Provenance, SummariesBegun, NEW u \in Users, NEW key, StartSummary(u, key)
  PROVE  SummariesBegun'
<1>. DEFINE stored == gameNameUserNameToFramesList[u]
            s == [key |-> key, begun |-> Len(stored[key]), torn |-> FALSE]
<1>1. /\ summarizing' = [summarizing EXCEPT ![u] = s]
      /\ UNCHANGED gameNameUserNameToFramesList /\ key \in DOMAIN stored
  BY DEF StartSummary
<1>2. stored[key] \in Seq(Texts)
  BY <1>1, KeptTexts
<1>3. Begun(s, stored)
  <2>. DEFINE b == Len(stored[key])
  <2>1. b \in Nat /\ b <= b
    BY <1>2
  <2>2. s.key = key /\ s.begun = b
    OBVIOUS
  <2>. HIDE DEF s
  <2>. QED BY <1>1, <2>1, <2>2 DEF Begun, StoredIn
<1>. HIDE DEF s
<1>4. OfUsers(summarizing)
  BY DEF Provenance, Typed
<1>5. summarizing'[u] = s /\ \A v \in Users : v # u => summarizing'[v] = summarizing[v]
  BY <1>1, <1>4 DEF OfUsers
<1>. QED BY <1>1, <1>3, <1>5 DEF SummariesBegun, Nobody

(* is done with when it is written, *)
LEMMA FinishedBegun ==
  ASSUME Provenance, SummariesBegun, NEW u \in Users, FinishSummary(u)
  PROVE  SummariesBegun'
<1>1. /\ summarizing' = [summarizing EXCEPT ![u] = Nobody]
      /\ UNCHANGED gameNameUserNameToFramesList
  BY FinishSummaryIs
<1>2. OfUsers(summarizing)
  BY DEF Provenance, Typed
<1>3. \A v \in Users : summarizing'[v] = Nobody \/ summarizing'[v] = summarizing[v]
  BY <1>1, <1>2 DEF OfUsers
<1>. QED BY <1>1, <1>3 DEF SummariesBegun, Nobody

(* and a message may be stored while it is being written. *)
LEMMA ListenedBegun ==
  ASSUME Provenance, SummariesBegun, NEW u \in Users, Listen(u)
  PROVE  SummariesBegun'
<1>1. PICK f : f = stringToFrameFromServer(Head(toClient[u]))
  OBVIOUS
<1>2. PICK dest : dest = f.headers[<<"destination">>]
  OBVIOUS
<1>3. PICK key : key = <<dest, SenderOf(f.body)>>
  OBVIOUS
<1>4. /\ UNCHANGED gameNameUserNameToFramesList \/ (f.body \in Texts /\ Store(u, key, f.body))
      /\ \/ UNCHANGED summarizing
         \/ /\ summarizing[u] # Nobody
            /\ summarizing' = [summarizing EXCEPT ![u] = Torn(summarizing[u])]
  BY <1>1, <1>2, <1>3, ListenIs DEF Bodies
<1>41. ASSUME NEW v \in Users, summarizing'[v] # Nobody
       PROVE  /\ summarizing[v] # Nobody /\ summarizing'[v].key = summarizing[v].key
              /\ summarizing'[v].begun = summarizing[v].begun
  <2>1. OfUsers(summarizing) /\ \A x \in Users : summarizing[x] # Nobody => IsSummary(summarizing[x])
    BY DEF Provenance, Typed
  <2>2. summarizing[u] # Nobody => /\ Torn(summarizing[u]).key = summarizing[u].key
                                   /\ Torn(summarizing[u]).begun = summarizing[u].begun
    BY <2>1, TornIs
  <2>3. CASE UNCHANGED summarizing
    BY <1>41, <2>3
  <2>4. CASE /\ summarizing[u] # Nobody
             /\ summarizing' = [summarizing EXCEPT ![u] = Torn(summarizing[u])]
    BY <1>41, <2>1, <2>2, <2>4 DEF OfUsers
  <2>. QED BY <1>4, <2>3, <2>4
<1>42. SUFFICES ASSUME NEW v \in Users, summarizing[v] # Nobody
                PROVE  Begun(summarizing[v], gameNameUserNameToFramesList'[v])
  <2>. SUFFICES ASSUME NEW v \in Users, summarizing'[v] # Nobody
                PROVE  Begun(summarizing'[v], gameNameUserNameToFramesList'[v])
    BY DEF SummariesBegun, Nobody
  <2>1. Begun(summarizing[v], gameNameUserNameToFramesList'[v])
    BY <1>41
  <2>. QED BY <1>41, <2>1 DEF Begun
<1>5. CASE UNCHANGED gameNameUserNameToFramesList
  BY <1>42, <1>5 DEF SummariesBegun
<1>6. CASE f.body \in Texts /\ Store(u, key, f.body)
  <2>1. /\ StoredUnder(u, key)' = Append(StoredUnder(u, key), f.body)
        /\ \A k : k # key => StoredUnder(u, k)' = StoredUnder(u, k)
        /\ \A x \in Users : x # u =>
             gameNameUserNameToFramesList'[x] = gameNameUserNameToFramesList[x]
    BY <1>6, StoreAppends
  <2>. DEFINE old == gameNameUserNameToFramesList[u]
              new == gameNameUserNameToFramesList'[u]
  <2>2. /\ \A k : StoredUnder(u, k) = StoredIn(old, k)
        /\ \A k : StoredUnder(u, k)' = StoredIn(new, k)
    BY DEF StoredUnder, StoredIn
  <2>3. \A k : Len(StoredIn(old, k)) \in Nat
    <3>1. \A S : \A q \in Seq(S) : Len(q) \in Nat
      BY ONLY LenProperties
    <3>. QED BY <2>2, <3>1, StoredTexts
  <2>4. Len(StoredIn(new, key)) = Len(StoredIn(old, key)) + 1
    BY <1>6, <2>1, <2>2, StoredTexts, AppendIs
  <2>. HIDE DEF old, new
  <2>5. \A k : /\ Len(StoredIn(new, k)) \in Nat
              /\ Len(StoredIn(old, k)) <= Len(StoredIn(new, k))
    <3>. TAKE k
    <3>1. CASE k = key
      BY <2>3, <2>4, <3>1
    <3>2. CASE k # key
      BY <2>1, <2>2, <2>3, <3>2
    <3>. QED BY <3>1, <3>2
  <2>6. ASSUME NEW s, Begun(s, old)
        PROVE  Begun(s, new)
    BY <2>3, <2>5, <2>6, BegunStill
  <2>7. CASE v = u
    BY <1>42, <2>6, <2>7 DEF SummariesBegun, old, new
  <2>8. CASE v # u
    BY <1>42, <2>1, <2>8 DEF SummariesBegun
  <2>. QED BY <2>7, <2>8
<1>. QED BY <1>4, <1>5, <1>6

(* Every step keeps what the summaries in writing rest on, *)
LEMMA NextKeepsBegun ==
  ASSUME Provenance, SummariesBegun, [Next]_vars
  PROVE  SummariesBegun'
<1>1. ASSUME NEW u \in Users, NEW key, StartSummary(u, key)
      PROVE  SummariesBegun'
  BY <1>1, StartedBegun
<1>2. ASSUME NEW u \in Users, FinishSummary(u)
      PROVE  SummariesBegun'
  BY <1>2, FinishedBegun
<1>3. ASSUME NEW u \in Users, Listen(u)
      PROVE  SummariesBegun'
  BY <1>3, ListenedBegun
<1>4. ASSUME NEW u \in Users, NEW file, Report(u, file)
      PROVE  SummariesBegun'
  BY <1>4, BegunSame DEF Report
<1>5. ASSUME NEW u \in Users,
             \/ SendNext(u) \/ Forward(u)
             \/ SendLoop(u) \/ NextAddressee(u) \/ SendTo(u)
             \/ LeaveGame(u) \/ RemoveLoop(u) \/ RemoveNext(u)
      PROVE  SummariesBegun'
  <2>1. UNCHANGED <<gameNameUserNameToFramesList, summarizing>>
    BY <1>5 DEF SendNext, Forward, SendLoop, NextAddressee, SendTo, LeaveGame, RemoveLoop, RemoveNext,
                clientVars
  <2>. QED BY <2>1, BegunSame
<1>6. CASE UNCHANGED vars
  BY <1>6, BegunSame DEF vars, clientVars
<1>. QED BY <1>1, <1>2, <1>3, <1>4, <1>5, <1>6 DEF Next

(* the one that is written gives the stored events if its copy is whole, *)
LEMMA FinishKeepsWritten ==
  ASSUME Provenance, Delivery, SummariesBegun, SummariesWritten, NEW u \in Users, FinishSummary(u)
  PROVE  SummariesWritten'
<1>. DEFINE key == summarizing[u].key
            torn == summarizing[u].torn
            summary == summaryProcess(key[1], gameNameUserNameToFramesList[u][key])
            new(text) == [key |-> key, begun |-> summarizing[u].begun, torn |-> torn,
                          summary |-> text]
<1>1. /\ summarizing[u] # Nobody /\ UNCHANGED <<reported, disturbed>>
      /\ \/ output' = output
         \/ ~torn /\ output' = [output EXCEPT ![u] = new(summary)]
         \/ torn /\ \E text : output' = [output EXCEPT ![u] = new(text)]
  <2>1. /\ summarizing[u] # Nobody /\ UNCHANGED <<reported, disturbed>>
        /\ \/ output' = output
           \/ ~torn /\ WriteSummary(u, summary)
           \/ torn /\ \E text : WriteSummary(u, text)
    BY FinishSummaryIs
  <2>2. \A text : WriteSummary(u, text) => output' = [output EXCEPT ![u] = new(text)]
    BY DEF WriteSummary
  <2>. HIDE DEF new, summary, torn
  <2>. QED BY <2>1, <2>2
<1>2. \A text : /\ new(text).key = key /\ new(text).begun = summarizing[u].begun
               /\ new(text).summary = text /\ new(text).torn = torn
  OBVIOUS
<1>. HIDE DEF new
<1>3. WrittenTells(new(summary), u)
  BY <1>1, <1>2, FinishedTells
<1>. HIDE DEF summary, torn
<1>4. OfUsers(output)
  BY DEF Provenance, Typed
<1>5. ASSUME NEW v \in Users, output'[v] # Nobody, ~output'[v].torn
      PROVE  WrittenTells(output'[v], v)
  <2>1. CASE output'[v] = output[v]
    BY <1>5, <2>1 DEF SummariesWritten
  <2>2. CASE ~torn /\ output' = [output EXCEPT ![u] = new(summary)]
    <3>1. output'[v] = output[v] \/ (v = u /\ output'[v] = new(summary))
      BY <1>4, <2>2 DEF OfUsers
    <3>. QED BY <1>3, <2>1, <3>1
  <2>3. ASSUME torn, NEW text, output' = [output EXCEPT ![u] = new(text)]
        PROVE  WrittenTells(output'[v], v)
    <3>1. output'[v] = output[v] \/ output'[v] = new(text)
      BY <1>4, <2>3 DEF OfUsers
    <3>. QED BY <1>2, <1>5, <2>1, <2>3, <3>1
  <2>. QED BY <1>1, <2>1, <2>2, <2>3
<1>. QED BY <1>1, <1>5 DEF SummariesWritten, WrittenTells, ReportsPlainly, ReportedOn, Nobody

(* and every step keeps the summaries on file true. *)
LEMMA NextKeepsWritten ==
  ASSUME Provenance, Delivery, SummariesBegun, SummariesWritten, [Next]_vars
  PROVE  SummariesWritten'
<1>1. ASSUME NEW u \in Users, NEW file \in DOMAIN Files, Report(u, file)
      PROVE  SummariesWritten'
  BY <1>1, ReportKeepsWritten
<1>2. ASSUME NEW u \in Users, NEW key, StartSummary(u, key)
      PROVE  SummariesWritten'
  BY <1>2, WrittenStill DEF StartSummary, serverVars
<1>3. ASSUME NEW u \in Users,
             \/ SendNext(u) \/ Forward(u) \/ Listen(u)
             \/ SendLoop(u) \/ NextAddressee(u) \/ SendTo(u)
             \/ LeaveGame(u) \/ RemoveLoop(u) \/ RemoveNext(u)
      PROVE  SummariesWritten'
  <2>1. UNCHANGED <<output, reported>>
    BY <1>3 DEF SendNext, Forward, Listen, SendLoop, NextAddressee, SendTo, LeaveGame, RemoveLoop,
                RemoveNext, clientVars
  <2>2. disturbed \subseteq disturbed'
    BY <1>3 DEF SendNext, Forward, Listen, SendLoop, NextAddressee, SendTo, LeaveGame, RemoveLoop,
                RemoveNext, RemoveOwn, serverVars
  <2>. QED BY <2>1, <2>2, WrittenStill
<1>4. ASSUME NEW u \in Users, FinishSummary(u)
      PROVE  SummariesWritten'
  BY <1>4, FinishKeepsWritten
<1>5. CASE UNCHANGED vars
  BY <1>5, WrittenStill DEF vars, clientVars, serverVars
<1>. QED BY <1>1, <1>2, <1>3, <1>4, <1>5 DEF Next

(* A summary file tells of a plain reporter's first events on the game: the teams, for every
   update the last value given, and each event once in order.  It has all the events that
   had been stored when the command was typed, and may have later ones.  Left out are the
   summaries of a copy that a store has torn, and of reports that a removal has met. *)
THEOREM SummariesTell == Spec => []SummaryTellsTheReports
<1>1. Init => SummariesBegun /\ SummariesWritten
  BY DEF Init, SummariesBegun, SummariesWritten
<1>2. Provenance /\ Delivery /\ SummariesBegun /\ SummariesWritten /\ [Next]_vars
        => SummariesBegun' /\ SummariesWritten'
  BY NextKeepsBegun, NextKeepsWritten
<1>3. SummariesWritten => SummaryTellsTheReports
  <2>. SUFFICES ASSUME SummariesWritten, NEW u \in Users, output[u] # Nobody, ~output[u].torn,
                       NEW game, game = output[u].key[1], NEW w, w = output[u].key[2],
                       w \in Users, ReportsPlainly(w), <<w, game>> \notin disturbed
       PROVE  \E n \in output[u].begun .. Len(ReportedOn(w, game)) :
                output[u].summary = SummaryOf(game, SubSeq(ReportedOn(w, game), 1, n))
    BY DEF SummaryTellsTheReports
  <2>1. WrittenTells(output[u], u)
    BY DEF SummariesWritten
  <2>2. GivesFirst(output[u].summary, game, ReportedOn(w, game), output[u].begun)
    BY <2>1 DEF WrittenTells
  <2>. QED BY <2>2 DEF GivesFirst
<1>. QED BY <1>1, <1>2, <1>3, ProvenanceAlways, DeliveryAlways, PTL DEF Spec

=============================================================================
