# Verification of the FIFA World Cup forum

The repository is a forum for reports from football games, spoken over a small STOMP
dialect: a Java server with two execution modes and a C++ terminal client. This directory
holds TLA+ models of the parts whose correctness does not show in a test, the TLC runs that
check them on small instances, and TLAPS proofs of what matters most for every instance.

Paths below are relative to `src/SPL231-Assignment3-student-template/`; the server's classes
are under `server/src/main/java/bgu/spl/net/`.

## The system

| Component | State | Operations | Talks to |
|---|---|---|---|
| `impl/stomp/ConnectionsImpl`, `User` | handlers, logged-in user names and passcodes, channel lists, message counter; per user the two subscription maps | `send` to one, `send` to a channel, `subscribe`, `unsubscribe`, `connect`, `disconnect`, `registerUser` | every protocol object, from every thread, without a lock |
| `impl/stomp/StompProtocol` | `shouldTerminate`, `connectionId` | `process`: CONNECT, SEND, SUBSCRIBE, UNSUBSCRIBE, DISCONNECT, anything else; refusals; receipts | ConnectionsImpl |
| `srv/BaseServer`, `BlockingConnectionHandler` (mode `tpc`) | socket, streams, connection counter | accept, read and decode, handle a frame, write, end | one thread and one protocol per connection |
| `srv/ActorThreadPool` | queue per actor, `playingNow`, the executor | `submit`, `complete`, `shutdown` | submitted to by the selector thread, run by the executor's |
| `srv/Reactor`, `NonBlockingConnectionHandler` (mode `reactor`) | selector, its task queue, a write queue per connection | accept, `continueRead`, `continueWrite`, `updateInterestedOps` | ActorThreadPool, protocol |
| `impl/stomp/StompEncoderDecoder`, `Frame` | bytes of the frame being read | `decodeNextByte`, `encode` | handlers |
| client: `StompClient`, `ConnectionHandler`, `StompClientProtocol` | session flags, subscription and receipt maps, socket | keyboard commands, server frames, login and logout | keyboard thread, server-listener thread, main thread |
| client: `event`, reports and summaries | the bodies received, by game and sender | parse a file of events, make report frames, store reports, merge them into a summary | client protocol, `json.hpp` |
| client: `json.hpp` (vendored) | the lexer's buffer, the parser's two stacks, the value so far | `json::parse` of a file, conversions of its values | `event` |
| examples | | | not part of the forum |

What is hard here:

* **Sequences of frames.** Each frame is legal by itself; logging in again on a connection
  that is logged in, one id for two subscriptions, or a refusal in the middle of a session
  leave the maps of ConnectionsImpl, the users' maps and the connections' sessions to
  disagree.
* **Ends that are only half an end.** A connection may be ended by the protocol, by the
  client, by bytes the decoder cannot read, or by an exception in `disconnect` after the
  ERROR frame was sent.
* **Scheduling.** Runnables of one connection must stay in order and apart from each other on a pool whose
  threads die and are replaced; no wakeup may be lost between `submit` and `complete`.
* **Unsynchronised shared maps** in both modes (check-then-act on login, on registration and
  on a channel's first subscription; `nextMessageId++`; iteration while another thread
  removes).
* **Client threads** which share maps without a lock, and of which one blocks in `getline`.
* **Text in text.** An event is a JSON value, then lines of `key:value` in the body of a frame
  of lines of `key:value`, then fields again; four programs' parts split it at the same
  characters, and none of them escapes any.

`PROJECT.json` lists these as hazards, each at its line, with the properties that guard
against it.

## What makes each component correct

* *Forum state and protocol*: a user is logged in on at most one connection; flags,
  subscriptions and lists agree with the sessions; an id leads to the channel it was given
  for; a report goes to every subscriber once; what one connection does leaves the others
  alone; an ERROR ends the connection exactly where the client expects it.
* *Actor pool*: one runnable of an actor at a time, in the order of submission, and all of
  them in the end.
* *Reactor*: no wakeup is lost between a handler that queues a frame and the selector that
  goes back to reading; what is queued is written; a connection whose session a refusal has
  ended is closed, after the ERROR frame; the selector loop survives closed connections.
* *Client*: client and server agree on when a session is over; an exit names the game it is
  meant for or none; both threads of a session end with it.
* *Codec, reports and summaries*: what is reported is stored whole and in order by everyone who joined
  the game and nobody else's report changes it; a summary holds the last value reported; what
  one user reports ends nobody's program.
* *JSON*: a file is accepted exactly if it is a document, and stands for the value the grammar
  gives it.

## Modules

```
Frames <- Connections <- StompProtocol <- StompServer <- StompServerMC      (TLC)
   |                                           |     <- StompServerProofs   (TLAPS)
   |                                           +-- implements --> Forum
   +---- StompThreads <- StompThreadsMC, StompThreadsProofs
   |                                             StompServer
   +---- StompClient <---------------- ClientServer ---+     <- ClientServerMC, ClientServerProofs
ActorThreadPool <- ActorThreadPoolMC, ActorThreadPoolProofs
       +-- implements --> Mailbox <- used as its pool by -- Reactor <- ReactorMC, ReactorProofs
Codec <- Json <- EventFile <- Reports <- ReportsMC
                    <- EventFileProofs <- ReportsProofs
JsonLexer <- JsonParser <- JsonGrammar <- JsonMC, JsonParserProofs
```

**Frames** has the frames as records of what the handlers read or fill in, and the headers
each command must have. `Requests`, the frames clients may send, is a constant: the MC modules
list them, the proofs hold for any.

**Connections** is the singleton and its users. A `HashMap` is a total function with `Null`
for an absent key; the fields of `User` are functions of the user name. A channel's
`LinkedList` of connection ids is kept as the number of times each id occurs: the ids are
different sockets, so the order inside one report is not observable, while the number of
copies is. `connectionIdToConnectionHandler` holds the state of the handler's socket:
nothing ever removes a handler from the map, so a closed one stays and swallows what is
written to it. Every operation of the code is an operator that says what it assigns.

**StompProtocol** is `process` with its handlers. One operator per handler; the checks are
conjuncts in the order of the code, a refusal is a disjunct. `sent` holds the frames the
last step wrote to each connection, in order, so that properties can talk about replies. A refusal on a connection without a
user sends the ERROR frame and then throws in `ConnectionsImpl.disconnect` (line 54 looks up
the user of a connection that has none): the receipt is not sent and the thread ends, which
the model renders as `shouldTerminate`: in both cases no further frame is handled and the
socket is closed. Bodies are left out here, as nothing on the server depends on them; Reports has them.

**StompServer** composes them with the life of a connection: `Accept`, `Receive` (one frame
from anyone, in any order), `LeaveLoop` (the loop of `run` ends and the socket is closed) and
`ConnectionLost` (the client went away, or sent bytes that make the decoder throw). A frame
is one step: this module is about sequences of frames. `PoliteSpec` restricts the clients to
those that send no CONNECT on a connection that is logged in; it is a subset of `Spec`, used
where the second login is known to break the property (see *Disagreements*).

**Forum** is the promise without frames, ids or lists: exclusive logins, membership of
channels, a report delivered once to every reachable member and to nobody else.

**StompThreads** is the same code once more, at the grain that StompServer leaves out: a step
is one access of a handler to something another connection's thread may change. Users and
lists are objects here, since a registration or a first subscription that another one
overwrites leaves its object to the threads that already hold it. A thread's iterator over a
list has a position and a mark that the list was modified since: `LinkedList` fails in
`next()` after a foreign modification, but not in `hasNext()`, which compares with the current
size, and that is the difference between a report that is cut short with an exception and one
that silently misses its last addressee. The outcomes the model gives are those of
interleaved accesses; the tearing inside an unsynchronised `HashMap` is left out, so it
understates what may go wrong. `Spec` lets anyone log in as anyone. In `OwnNameSpec` a client logs in
under the name of the user who sits there, and a user opens a connection when the one before
is closed or has not logged in; several users still work at once, and a user may come
back.

**ActorThreadPool** has one action per method: `submit` and `complete` hold the actor's
monitor from end to end and are atomic; `Execute` is the executor's behaviour (start a
thread if fewer than the fixed number live, else queue), `Take`, `EndRun` (return or throw),
`Replace` (the executor replaces a thread that died) and `shutdown` (`shutdownNow`: the
queue is dropped, the running tasks go on, later `execute` calls are rejected). Runnables are
numbered per actor, so that order can be stated.

**Mailbox** is the promise per actor: run one at a time, to the end, in order.

**Reactor** is the selector thread with the connections' write queues. The selector's place in
`serve` and `continueWrite` is a program counter, since the pool's threads queue frames and
tasks between any two of its steps: `Select`, `RunTask`, `HandleKey` (read a buffer, or the
end of the stream), `Write` (all or a part of the frame at the head), `WroteAll` and `LookAgain`
(the two tests of the queue), `Finish`. What a pool thread does with a buffer is `Process`,
then a `Send` and an `UpdateInterestedOps` for each frame sent. The pool is `Mailbox`, which
`actor_pool` shows that ActorThreadPool implements. The protocol is reduced to what the
reactor can tell apart: somebody joins, sends to all who joined, leaves or is refused; a
refusal of somebody who is not logged in throws; the one refusal that ends nothing, of a login
under the name of a connected user, has an action of its own (`UserAlreadyLoggedIn`). Clients are external: they send frames at any
time, and in `Spec` also go away; in `StaySpec` they stay.

**StompClient** is the terminal client: `main` at its prompt (`LogIn`, `Quit`, `Answer`,
`Join`), the keyboard listener, whose place in `runKeyBoardListener` is a program counter
(test the flag, get a line, process it, test again, write, sleep), and the server listener,
one frame at a time (`ReadFrame`). `processFromKB` is one step per line with one operator per
command, followed by a step for its return: while the keyboard listener is there, its
`emplace` may still be under way, and the listener's `receiptIdToPrintMessage[...]` on the
same `unordered_map` may miss its entry or lose the one being put in. That is the part of the
data race's outcomes the model has; a crash is another. A line typed at the prompt and a line
of the session come from `Lines`; a report is the number of its events. The wrong id of an exit without a join, -1, is `Unknown`.

**ClientServer** puts the client in front of `StompServer` (an `INSTANCE`; what arrives is
what `sent` holds after each step). Frames arrive in order; a frame written to a connection
the server has closed is lost, as the client ignores what `sendFrameAscii` returns. A socket stays up until
one side closes it: what a lost connection does is in StompServer and in *Disagreements*.

**Codec** is both sides' way between a frame and its text: `encode`, `extractFrame`,
`frameToString`, `stringToFrameFromServer` and the two ways of splitting (Java's drops empty
pieces at the end, the client's does not). A text is a sequence of tokens: line feed, colon,
underscore, which is what the programs look for, and words that contain none of them (`Tokens`: strings, the
separators and the programs' own `Keywords`). So a
word cannot be cut in two. A frame that makes the reader throw is
`Throws`. The NUL behind a frame is left out, a connection being a sequence of texts; the order
of a hash map's entries is one that TLC picks. Two things about text are lost: a NUL inside one, which JSON can
write as `\u0000` and which would end the frame early for either reader, so that texts with one are excluded (by
`Texts`, and so by `FilesAssumption`); and the bytes, of which `encode` makes as many as the
platform's default charset says (`getBytes()`, `StompEncoderDecoder.java:47`) while everybody else takes UTF-8: the model has
a platform where that is the same.

**Json** has the values `event.cpp` gets from the parser and the conversions it asks for:
`operator[]`, iteration, `items`, to a string (a throw for anything else) and to an `int`,
which cuts a larger number off (`IntWidth`). A fraction is its whole part; a double beyond
`int` is left out. The text of an array is abstracted to a word, that of an object to its keys, values and colons.
`IsJson` says what a parsed value has, to the depth that `event.cpp` looks at it (`IsFile`): it types the constant `Files`.

**EventFile** is `parseEventsFile`, `reportProcess` and `summaryProcess` as operators: from a
value to event records, from those to the bodies of reports, and from bodies back to maps of
updates by looking for the headings. An index out of range (`at`) is `Throws`.

**Reports** lets all of it run: each user's keyboard listener sends the frames of a `report`
one by one or works on a `summary`, its server listener stores what arrives, the connection's
thread in the server decodes and refuses a report or hands it round; texts are on
their way in between. The thread walks the list of the game as in StompThreads, `hasNext`, `next` and `send` being steps
of their own (`SendLoop`, `NextAddressee`, `SendTo`), and so does the `removeIf` by which `disconnect` takes a refused user from
its lists (`LeaveGame`, `RemoveLoop`, `RemoveNext`). So a refusal in the middle of another's report may make that loop
miss an addressee or end its thread with an exception, and a report is then not stored by everyone.
`disturbed` remembers on which user's reports, of which game, this has happened; what the properties say of
completeness is about the others. `Spec` has no fairness: what should arrive is stated for the moments when nothing is
on its way (`ReportsArrive`). Logging in and joining are StompClient's matter, so who has
joined, and in which order, is a constant, and the only ones to leave are the refused.
Without a lock, a store may meet a copy of the same list, or add a key to the tree that is being
searched (`Races`): the two go well in either order, or the program ends (`undefined`), or it goes on with a copy that
holds some of the frames (`torn`), of which a summary is written all the same; that one summary is exempt from
`SummaryTellsTheReports`, what is stored and the later ones are not. *Plain* files are those in which no text contains a separator of the format
around it; the properties are about users who report only those, whatever others report.

**JsonLexer** is the lexer of `json.hpp`, one character per step: where it is (within a string,
between the digits of a number, ...) and what it still expects is `scanning`. Characters are
bytes, and two abbreviations: a *unit* is the four hexadecimal digits behind `\u`, a *word* a whole
string, which lets structure be explored without quotes. The file's characters are chosen as
they are read, so that all files up to a length are covered. **JsonParser** is
`sax_parse_internal` with its stack of states and `json_sax_dom_parser` with its stack of
pointers; a pointer is a path into the value so far, what it leads to is `Pointee`, and `Stored` is
the root with something put there. **JsonGrammar** is the reference: the
documents of RFC 8259 of each length with their values, generated as sets. Two things of the code are in it too:
a byte order mark may come first, and a NUL byte ends the text.

Definitions whose comment starts with *Mutant* are altered copies of the operation that
follows them: a plausible mistake each property is known to detect. No specification uses
them.

## Runs

| Run | Instance | Shows |
|---|---|---|
| `server_safety` | 2 connections, 2 users, 2 passcodes, 2 channels, 2 ids, 1 report; `Spec` | type, exclusive login, sessions vs users, no lost subscriber, ids, ERROR vs termination, non-interference, passcodes, reports reach every subscriber |
| `server_forum` | 3 connections, 2 users, 1 channel; `PoliteSpec` | lists are exact, a connected user has a session, the server implements `Forum` |
| `actor_pool` | 3 actors, 2 threads, 3 runnables each; `Spec` with fairness | exclusion, order, the playing mark, everything runs, implements `Mailbox` |
| `threads_own_names` | 3 connections of 2 users, 2 passcodes, 1 channel with a list or without one, 1 report; `OwnNameSpec` | interleaved handlers: sessions vs users, exact lists, nobody is chosen as an addressee who has left by then |
| `reactor_safety` | 2 connections, 3 frames; `Spec` | type, no lost wakeup |
| `reactor_liveness` | 2 connections, 3 frames; `StaySpec` with fairness | everything queued is written; a connection whose session a refusal has ended is closed if it sends nothing more |
| `client_session` | 1 client, 4 lines, 2 connections, 2 users, 2 channels; `Spec` with fairness | client and server agree on when the session is over and on which id is which game; a logout and an ERROR end both threads |
| `report_path` | 2 clients, 2 reports of plain files or one of any of 8, and 1 report of 2 events, 1 reader, an `int` of 4 bits; `Spec` | fan-outs and removals step by step: what no removal meets is stored whole and in order by everyone, arrives to the last event, and is summarised as reported; plain reports crash no client and do not make the server's decoder throw |
| `json_parser` | files of 5 to 10 characters over 7 alphabets, numbers of 4 bits; `Spec` | `json::parse` accepts the documents and only those, with the right values; the two stacks agree |
| the `expect: violation` runs | 2 connections mostly | the disagreements below |

*Bounds.* `MaxConnections`, `MaxMessages` and `MaxTasks` cap counters the code lets grow.
Two connections show every conflict between a pair of sessions, and a third (in
`server_forum`) a bystander, or a connection that was lost while two others go on; two ids
and two channels let one id be used twice and one channel be joined under two ids; two users
let a connection change its user. One message id is enough because a report's fan-out is
judged within the step that sends it. With three actors on two threads the executor's queue
is used, and with three runnables an actor can have two pending while one runs. The requests TLC
sends contain every command, with and without a receipt, valid and with a header missing,
with the wrong version, the wrong host, and an unknown command.

In StompThreads two connections show every race of a pair; the third belongs to the user of the
first, who comes back. One channel and one id suffice, since the races are about one list or
one user. In Reactor three frames let one connection join, and then leave or be refused while
the other, which joined too, sends to both; the clients' frames bound everything else.

In ClientServer four lines are a login and three more: a join, an exit and another join of one
game; two joins and an exit; a report (of no event or two) by a member; a logout and a second login;
an ERROR anywhere between. `MaxMessages` is never reached, and the two passcodes of the server
runs are one here, since a refused login ends the program.

In Reports both users have joined one game, meni first. `benzi` reports two events in one file, of
which one gives a key a new value and the other has a key of its own, and reads. `meni` reports any file once: two plain ones, a game that
neither has joined, or one that is not plain in one of five ways; or a plain one and then the game not joined (`Plans`). So meni may be
refused, and leave the list, with and without an own report before, between and while benzi's two events are handed round: a
removal met by a report, and one that falls between two. An `int` of 4 bits makes 8 too large.

In JsonMC each alphabet makes one part of the grammar interesting: brackets, colons, commas and two
words (10 characters: structures three deep, repeated keys, ends that do not match); blanks and NUL; signs,
digits, point and exponent (8); the letters of the literals (6); escapes and
surrogates (8, a pair of surrogates in quotes); the bytes on both sides of every boundary of
UTF-8 (6, a character of four bytes in quotes); the byte order mark. Numbers have 4 bits and
doubles end at 10^9 (`MaxExponent`), so that both conversions fail within 8 characters; where the real limit of doubles, which
is no power of ten, lies does not matter to the parser.

*Symmetry* is used in the server runs, in `threads_own_names` (passcodes) and in `reactor_safety`, which check no liveness; no run
with a liveness property uses any. *Deadlock* is not checked: the server's model stops when all connections it may accept are closed or
nothing but refused work is left, the user may stop typing or reporting, a file ends, and the pool is idle when all is run, or shut down: both are
proper ends, as is a reactor without input. Each `LeaveLoop` and each pending runnable is covered by a property instead.

*Fairness* is weak fairness of each thread's steps, in ActorThreadPool (every thread of the pool)
and in Reactor (the selector thread, and what is submitted for each handler). In ClientServer it is assumed of main, of
each listener and of each connection's thread in the server, and not of the user, who may stop typing. The JVM
and the operating system schedule their threads, the runnable of a connection handles a finite buffer, and the
executor's threads block on its queue and are woken by it. No fairness of `submit` or
`shutdown`, of `Accept` or of what clients do is assumed. The liveness runs of Reactor say "or the connection is closed,
or the selector is dead": both happen, as the violations show.

## Proofs

Each of these holds for every value of the constants: any users, passcodes, channels, ids and
requests, any number of connections, actors and threads, every bound. What is assumed of the
constants is that null is none of the values, that bounds are numbers and requests well-typed
frames; of the client's, that its lines are lines, its sockets the server's connections, the ids
and receipts it counts among those there are, and the frames it makes among the requests. Of the report
path's: that files are JSON values (`FilesAssumption`), that the names of users and of joined games are
non-empty texts without a colon or a line feed (`NamesAssumption`: they were read from header fields of the
frames by which the user logged in and joined, and the server reads no other; a client whose user types a
colon in a name keeps the whole of it, which is left out), that an exception is none of the values it takes the place of
(`ThrowsAssumption`), and that a number is written as a word without separators
(`IntsAssumption`, which also has that 2^w is a number above 1, a fact about powers the provers lack). The
inductive invariants were model-checked on small instances, or their conjuncts with the properties that rest on them,
before they were proved.

| Module | Proves | Of |
|---|---|---|
| `StompServerProofs` | `TypeOK`, `SingleLogin`, `UsersMatchSessions`, `SubscribersAreListed`, `SubscriptionIdLeadsToItsChannel`; of each step `ConnectionsDoNotInterfere`, `ErrorsEndTheConnection`, `EverySubscriberGetsTheReport` | `Spec` |
| `StompServerProofs`, second half | `ListsAreExact`, `ConnectedUserHasASession`, `ImplementsForum` | `PoliteSpec` |
| `StompThreadsProofs` | `TypeOK`, `SessionsMatchUsers`, `SubscribedChannelsHaveAList`, `ListsAreExact`, `AddresseesAreSubscribed` | `OwnNameSpec` |
| `ActorThreadPoolProofs` | `TypeOK`, `OneRunnablePerActor`, `RunsInOrder`, `WhoeverPlaysIsHeld`, the safety part of `ImplementsMailbox` | `Spec` |
| `ReactorProofs` | `TypeOK`, `NoWakeupIsLost` | `Spec` |
| `ClientServerProofs` | `TypeOK`, `LoggedOutAtThePrompt`, `ExitsLeaveOtherGames`, `QuietSessionIsAlive` | `Spec` |
| `EventFileProofs` | frames arrive as they were sent, plain reports are read as they were written, no report is read as somebody else's | texts of any length |
| `ReportsProofs` | `TypeOK`, `StoredReportsAreWhole`, `SummaryTellsTheReports`, `PlainReportsAreHarmless`, `ReportsArrive` | `Spec` |
| `JsonParserProofs` | `StacksAgree` | `Spec`, files of any length |

*StompServer.* The invariant is the conjunction of the five properties, and it needs all of it:
`SingleLogin` survives a login only because the flag of the user is set wherever a session
exists (`UsersMatchSessions`), which survives a `disconnect` only because no second session has
the same user (`SingleLogin`); `SubscribersAreListed` survives somebody's login only because a
user who is not connected left no subscription behind. Each operation of Connections has a
lemma of its own about the parts it can disturb. The same invariant carries the action
properties: a report reaches a subscriber because the list holds it, and what an operation
writes for one user is another connection's business only if `SingleLogin` fails.
`ErrorsEndTheConnection` follows from the frames each handler writes.

*Forum.* With polite clients a channel's list counts each subscriber once, which no step of
`Spec` would keep: a second login leaves the first user's subscriptions in the lists. The
invariant `PoliteInv` adds to the one above exact lists, that a connected user has a session and that sessions have handlers.
Under it each step of the server is a step of `Forum`: a CONNECT is a login, a SEND delivers
once to each reachable member since that is how often the list names it, and what is left
stutters.

*StompThreads.* A step is one access here, so the invariant says for each place in a handler
what of the checks before it still holds (`Session`, `Checked`). It holds although nothing is
locked because the user is this thread's alone: the connections of one user take turns
(`Turns`), and a User marked as connected is that of a connection which is logged in or has
died logging out (`ConnectedUser`). For the lists, a thread that is about to create one has it to
itself (`ListAtHand`), and the list in the map names a connection exactly as often as its
thread's place says (`Exact`: subscribed but not enlisted yet, or unsubscribed and still to be removed).
A connection whose session is ending is left out: `removeIf` may miss it, as
`LoggedOutIsUnlisted` shows. `AddresseesAreSubscribed` is about the moment at which the loop takes
its next addressee: between that and the sending the addressee may leave. Its condition on
the list is one the proof needed, and TLC confirmed with three users that the code does
too (see *Disagreements*).

*ActorThreadPool.* The invariant adds that an actor the executor holds is marked as playing and
that the numbers of what runs, what waits in the executor and what is pending continue those
of what is done without a gap; without it, order could not survive `complete`. From it each
step of the pool is a step of `Mailbox` or none.

*Reactor.* `NoWakeupIsLost` is about the end of `continueWrite`, where the interest in writing
is taken away: until then whatever is queued must have left a task or be about to
(`WrittenIsWatched`), nothing may be queued for a connection that is just being accepted
(`Acquainted`), and a task left while the selector is at work must find it awake at its next
`select` (`TasksWake`).

*ClientServer.* The server's invariant is used as it is proved, through an instance of its proofs
(`S!IInv`). `ProcessIsASessionStep`, in the middle of `StompServerProofs`, sums up what one
frame can do to a session: begin it, refuse a login, let it go on or end it, and what its client
is sent then. The rest of the invariant is about what is under way. Connections of earlier
sessions hold no frame the server would still handle (`OthersAreSilent`), so that each step of the
server is one of the session's. A frame written or yet to be written carries a receipt that was
taken, and a receipt whose message is that of a logout belongs to a DISCONNECT (`KnownFrame`):
that is why the client leaves only when the server has let it go (`EndsAreTrue`), even if a message
is lost in the race on the map. A session the server has ended is one whose listener is done,
whose client has the ERROR in its socket, or whose keyboard listener has sent DISCONNECT and stops
(`Told`). Ids are taken from a counter, and no two games share one (`TakenFor`), in the
client's map, on the way and in the User alike; that an exit names an id the server forgot
(`rejoin_keeps_old_id`) does not contradict it.

*Codec and EventFile.* `split`, the lines that `FoldSet` writes and the lists that `FlattenSeq` joins are recursive
functions, and the library's induction theorems cannot be used, as they have an operator for a
parameter. The proofs unfold each function once, at the `CHOOSE` that its definition is, and then
take the least position, the smallest set or the shortest list at which a claim fails
(`LeastNatural`, from the well-foundedness of `<`). From that: `split` cuts at the first occurrence
and goes on behind it (`SplitFirst`), so that lines are read back one by one (`IsLines`), whatever order the
hash map's entries were written in (`KeyLinesAre`). `FramesArriveAsSent` is about frames whose
header lines keep within their fields and whose body has no blank line; `PlainReportIsRead` finds
the three headings among any number of updates. `ServerReads` assumes nothing of a file: it cuts the
body's text into the line of the user and the rest, and shows that the server, which takes a body only of a frame with
exactly one blank line, either drops the body or gets one that begins with that line. A team's
name with a blank line in it would be the exception, but it occurs in the header and in the
body: then there are two blank lines.

*Reports.* The first invariant, `Serving`, is about the server's threads and lists. Whoever has joined a game, is connected and is not
being refused is on its list, nobody is on it twice (`ListsKept`, `StillListed`), an iterator
that no other thread has made stale stands within its list (`Iterates`), and one that is stale while a report is
being handed round has been noted in `disturbed` (`Noted`).

The second, `Provenance`, says of each text in the three queues, of the one a thread is handing round and of each stored body who may have
said it. Whatever the files contain, a body that is not empty names its true sender (`SentBy`), who has joined the game it is
stored under; and one who has reported plain files only (`PlainReporters`) has only texts on the way that read as
events of such files. The set of such users shrinks with each file that is not plain, and what is on the way may only become
less certain by it (`LessPlain`). Where a client throws, the text at hand is not a plain reporter's: hence
`PlainReportsAreHarmless`.

The third, `Delivery`, is about a user who reports plainly and anyone in the same game, as long as no removal has met a
report of that user on it. What is stored tells the first `n` of
the events reported, and the rest is in four places: the connection from the server, the thread that is handing a report round, if this
client's turn is yet to come (`Awaits`, `HeldFor`), the connection to the server, and the sender's own queue. For
each there is a count along its places which goes up by one at each text on the next event and stays at the others
(`Carries`), and each ends with the number the next begins with (`OnTheWay`). The chain may break at a connection that the server closed or
a client that stopped, and is then claimed of the other parts only. A loop that ends has had everyone's turn because its list is as it was when the
loop began: this is where `Serving` comes in, and where a removal would break the chain. `StoredReportsAreWhole` and `ReportsArrive` are the beginning and,
when nothing is on the way, the end of it. A report command starts only when the frames of the one before are sent: that is why the queue may be
filled at once.

The last two follow the summaries: what had been stored when the command was typed is still stored when the file is
written (`SummariesBegun`), and, if no store has torn the copy, `SummaryOfBodies` turns the stored bodies into the summary of the events they tell. It rests on
`MergeGivesTheLastValues`: putting the updates of one report after the other into a map leaves the last value of each key, which is
`LastValues`, the definition by the last event that has the key.

*JsonParser.* Of the value so far only the part along the last pointer counts: the structures from the root
to the one that is being filled (`Spine`), each of which holds the next (`Held`), an array as its last
element. Whatever is stored behind the end of that part leaves it standing (`StoredStands`): this is what would fail if an
array could grow while one of its elements is being filled, which would move the vector under the pointer. The
invariant `StacksInv` says that all pointers are beginnings of the last one (`Pointers`), that each leads to
the kind of structure the stack of states has (`Agree`), with the structure just opened, which that stack does
not have yet, counted in (`Opened`), and what the place in the loop says of the innermost. `Along`
and `Stored` are recursive functions along a path and are unfolded as those above. The lexer
does not matter: the proof takes any tokens in any order.

Only model-checked:

* liveness: `EverythingRuns` and the fairness in `ImplementsMailbox`, `EverythingQueuedIsWritten`,
  `RefusedIsClosed`, and what ClientServer says of the ends of sessions. TLAPS has no rule for
  fairness here, which is about ENABLED.
* `PlainReportsKeepTheConnection`: its proof would have to follow each refused text back to the
  file it was made of, which `Provenance` does not.
* the parser: `AcceptedMeansItsValue` and `RefusedIsNoDocument` compare it with a grammar that is
  generated length by length, which would have to be followed by induction over texts.

## Disagreements between the code and what it says

Three are runs that TLC finds violated, and findings in `PROJECT.json` with their quotes:

* `login_race`: two connections that log in as one user at once both get in.
* `selector_dies`: the task of a frame queued for a closed connection throws on the selector
  thread; the server serves nobody from then on.
* `rejoin_keeps_old_id`: join, exit and join a game: `emplace` keeps the first id, SUBSCRIBE
  carries a new one. The next exit names the old id and costs the user the session.

The modules state more that the code does not keep. TLC gives a counterexample for each in
place of the property of the run named:

| Property | In place of | How it breaks |
|---|---|---|
| `TerminatedIsLoggedOut` | `server_safety` | a malformed frame ends the connection but not the session: its user stays logged in |
| `LoggedOutIsUnlisted`, `ConnectedUserHasASession` (StompServer) | `server_safety` | CONNECT on a logged-in connection overwrites its user, whose subscriptions stay in the lists and who stays connected with no session; `server_forum` checks the second for `PoliteSpec` |
| `ConnectedUserCanLogOut` | `server_safety`, with `PoliteSpec` | a client that goes away without DISCONNECT stays logged in, with no connection left to log out on: its user cannot log in again while the server runs |
| `UnknownIdIsUnsubscribed` | `server_safety` | a second subscription under one id hides the first |
| `ErrorsNameTheReceipt`, `ReportedHeadersAreMissing` | `server_safety` | the refusal of a malformed frame looks for `receipt` where clients send `receipt-id`, and lists all expected headers as missing |
| `UsersAreKept` | `login_race` | two connections register one name; the second User replaces the one in use |
| `MessageIdsDiffer` | `login_race` | two reports get one message-id |
| `SubscribersAreListed` (StompThreads) | `login_race` | two first subscribers each create the channel's list; one of them gets no reports |
| `ReportsReachSubscribersOnly` | `threads_own_names` | `next()` has returned a connection whose thread then handles an UNSUBSCRIBE to the end; the report is sent to it all the same |
| `AddresseesAreSubscribed` without the condition on the list | `threads_own_names`, with three users | two first subscribers both find no list; a report has started over the list of the first when that of the second takes its place in the map; the first leaves the new list, in which it never was, and the report still reaches it |
| `ReportsAreSentToTheEnd`, `ReportsReachTheSender`, `LoggedOutIsUnlisted` (StompThreads) | `login_race` | a list that changes while it is iterated ends the thread with an exception, or the loop one element early without a word |
| `SelectorComesBack` | `reactor_liveness`, with `Spec` | a failed write leaves the frame in the queue that the loop waits to become empty |
| `ErrorsCloseTheSocket` | `reactor_liveness` | the pool's thread resets `shouldTerminate` for the next frame of the same buffer before the selector looks at it |
| `ClosedAfterTheError` | `reactor_liveness` | `shouldTerminate` is seen before the ERROR is queued |
| `FramesAreValid` (Reports; "i know that the frame is valid", `client/src/StompClientProtocol.cpp:354`) | `report_path` | a description with a blank line in it makes the server drop the body; the MESSAGE without a first line ends the program of everyone who joined |

What the model of the client shows besides, of files that are not plain and of the client as such:

* A colon cuts a value or an event's name short at the second field, and a key that is a heading moves the
  rest to another team; a description of several lines is cut to its first in the summary.
* An empty description may leave no line to read: `summary` ends the program. So does `report` of
  a file without one of its members, or in which one has another type.
* A time too large for an `int` is cut off.
* The entry of a logout may be lost in the race on `receiptIdToPrintMessage`: its receipt then ends
  nothing, and the listener waits at a connection the server has closed.
* A login line typed within a session changes `username`, which later reports carry in their
  body (`StompClientProtocol.cpp:159`), though the session is the old user's. It is outside
  the model: a client there stays one user's.

## Not modelled, and the plan

In this order:

1. Client: lost connections, and names and headers that are empty.
2. Reactor: buffers that hold no complete frame.

Out of scope: `Reactor.close`, which nothing in the repository calls; the echo, news feed and remote command
examples of the course's template; formatting and logging; and sockets byte by byte.

`json.hpp` is 24,640 lines of a vendored library, nineteen twentieths of the code counted here, of which the
client calls `json::parse` of a stream, `operator[]`, iteration and three conversions. Those
are modelled; binary formats, JSON pointers, patches, comparison, pretty printing and the
support for other containers are not, since no program here runs them. So most lines of the
repository stay unmapped, while nearly all of what the forum itself wrote is.
