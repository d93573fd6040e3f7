------------------------------- MODULE ReportsMC -------------------------------
(* Reports with files like those of client/data and files that are not like them. *)
EXTENDS Reports

Germany == <<"Germany">>
Japan == <<"Japan">>

meni == <<"meni">>
benzi == <<"benzi">>

MCUsers == {meni, benzi}
GermanyJapan == Germany \o <<Underscore>> \o Japan
OnlyBenzi == {benzi}
MeniFirst == GermanyJapan :> <<meni, benzi>>
BothJoined == [u \in MCUsers |-> {GermanyJapan}]

NoUpdates == JsonObject(Empty)
Goals(n) == JsonObject(<<"goals">> :> JsonString(<<n>>))

EventOf(name, time, general, a, b, description) ==
  JsonObject((<<"event name">> :> name) @@ (<<"time">> :> time)
             @@ (GeneralLabel :> general) @@ (TeamALabel :> a) @@ (TeamBLabel :> b)
             @@ (DescriptionLabel :> description))

(* Updates are booleans, numbers and strings; a later event may give a key again. *)
Kickoff == EventOf(JsonString(<<"kickoff">>), JsonNumber(0),
                   JsonObject((<<"active">> :> JsonBoolean(TRUE))
                              @@ (<<"before halftime">> :> JsonBoolean(TRUE))),
                   NoUpdates, NoUpdates, JsonString(<<"started", Colon, "evening">>))
Goal(n) == EventOf(JsonString(<<"goal">>), JsonNumber(7), NoUpdates, Goals(n), Goals("0"),
                   JsonString(<<"GOAL">>))
Halftime == EventOf(JsonString(<<"halftime">>), JsonNumber(-3),
                    JsonObject(<<"before halftime">> :> JsonBoolean(FALSE)),
                    NoUpdates, NoUpdates, JsonString(<<"break">>))

Described(description) ==
  EventOf(JsonString(<<"goal">>), JsonNumber(5), NoUpdates, NoUpdates, NoUpdates, description)

File(a, b, events) ==
  JsonObject((TeamA :> JsonString(a)) @@ (TeamB :> JsonString(b))
             @@ (<<"events">> :> JsonArray(events)))

Match(events) == File(Germany, Japan, events)

LikeTheData ==
  ("first half" :> Match(<<Kickoff, Halftime>>)) @@
  ("goal"       :> Match(<<Goal("1")>>)) @@
  ("other game" :> File(Japan, Germany, <<Kickoff>>))

OddFiles ==
  ("blank line"        :> Match(<<Described(JsonString(<<"GOAL", NL, NL, "yes">>))>>)) @@
  ("empty description" :> Match(<<Described(JsonString(Empty))>>)) @@
  ("no description"    :> Match(<<Described(JsonNull)>>)) @@
  ("nested update"     :> Match(<<EventOf(JsonString(<<"goal">>), JsonNumber(8), NoUpdates,
                                          JsonObject(<<"goals">> :> Goals("1")),
                                          NoUpdates, JsonString(<<"GOAL">>))>>)) @@
  ("line feed in team" :> File(Germany \o <<NL>> \o Japan, Japan, <<Kickoff>>))

MCFiles == LikeTheData @@ OddFiles

(* meni may be refused while benzi's two events are sent on, after a report or at once, and
   reports whatever there is. *)
MCPlans ==
  (meni :> {<<"goal", "other game">>} \cup {<<file>> : file \in DOMAIN MCFiles})
  @@ (benzi :> {<<"first half">>})
===============================================================================
