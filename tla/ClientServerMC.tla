----------------------------- MODULE ClientServerMC -----------------------------
(* ClientServer with the lines TLC types and the frames they become. *)
EXTENDS ClientServer

MCSockets == 0 .. MaxConnections - 1
MCSubscriptionIds == Unknown .. MaxLines - 1
MCReceiptIds == 0 .. MaxLines - 1

MCLines ==
       [command : {"login"}, user : Usernames, passcode : Passcodes]
  \cup [command : {"join", "exit"}, game : Channels]
  \cup [command : {"report"}, game : Channels, events : {0, 2}]
  \cup [command : {"logout", "summary", "other"}]
================================================================================
