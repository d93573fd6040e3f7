-------------------------------- MODULE Frames --------------------------------
(***************************************************************************)
(* The STOMP frames between the clients and the server.                    *)
(*                                                                         *)
(* A frame from the client is a record: its command, the set of header     *)
(* names it carries and the values of the headers the handlers read.  The  *)
(* body of a report is left out: nothing on the server depends on it.      *)
(***************************************************************************)
EXTENDS Integers, Sequences

CONSTANTS
  Usernames,          \* the login header's values
  Passcodes,          \* the passcode header's values
  Channels,           \* the destination header's values: games
  SubscriptionIds,    \* the id header's values, chosen by the clients
  ReceiptIds,         \* values of the receipt-id header
  Requests,           \* the frames the clients send, a set of ClientFrames
  Null                \* Java's null

ASSUME NullAssumption ==
  Null \notin Usernames \cup Passcodes \cup Channels \cup SubscriptionIds

OrNull(S) == S \cup {Null}

ConnectHeaders     == {"accept-version", "host", "login", "passcode"}
SendHeaders        == {"destination"}
SubscribeHeaders   == {"destination", "id"}
UnsubscribeHeaders == {"id"}

(* receipt_id is the header the server answers, receipt the one its malformed
   frame report looks at; Null when the frame does not carry it. *)
ClientFrames ==
  LET ReceiptHeader == OrNull(ReceiptIds) IN
       [command : {"CONNECT"}, headers : SUBSET ConnectHeaders,
        version : STRING, host : STRING, login : Usernames, passcode : Passcodes,
        receipt_id : ReceiptHeader, receipt : ReceiptHeader]
  \cup [command : {"SEND"}, headers : SUBSET SendHeaders, destination : Channels,
        receipt_id : ReceiptHeader, receipt : ReceiptHeader]
  \cup [command : {"SUBSCRIBE"}, headers : SUBSET SubscribeHeaders,
        destination : Channels, id : SubscriptionIds,
        receipt_id : ReceiptHeader, receipt : ReceiptHeader]
  \cup [command : {"UNSUBSCRIBE"}, headers : SUBSET UnsubscribeHeaders,
        id : SubscriptionIds, receipt_id : ReceiptHeader, receipt : ReceiptHeader]
  \cup [command : {"DISCONNECT", "WRONG-COMMAND"}, headers : {{}},
        receipt_id : ReceiptHeader, receipt : ReceiptHeader]

ASSUME RequestsAssumption == Requests \subseteq ClientFrames

ConnectedFrame == [command |-> "CONNECTED"]

ReceiptFrame(r) == [command |-> "RECEIPT", receipt_id |-> r]

MessageFrame(subscription, destination, id) ==
  [command |-> "MESSAGE", subscription |-> subscription,
   destination |-> destination, message_id |-> id]

ErrorFrame(message, receipt, notContained) ==
  [command |-> "ERROR", message |-> message, receipt_id |-> receipt,
   not_contained |-> notContained]

AlreadyLoggedIn == "User already logged in, log out before trying again."
==============================================================================
