---------------------------- MODULE StompServerMC ----------------------------
(* StompServer with the frames TLC sends: every command, with and without a
   receipt, valid or lacking a header, for every user, passcode, channel and id. *)
EXTENDS StompServer, TLC

CONSTANTS Receipts   \* the receipt-id values requests are made with, or Null

Frame(command, headers, receipt) ==
  [command |-> command, headers |-> headers, receipt_id |-> receipt, receipt |-> Null]

ConnectFrame(headers, version, host, u, p) ==
  Frame("CONNECT", headers, Null) @@
  [version |-> version, host |-> host, login |-> u, passcode |-> p]

MCRequests ==
     UNION {{ConnectFrame(ConnectHeaders, "1.2", "stomp.cs.bgu.ac.il", u, p),
             ConnectFrame(ConnectHeaders, "1.0", "stomp.cs.bgu.ac.il", u, p),
             ConnectFrame(ConnectHeaders, "1.2", "localhost", u, p),
             ConnectFrame({"accept-version", "host", "login"}, "1.2",
                          "stomp.cs.bgu.ac.il", u, p)}
            : u \in Usernames, p \in Passcodes}
  \cup {Frame("SEND", h, r) @@ [destination |-> ch]
          : h \in {SendHeaders, {}}, r \in Receipts, ch \in Channels}
  \cup {Frame("SUBSCRIBE", h, r) @@ [destination |-> ch, id |-> i]
          : h \in {SubscribeHeaders, {"id"}}, r \in Receipts,
            ch \in Channels, i \in SubscriptionIds}
  \cup {Frame("UNSUBSCRIBE", h, r) @@ [id |-> i]
          : h \in {UnsubscribeHeaders, {}}, r \in Receipts, i \in SubscriptionIds}
  \cup {Frame(command, {}, r)
          : command \in {"DISCONNECT", "WRONG-COMMAND"}, r \in Receipts}

Symmetry == Permutations(Usernames) \cup Permutations(Passcodes)
              \cup Permutations(Channels) \cup Permutations(SubscriptionIds)
==============================================================================
