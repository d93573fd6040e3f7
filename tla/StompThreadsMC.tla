---------------------------- MODULE StompThreadsMC ----------------------------
(* StompThreads with the frames TLC sends: valid ones of every command, and one of
   each way to be refused before the shared maps are looked at. *)
EXTENDS StompThreads, TLC

CONSTANTS c1, c2, c3, u1, u2

Frame(command, headers) ==
  [command |-> command, headers |-> headers, receipt_id |-> Null, receipt |-> Null]

ConnectFrame(headers, version, u, p) ==
  Frame("CONNECT", headers) @@
  [version |-> version, host |-> "stomp.cs.bgu.ac.il", login |-> u, passcode |-> p]

MCRequests ==
  {ConnectFrame(ConnectHeaders, "1.2", u, p) : u \in Usernames, p \in Passcodes}
  \cup {ConnectFrame(h, "1.0", u1, p) : h \in {ConnectHeaders, {}}, p \in Passcodes}
  \cup {Frame("SEND", h) @@ [destination |-> ch] : h \in {SendHeaders, {}}, ch \in Channels}
  \cup {Frame("SUBSCRIBE", SubscribeHeaders) @@ [destination |-> ch, id |-> i]
          : ch \in Channels, i \in SubscriptionIds}
  \cup {Frame("UNSUBSCRIBE", UnsubscribeHeaders) @@ [id |-> i] : i \in SubscriptionIds}
  \cup {Frame("DISCONNECT", {})}

(* u1 comes back. *)
MCNameOf == (c1 :> u1) @@ (c2 :> u2) @@ (c3 :> u1)

TwoNames == (c1 :> u1) @@ (c2 :> u2)
(* Which passcode is which does not matter. *)
PasscodeSymmetry == Permutations(Passcodes)
==============================================================================
