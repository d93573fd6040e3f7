-------------------------------- MODULE Forum --------------------------------
(***************************************************************************)
(* What the server promises, without frames, subscription ids or lists:    *)
(* a user is logged in on at most one connection, a connection joins and   *)
(* leaves game channels, and a report posted to a channel reaches every    *)
(* member with an open connection exactly once, and nobody else.           *)
(*                                                                         *)
(* A connection may go away without logging out.  Its session and its      *)
(* memberships then stay: the server ends a session only when its own      *)
(* connection asks for it or is refused something.                         *)
(***************************************************************************)
CONSTANTS ConnectionIds, Usernames, Passcodes, Channels, Null

VARIABLES
  open,       \* the connections that can be reached
  account,    \* the passcode each user registered with, or Null
  session,    \* the user logged in on each connection, or Null
  member,     \* the pairs <<connection, channel>> that joined
  delivered   \* the reports each connection got in the last step, numbered

vars == <<open, account, session, member, delivered>>

Nobody == [c \in ConnectionIds |-> {}]

Init ==
  /\ open = {}
  /\ account = [u \in Usernames |-> Null]
  /\ session = [c \in ConnectionIds |-> Null]
  /\ member = {}
  /\ delivered = Nobody

Open(c) ==
  /\ session[c] = Null
  /\ open' = open \cup {c}
  /\ delivered' = Nobody
  /\ UNCHANGED <<account, session, member>>

Close(c) ==
  /\ open' = open \ {c}
  /\ delivered' = Nobody
  /\ UNCHANGED <<account, session, member>>

(* The first login of a name registers it with the passcode given. *)
Login(c, u, p) ==
  /\ session[c] = Null
  /\ \A d \in ConnectionIds : session[d] # u
  /\ account[u] \in {Null, p}
  /\ account' = [account EXCEPT ![u] = p]
  /\ session' = [session EXCEPT ![c] = u]
  /\ delivered' = Nobody
  /\ UNCHANGED <<open, member>>

Logout(c) ==
  /\ session[c] # Null
  /\ session' = [session EXCEPT ![c] = Null]
  /\ member' = {m \in member : m[1] # c}
  /\ delivered' = Nobody
  /\ UNCHANGED <<open, account>>

Join(c, ch) ==
  /\ session[c] # Null
  /\ <<c, ch>> \notin member
  /\ member' = member \cup {<<c, ch>>}
  /\ delivered' = Nobody
  /\ UNCHANGED <<open, account, session>>

Leave(c, ch) ==
  /\ <<c, ch>> \in member
  /\ member' = member \ {<<c, ch>>}
  /\ delivered' = Nobody
  /\ UNCHANGED <<open, account, session>>

Post(c, ch) ==
  /\ <<c, ch>> \in member
  /\ delivered' = [d \in ConnectionIds |->
                     IF d \in open /\ <<d, ch>> \in member THEN {<<1, ch>>} ELSE {}]
  /\ UNCHANGED <<open, account, session, member>>

(* A request is refused, or a step concerns nobody. *)
Quiet ==
  /\ delivered' = Nobody
  /\ UNCHANGED <<open, account, session, member>>

Next ==
  \/ Quiet
  \/ \E c \in ConnectionIds :
       \/ Open(c) \/ Close(c) \/ Logout(c)
       \/ \E u \in Usernames, p \in Passcodes : Login(c, u, p)
       \/ \E ch \in Channels : Join(c, ch) \/ Leave(c, ch) \/ Post(c, ch)

Spec == Init /\ [][Next]_vars
==============================================================================
