------------------------------ MODULE Exchange ------------------------------
(***************************************************************************)
(* What a handshake promises the two programs: each learns a whole device  *)
(* info of the other, of one of its sessions, or fails.  A success of the  *)
(* host means that it has the client's info, from this attempt or from one *)
(* before.  A success of the client brings it the info of an attempt of    *)
(* the host that has succeeded.  What was returned is never taken back.    *)
(*                                                                         *)
(* Handshake.tla implements this with packets of bytes, on a line that     *)
(* cuts, delays and keeps them.                                            *)
(***************************************************************************)
EXTENDS Integers

CONSTANT MaxSessions   \* MaxSessions[p]: bound on the sessions of p

VARIABLES
  session,  \* session[p]: number of the last session of p
  busy,     \* busy[p]: it has not returned
  result,   \* result[p][n]: what session n of p returned
  known     \* known[p]: the session of the peer whose info p has, or 0

vars == <<session, busy, result, known>>

Peers == {"host", "client"}

Init ==
  /\ session = [p \in Peers |-> 0]
  /\ busy = [p \in Peers |-> FALSE]
  /\ result = [p \in Peers |-> [n \in 1 .. MaxSessions[p] |-> "none"]]
  /\ known = [p \in Peers |-> 0]

\* Another session; a run of the client is a new process and knows nothing.
Another(p) ==
  /\ ~ busy[p] /\ session[p] < MaxSessions[p]
  /\ session' = [session EXCEPT ![p] = @ + 1]
  /\ known' = IF p = "client" THEN [known EXCEPT ![p] = 0] ELSE known

Begin(p) ==
  /\ Another(p)
  /\ busy' = [busy EXCEPT ![p] = TRUE]
  /\ UNCHANGED result

\* There is no channel.
Refuse(p) ==
  /\ Another(p)
  /\ result' = [result EXCEPT ![p][session[p] + 1] = "TIMEOUT"]
  /\ UNCHANGED busy

Return(p, r) ==
  /\ busy[p]
  /\ busy' = [busy EXCEPT ![p] = FALSE]
  /\ result' = [result EXCEPT ![p][session[p]] = r]
  /\ UNCHANGED session

Fail(p) ==
  /\ \E r \in {"TIMEOUT", "INVALID"} : Return(p, r)
  /\ UNCHANGED known

\* The host has the client's info before it succeeds.
HostLearns ==
  /\ busy["host"]
  /\ \E n \in 1 .. session["client"] : known' = [known EXCEPT !["host"] = n]
  /\ UNCHANGED <<session, busy, result>>

HostSucceeds ==
  /\ known["host"] # 0
  /\ Return("host", "OK")
  /\ UNCHANGED known

\* The client succeeds with the info of an attempt that has succeeded.
ClientSucceeds ==
  /\ \E n \in 1 .. session["host"] :
       result["host"][n] = "OK" /\ known' = [known EXCEPT !["client"] = n]
  /\ Return("client", "OK")

\* The channel is made anew, between two attempts of the host.
Toggle ==
  /\ ~ busy["host"]
  /\ known' = [known EXCEPT !["host"] = 0]
  /\ \/ Return("client", "TIMEOUT")
     \/ ~ busy["client"] /\ UNCHANGED <<session, busy, result>>

Next ==
  \/ \E p \in Peers : Begin(p) \/ Refuse(p) \/ Fail(p)
  \/ HostLearns \/ HostSucceeds \/ ClientSucceeds \/ Toggle

Spec == Init /\ [][Next]_vars
=============================================================================
