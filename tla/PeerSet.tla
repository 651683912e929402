------------------------------ MODULE PeerSet -------------------------------
(***************************************************************************)
(* What a protocol manager promises about a VPN server: there is a set of  *)
(* peers that may connect; a request adds or takes out its own peer and no *)
(* other, at one moment between its call and its answer; a request that    *)
(* succeeds has done so, one that fails has or has not.                    *)
(***************************************************************************)
CONSTANTS Keys,     \* peers
          Sessions, \* callers
          None      \* no request

VARIABLES active,   \* the peers that may connect
          request,  \* [Sessions -> the request in progress]
          answer    \* [Sessions -> how the last one ended]

Request == [op : {"add", "enable", "disable", "remove"}, key : Keys, done : BOOLEAN]

Init ==
    /\ active \subseteq Keys
    /\ request = [s \in Sessions |-> None]
    /\ answer = [s \in Sessions |-> "none"]

Begin(s) == \E r \in Request :
    /\ request[s] = None
    /\ ~r.done
    /\ request' = [request EXCEPT ![s] = r]
    /\ UNCHANGED <<active, answer>>

Apply(s) ==
    /\ request[s] # None
    /\ ~request[s].done
    /\ active' = IF request[s].op \in {"add", "enable"}
                 THEN active \cup {request[s].key}
                 ELSE active \ {request[s].key}
    /\ request' = [request EXCEPT ![s].done = TRUE]
    /\ UNCHANGED answer

Succeed(s) ==
    /\ request[s] # None
    /\ request[s].done
    /\ request' = [request EXCEPT ![s] = None]
    /\ answer' = [answer EXCEPT ![s] = "ok"]
    /\ UNCHANGED active

Fail(s) ==
    /\ request[s] # None
    /\ request' = [request EXCEPT ![s] = None]
    /\ answer' = [answer EXCEPT ![s] = "failed"]
    /\ UNCHANGED active

Next == \E s \in Sessions : Begin(s) \/ Apply(s) \/ Succeed(s) \/ Fail(s)

Spec == Init /\ [][Next]_<<active, request, answer>>
=============================================================================
