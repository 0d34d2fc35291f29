--------------------------------- MODULE Rpc --------------------------------
(***************************************************************************)
(* What Client::execute promises, without connections and packets: calls   *)
(* are numbered; each is executed at most once, perhaps after its caller   *)
(* has given up on it; and a response with the number of a call is the     *)
(* response to that call, after it was executed.  A response numbered 0    *)
(* reports an error, and tells nothing about the execution.                *)
(***************************************************************************)
EXTENDS Naturals

CONSTANT Clients

VARIABLES
  issued,    \* how many calls the client has made
  pending,   \* the call it waits for, or 0
  executed,  \* the calls of the client that the server has executed
  outcome    \* how the last call ended

vars == <<issued, pending, executed, outcome>>

Outcome(status, id, response) == [status |-> status, id |-> id, response |-> response]

Init ==
  /\ issued = [c \in Clients |-> 0]
  /\ pending = [c \in Clients |-> 0]
  /\ executed = [c \in Clients |-> {}]
  /\ outcome = [c \in Clients |-> Outcome("none", 0, 0)]

Begin(c) ==
  /\ pending[c] = 0
  /\ issued' = [issued EXCEPT ![c] = @ + 1]
  /\ pending' = [pending EXCEPT ![c] = issued[c] + 1]
  /\ UNCHANGED <<executed, outcome>>

(* A call without a connection.                                            *)
Reject(c) ==
  /\ pending[c] = 0
  /\ issued' = [issued EXCEPT ![c] = @ + 1]
  /\ outcome' = [outcome EXCEPT ![c] = Outcome("throw", issued[c] + 1, 0)]
  /\ UNCHANGED <<pending, executed>>

Execute(c) ==
  \E id \in 1..issued[c] :
    /\ id \notin executed[c]
    /\ executed' = [executed EXCEPT ![c] = @ \cup {id}]
    /\ UNCHANGED <<issued, pending, outcome>>

End(c, status, response) ==
  /\ pending[c] # 0
  /\ outcome' = [outcome EXCEPT ![c] = Outcome(status, pending[c], response)]
  /\ pending' = [pending EXCEPT ![c] = 0]
  /\ UNCHANGED <<issued, executed>>

Return(c) == pending[c] \in executed[c] /\ End(c, "response", pending[c])
ReturnError(c) == End(c, "response", 0)
Throw(c) == End(c, "throw", 0)

Next ==
  \E c \in Clients :
    Begin(c) \/ Reject(c) \/ Execute(c) \/ Return(c) \/ ReturnError(c) \/ Throw(c)

Spec == Init /\ [][Next]_vars

=============================================================================
