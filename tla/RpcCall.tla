------------------------------- MODULE RpcCall -------------------------------
(***************************************************************************)
(* What an RPC promises its caller, without packets, tables or networks: a *)
(* call is made once and ends once, with an answer or a failure; it is     *)
(* answered only after the server ran it; the server may run it never,     *)
(* once or (a duplicated request) several times, also after the caller has *)
(* given up; and every call ends.  Module Rpc implements this.             *)
(***************************************************************************)
EXTENDS Naturals

CONSTANTS Calls, MaxRuns

VARIABLES
  caller,      \* how the call stands for the caller
  executions   \* how often the server has run it
callVars == <<caller, executions>>

CallInit ==
  /\ caller = [c \in Calls |-> "none"]
  /\ executions = [c \in Calls |-> 0]

Invoke(c) == caller[c] = "none" /\ caller' = [caller EXCEPT ![c] = "waiting"] /\ UNCHANGED executions
RunIt(c) ==
  /\ caller[c] # "none" /\ executions[c] < MaxRuns
  /\ executions' = [executions EXCEPT ![c] = @ + 1]
  /\ UNCHANGED caller
Answer(c) ==
  /\ caller[c] = "waiting" /\ executions[c] > 0
  /\ caller' = [caller EXCEPT ![c] = "answered"]
  /\ UNCHANGED executions
Fail(c) ==
  /\ caller[c] = "waiting"
  /\ caller' = [caller EXCEPT ![c] = "failed"]
  /\ UNCHANGED executions

CallNext == \E c \in Calls : Invoke(c) \/ RunIt(c) \/ Answer(c) \/ Fail(c)

CallSafety == CallInit /\ [][CallNext]_callVars

\* Every call ends.
CallSpec ==
  /\ CallSafety
  /\ \A c \in Calls : WF_callVars(Answer(c) \/ Fail(c))
=============================================================================
