------------------------------- MODULE MCLoop -------------------------------
(***************************************************************************)
(* What the main loop of a board owes in the end, for TLC, one part at a   *)
(* time.  "outputs": the scheduled outputs of MCOutputs are drained.       *)
(* "link": the tuning tool's requests are answered, with a buffer of three *)
(* short frames and stray headers that announce a length at each boundary. *)
(* "handles": the threads of a host program share the simulator.           *)
(***************************************************************************)
EXTENDS MCOutputs, TsLink, SimHandles

MCRequests == <<[cmd |-> 18, payload |-> <<>>, reply |-> 4], [cmd |-> 32, payload |-> <<3>>, reply |-> 2]>>
Header(n) == <<Magic0, Magic1, n, 0>>
MCStrays == {<<Magic0>>} \cup {Header(n) : n \in {2, InLen - 3, BufLen - 4, BufLen - 3}}

CONSTANTS t1, t2
MCThreads == <<t1, t2>>

VARIABLE part

MCInit ==
    /\ part \in {"outputs", "link", "handles"}
    /\ Init /\ HandlesInit
    /\ IF part = "link" THEN LinkInit
       ELSE asked = Len(Requests) + 1 /\ wire = <<>> /\ asm = <<>> /\ faults = 0 /\ turn = 0

MCNext ==
    \/ part = "outputs" /\ Next /\ UNCHANGED <<part, linkvars, handleVars>>
    \/ part = "link" /\ LinkNext /\ UNCHANGED <<part, vars, handleVars>>
    \/ part = "handles" /\ HandlesNext /\ UNCHANGED <<part, vars, linkvars>>

\* Time and both drains go on, and so does every thread inside a call.  A
\* behaviour has one part, so the two parts share their conditions.
Goes(k) ==
    \/ /\ part = "outputs"
       /\ \/ k = 1 /\ Advance
          \/ k = 2 /\ DrainAndApplyDue(None)
          \/ k = 3 /\ DrainAndApplyPlain(None)
       /\ UNCHANGED handleVars
    \/ /\ part = "handles" /\ k \in DOMAIN MCThreads /\ Proceed(MCThreads[k])
       /\ UNCHANGED vars

goVars == <<vars, handleVars>>
MCSpec ==
    /\ MCInit /\ [][MCNext]_<<part, vars, linkvars, handleVars>>
    /\ part = "link" => LinkFairness
    /\ WF_goVars(Goes(1)) /\ WF_goVars(Goes(2)) /\ WF_goVars(Goes(3))
=============================================================================
