---------------------------- MODULE CommittedLog ----------------------------
(***************************************************************************)
(* What the SNP measurement registers promise their users, without locks,  *)
(* copies or buffers: an append-only log of at most LogMax events, the     *)
(* register values that follow from it, and reports each of which commits  *)
(* to the caller's bytes and, at one instant, to the length of the log and *)
(* to the register values (docs/VERIFYING.md, "replays the first H entries *)
(* of the log").  MeasurementRegisters implements it.                      *)
(***************************************************************************)
EXTENDS Naturals

CONSTANTS Tasks, Events, UserData, LogMax,
          InitialValue,
          After(_, _),    \* a register file after one more event
          None

VARIABLES
    entries,    \* the log: a function from 1 .. length
    length,
    value,      \* the register file
    committed,  \* for each task the commitment it holds, or None
    issued      \* the reports handed out
cvars == <<entries, length, value, committed, issued>>

CInit ==
    /\ entries = [i \in {} |-> None] /\ length = 0
    /\ value = InitialValue
    /\ committed = [t \in Tasks |-> None]
    /\ issued = {}

\* The event and its effect on the registers appear in one step.
AppendEvent(e) ==
    /\ length < LogMax
    /\ length' = length + 1
    /\ entries' = [i \in 1 .. length + 1 |-> IF i = length + 1 THEN e ELSE entries[i]]
    /\ value' = After(value, e)
    /\ UNCHANGED <<committed, issued>>

Snapshot(u) == [user |-> u, count |-> length, regs |-> value]
CommitTo(t, u) ==
    /\ committed[t] = None
    /\ committed' = [committed EXCEPT ![t] = Snapshot(u)]
    /\ UNCHANGED <<entries, length, value, issued>>

Issue(t) ==
    /\ committed[t] # None
    /\ issued' = issued \cup {[by |-> t, user |-> committed[t].user,
                               count |-> committed[t].count, regs |-> committed[t].regs]}
    /\ UNCHANGED <<entries, length, value, committed>>

Forget(t) ==
    /\ committed' = [committed EXCEPT ![t] = None]
    /\ UNCHANGED <<entries, length, value, issued>>

CNext ==
    \/ \E e \in Events : AppendEvent(e)
    \/ \E t \in Tasks : Issue(t) \/ Forget(t) \/ \E u \in UserData : CommitTo(t, u)

CSpec == CInit /\ [][CNext]_cvars
=============================================================================
