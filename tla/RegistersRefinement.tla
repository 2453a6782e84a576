------------------------ MODULE RegistersRefinement -------------------------
(***************************************************************************)
(* MeasurementRegisters implements CommittedLog.  An event enters the log  *)
(* when snp_mr_event_count is incremented, the last store of an extend; a  *)
(* commitment is taken when snp_mr_commit runs under the lock and is held  *)
(* until the caller's bytes are put back; a report is what the firmware    *)
(* signed for the bytes the caller asked for.                              *)
(***************************************************************************)
EXTENDS MeasurementRegisters

HeldCommitment(t) ==
    IF buf[t].kind = "commit"
    THEN [user |-> buf[t].user, count |-> buf[t].count, regs |-> buf[t].regs]
    ELSE NoEvent

\* A missing commitment is no commitment.
ASSUME NoCommitmentAssumption ==
    NoEvent \notin [user : UserData \cup {NoEvent}, count : 0 .. LogMax, regs : RegFile]

SignedReports ==
    {[by |-> r.by, user |-> r.for, count |-> r.data.count, regs |-> r.data.regs] :
        r \in {q \in reports : q.data.kind = "commit"}}

Promise == INSTANCE CommittedLog WITH
    Events <- Event, InitialValue <- [n \in Regs |-> Zero],
    After <- Extended, None <- NoEvent,
    entries <- [i \in 1 .. count |-> log[i]], length <- count, value <- trail[count],
    committed <- [t \in Tasks |-> HeldCommitment(t)], issued <- SignedReports

\* Every behaviour of the driver, with its spinlock, unlocked readers, split
\* extends, restored buffers and resent requests, is a behaviour of the
\* promised log: extends and commitments are atomic, reports are of exactly
\* one such commitment (snp_mr_extend, snp_mr_commit, snp_send_guest_request).
ImplementsCommittedLog == Promise!CSpec
=============================================================================
