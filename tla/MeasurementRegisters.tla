------------------------ MODULE MeasurementRegisters ------------------------
(***************************************************************************)
(* The SEV-SNP measurement registers that                                  *)
(* src/kernel/patches/0002-sev-guest-measurement-registers.patch adds to   *)
(* the guest kernel: registers that are only ever extended, a bounded log  *)
(* of the extends, and a commitment to both in every attestation report.   *)
(*                                                                         *)
(* Extends and commitments run under one spinlock.  Log readers take it    *)
(* only to learn the entry count and then copy the entries without it, so  *)
(* an extend is split at every store such a reader could observe.          *)
(*                                                                         *)
(* SHA-384 is the constant operator Hash; the verifier recomputes the same *)
(* function, so nothing is assumed of it.                                  *)
(***************************************************************************)
EXTENDS Naturals

CONSTANTS
    Tasks,       \* tasks in the guest that extend, read the log, ask for reports
    Regs,        \* register indices (SNP_MR_COUNT = 16 of them)
    Digests,     \* digests written to measurements/mrN:sha384
    UserData,    \* values of a report request's 64-byte user_data
    HashValues,  \* register contents
    Hash(_, _),  \* SHA-384(register || digest)
    Zero,        \* the zeroed static state
    LogMax,      \* SNP_MR_LOG_MAX
    Enabled,     \* snp_mr_enabled: fixed at boot by the command line
    NoTask, NoEvent

ASSUME RegistersAssumption ==
    /\ LogMax \in Nat
    /\ Enabled \in BOOLEAN
    /\ NoTask \notin Tasks
    /\ Zero \in HashValues
    /\ \A h \in HashValues, d \in Digests : Hash(h, d) \in HashValues

Event == [index : Regs, digest : Digests]
RegFile == [Regs -> HashValues]

ASSUME NoEventAssumption == NoEvent \notin Event

VARIABLES
    regs,     \* snp_mr_regs
    log,      \* snp_mr_log
    count,    \* snp_mr_event_count
    mrLock,   \* holder of snp_mr_lock
    pc,       \* what each task is doing
    event,    \* the event a task is extending with
    size,     \* the count a log reader read under the lock
    copied,   \* the entries it has copied since
    want,     \* the user_data a caller put in its request
    buf,      \* what its request buffer holds now
    reports,  \* the reports the firmware signed
    trail     \* ghost: trail[k] = the registers after k events

vars == <<regs, log, count, mrLock, pc, event, size, copied, want, buf,
          reports, trail>>

Positions == 1 .. LogMax

\* The contents of user_data: the caller's bytes, or H || C, where C binds the
\* registers and whatever bytes were in the buffer before.
Plain(u) == [kind |-> "plain", user |-> u]
Commitment(b) ==
    [kind |-> "commit", count |-> count, regs |-> regs,
     user |-> IF b.kind = "plain" THEN b.user ELSE NoEvent]

PlainBufs == [kind : {"plain"}, user : UserData \cup {NoEvent}]
CommitBufs == [kind : {"commit"}, count : 0 .. LogMax, regs : RegFile,
               user : UserData \cup {NoEvent}]
Bufs == PlainBufs \cup CommitBufs

PCs == {"idle", "full", "logging", "counting", "copying", "commit", "send",
        "restore", "resend"}

TypeOK ==
    /\ regs \in RegFile
    /\ log \in [Positions -> Event \cup {NoEvent}]
    /\ count \in 0 .. LogMax
    /\ mrLock \in Tasks \cup {NoTask}
    /\ pc \in [Tasks -> PCs]
    /\ event \in [Tasks -> Event \cup {NoEvent}]
    /\ size \in [Tasks -> 0 .. LogMax]
    /\ copied \in [Tasks -> [Positions -> Event \cup {NoEvent}]]
    /\ want \in [Tasks -> UserData \cup {NoEvent}]
    /\ buf \in [Tasks -> Bufs]
    /\ reports \subseteq [by : Tasks, for : UserData \cup {NoEvent}, data : Bufs]
    /\ trail \in [0 .. LogMax -> RegFile]

EmptyLog == [i \in Positions |-> NoEvent]

Init ==
    /\ regs = [n \in Regs |-> Zero]
    /\ log = EmptyLog
    /\ count = 0
    /\ mrLock = NoTask
    /\ pc = [t \in Tasks |-> "idle"]
    /\ event = [t \in Tasks |-> NoEvent]
    /\ size = [t \in Tasks |-> 0]
    /\ copied = [t \in Tasks |-> EmptyLog]
    /\ want = [t \in Tasks |-> NoEvent]
    /\ buf = [t \in Tasks |-> Plain(NoEvent)]
    /\ reports = {}
    /\ trail = [k \in 0 .. LogMax |-> [n \in Regs |-> Zero]]

\* R[index] = SHA-384(R[index] || digest)
Extended(r, e) == [r EXCEPT ![e.index] = Hash(@, e.digest)]

Goto(t, from, to) == pc[t] = from /\ pc' = [pc EXCEPT ![t] = to]

registerVars == <<regs, log, count, trail>>
readerVars == <<size, copied>>
requestVars == <<want, buf, reports>>

-----------------------------------------------------------------------------
(* snp_mr_extend, reached through snp_mr_write                             *)

\* Mutant: two extends may be under way at once.
ExtendUnlocked(t, e) ==
    /\ Enabled
    /\ count # LogMax
    /\ Goto(t, "idle", "logging")
    /\ regs' = Extended(regs, e)
    /\ event' = [event EXCEPT ![t] = e]
    /\ trail' = [trail EXCEPT ![count + 1] = Extended(regs, e)]
    /\ UNCHANGED <<log, count, mrLock, readerVars, requestVars>>

\* Mutant: the check for a full log is off by one.
ExtendPastEnd(t, e) ==
    /\ Enabled
    /\ mrLock = NoTask
    /\ count # LogMax + 1
    /\ Goto(t, "idle", "logging")
    /\ mrLock' = t
    /\ regs' = Extended(regs, e)
    /\ event' = [event EXCEPT ![t] = e]
    /\ trail' = [trail EXCEPT ![count + 1] = Extended(regs, e)]
    /\ UNCHANGED <<log, count, readerVars, requestVars>>

Extend(t, e) ==
    /\ Enabled
    /\ mrLock = NoTask
    /\ count # LogMax
    /\ Goto(t, "idle", "logging")
    /\ mrLock' = t
    /\ regs' = Extended(regs, e)
    /\ event' = [event EXCEPT ![t] = e]
    /\ trail' = [trail EXCEPT ![count + 1] = Extended(regs, e)]
    /\ UNCHANGED <<log, count, readerVars, requestVars>>

\* A full log refuses with -ENOSPC, found out under the lock, ...
ExtendRefused(t) ==
    /\ Enabled
    /\ mrLock = NoTask
    /\ count = LogMax
    /\ Goto(t, "idle", "full")
    /\ mrLock' = t
    /\ UNCHANGED <<registerVars, event, readerVars, requestVars>>

\* Mutant: the early return leaves the lock held.
RefusalKeepsLock(t) ==
    /\ Goto(t, "full", "idle")
    /\ UNCHANGED <<registerVars, mrLock, event, readerVars, requestVars>>

\* ... which guard() gives back on this return too.
ReturnRefused(t) ==
    /\ Goto(t, "full", "idle")
    /\ mrLock' = NoTask
    /\ UNCHANGED <<registerVars, event, readerVars, requestVars>>

ExtendLog(t) ==
    /\ Goto(t, "logging", "counting")
    /\ log' = [log EXCEPT ![count + 1] = event[t]]
    /\ UNCHANGED <<regs, count, mrLock, event, readerVars, requestVars, trail>>

\* Mutant: the log is a ring.
ExtendCountWraps(t) ==
    /\ Goto(t, "counting", "idle")
    /\ count' = IF count + 1 = LogMax THEN 0 ELSE count + 1
    /\ event' = [event EXCEPT ![t] = NoEvent]
    /\ mrLock' = NoTask
    /\ UNCHANGED <<regs, log, readerVars, requestVars, trail>>

ExtendCount(t) ==
    /\ Goto(t, "counting", "idle")
    /\ count' = count + 1
    /\ event' = [event EXCEPT ![t] = NoEvent]
    /\ mrLock' = NoTask
    /\ UNCHANGED <<regs, log, readerVars, requestVars, trail>>

-----------------------------------------------------------------------------
(* snp_mr_read_log: count under the lock, entries without it               *)

\* Mutant: the attribute has the fixed size of the log array.
ReadWholeArray(t) ==
    /\ Enabled
    /\ Goto(t, "idle", "copying")
    /\ size' = [size EXCEPT ![t] = LogMax]
    /\ copied' = [copied EXCEPT ![t] = EmptyLog]
    /\ UNCHANGED <<registerVars, mrLock, event, requestVars>>

ReadSize(t) ==
    /\ Enabled
    /\ mrLock = NoTask
    /\ Goto(t, "idle", "copying")
    /\ size' = [size EXCEPT ![t] = count]
    /\ copied' = [copied EXCEPT ![t] = EmptyLog]
    /\ UNCHANGED <<registerVars, mrLock, event, requestVars>>

CopyEntry(t, i) ==
    /\ pc[t] = "copying"
    /\ i <= size[t]
    /\ copied[t][i] = NoEvent
    /\ copied' = [copied EXCEPT ![t][i] = log[i]]
    /\ UNCHANGED <<registerVars, mrLock, pc, event, size, requestVars>>

ReadDone(t) ==
    /\ Goto(t, "copying", "idle")
    /\ \A i \in Positions : i <= size[t] => copied[t][i] # NoEvent
    /\ UNCHANGED <<registerVars, mrLock, event, readerVars, requestVars>>

-----------------------------------------------------------------------------
(* snp_send_guest_request                                                  *)

\* A report request of the wrong size is refused before anything changes, and
\* other messages pass unchanged; with the registers off, so do reports.
Request(t, u) ==
    /\ Goto(t, "idle", IF Enabled THEN "commit" ELSE "send")
    /\ want' = [want EXCEPT ![t] = u]
    /\ buf' = [buf EXCEPT ![t] = Plain(u)]
    /\ UNCHANGED <<registerVars, mrLock, event, readerVars, reports>>

\* Mutant: the commitment is computed without the lock.
CommitUnlocked(t) ==
    /\ Goto(t, "commit", "send")
    /\ buf' = [buf EXCEPT ![t] = Commitment(@)]
    /\ UNCHANGED <<registerVars, mrLock, event, readerVars, want, reports>>

\* snp_mr_commit, under the lock.
Commit(t) ==
    /\ mrLock = NoTask
    /\ Goto(t, "commit", "send")
    /\ buf' = [buf EXCEPT ![t] = Commitment(@)]
    /\ UNCHANGED <<registerVars, mrLock, event, readerVars, want, reports>>

\* The firmware signs the buffer, or refuses.
SendRequest(t) ==
    /\ Goto(t, "send", "restore")
    /\ \/ reports' = reports \cup {[by |-> t, for |-> want[t], data |-> buf[t]]}
       \/ UNCHANGED reports
    /\ UNCHANGED <<registerVars, mrLock, event, readerVars, want, buf>>

\* Mutant: the caller's bytes are restored on success only.
RestoreOnSuccess(t) ==
    /\ pc[t] = "restore"
    /\ \/ /\ pc' = [pc EXCEPT ![t] = "idle"]
          /\ buf' = [buf EXCEPT ![t] = Plain(want[t])]
       \/ /\ pc' = [pc EXCEPT ![t] = "resend"]
          /\ UNCHANGED buf
    /\ UNCHANGED <<registerVars, mrLock, event, readerVars, want, reports>>

\* The caller's bytes go back, whatever the outcome.  It may be one the caller
\* answers by resending the request (SNP_GUEST_VMM_ERR_INVALID_LEN).
Restore(t) ==
    /\ pc[t] = "restore"
    /\ \E to \in {"idle", "resend"} : pc' = [pc EXCEPT ![t] = to]
    /\ buf' = [buf EXCEPT ![t] = Plain(want[t])]
    /\ UNCHANGED <<registerVars, mrLock, event, readerVars, want, reports>>

Resend(t) ==
    /\ Goto(t, "resend", IF Enabled THEN "commit" ELSE "send")
    /\ UNCHANGED <<registerVars, mrLock, event, readerVars, requestVars>>

-----------------------------------------------------------------------------

Step(t) ==
    \/ ReturnRefused(t) \/ ExtendLog(t) \/ ExtendCount(t)
    \/ ReadDone(t) \/ \E i \in Positions : CopyEntry(t, i)
    \/ Commit(t) \/ SendRequest(t) \/ Restore(t) \/ Resend(t)

Next == \E t \in Tasks :
    \/ Step(t)
    \/ ReadSize(t) \/ ExtendRefused(t)
    \/ \E e \in Event : Extend(t, e)
    \/ \E u \in UserData : Request(t, u)

Spec == Init /\ [][Next]_vars

\* The kernel runs a task's system call to its end; tasks need not start any.
\* Its spinlocks queue their waiters, so one that waits for a lock that others
\* take and release over and over gets its turn.
Fairness == \A t \in Tasks : WF_vars(Step(t)) /\ SF_vars(Commit(t))
FairSpec == Spec /\ Fairness

-----------------------------------------------------------------------------
(* Properties                                                              *)

\* f is the verifier's replay, from zero registers, of the first k entries
\* of L (docs/VERIFYING.md, "replays the first H entries of the log").
IsReplay(f, L, k) ==
    /\ f[0] = [n \in Regs |-> Zero]
    /\ \A i \in 1 .. k : L[i] \in Event /\ f[i] = Extended(f[i - 1], L[i])

\* Outside an extend the registers are the replay of the whole log: every
\* register change has its log entry, in the order the changes were made.
RegistersAreReplay ==
    /\ IsReplay(trail, log, count)
    /\ mrLock = NoTask => regs = trail[count]

\* Every report verifies: it commits to the caller's own bytes, also when the
\* request was resent, and to the registers a verifier gets by replaying the
\* first H entries of the log, whatever was extended before or after it.
ReportsVerify ==
    \A r \in reports :
        IF Enabled
          THEN /\ r.data.kind = "commit"
               /\ r.data.user = r.for
               /\ r.data.count <= count
               /\ r.data.regs = trail[r.data.count]
          ELSE r.data = Plain(r.for)

\* A log reader that takes the lock only for the count never copies an entry
\* that is missing, half written or later changed ("Logged entries never
\* change, so the log is read without the lock").
ReadsArePrefix ==
    \A t \in Tasks, i \in Positions :
        copied[t][i] # NoEvent => i <= count /\ copied[t][i] = log[i]

\* Nothing is ever taken back: the log and its replay only grow, also when
\* the log is full and extends are refused.
NothingTakenBack ==
    [][/\ count <= count'
       /\ \A i \in 1 .. count : log'[i] = log[i] /\ trail'[i] = trail[i]]_vars

\* A task that entered the driver comes back to its caller: no waiting on the
\* spinlock forever, also with extends and readers of other tasks around it and
\* after an extend that a full log refused.
CallsReturn ==
    \A t \in Tasks : pc[t] \in {"full", "logging", "copying", "commit"} ~>
                     pc[t] \in {"idle", "resend"}
=============================================================================
