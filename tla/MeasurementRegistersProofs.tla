--------------------- MODULE MeasurementRegistersProofs ---------------------
(***************************************************************************)
(* Proofs that the registers, their log and the reports of                 *)
(* MeasurementRegisters agree, for any number of tasks, registers and log  *)
(* entries and for every hash function.                                    *)
(***************************************************************************)
EXTENDS RegistersRefinement, TLAPS

\* An extend keeps a register file a register file.
LEMMA ExtendedType ==
    ASSUME NEW r \in RegFile, NEW e \in Event
    PROVE  Extended(r, e) \in RegFile
<1>1. e.index \in Regs /\ e.digest \in Digests
  BY DEF Event
<1>2. Hash(r[e.index], e.digest) \in HashValues
  BY <1>1, RegistersAssumption DEF RegFile
<1> QED
  BY <1>1, <1>2 DEF Extended, RegFile

\* What a report's user_data becomes is a commitment.
LEMMA CommitmentType ==
    ASSUME TypeOK, NEW t \in Tasks
    PROVE  Commitment(buf[t]) \in Bufs
<1>1. buf[t] \in Bufs
  BY DEF TypeOK
<1>2. buf[t].kind = "plain" => buf[t].user \in UserData \cup {NoEvent}
  BY <1>1 DEF Bufs, PlainBufs, CommitBufs
<1>3. count \in 0 .. LogMax /\ regs \in RegFile
  BY DEF TypeOK
<1> QED
  BY <1>2, <1>3 DEF Commitment, Bufs, CommitBufs

\* The caller's bytes are a request buffer.
LEMMA PlainType ==
    ASSUME NEW u \in UserData \cup {NoEvent}
    PROVE  Plain(u) \in Bufs
  BY DEF Plain, Bufs, PlainBufs

-----------------------------------------------------------------------------
(* The inductive invariant                                                 *)

\* Between the first and the last store of snp_mr_extend.
Extending(t) == pc[t] \in {"logging", "counting"}

\* A task inside an extend holds the lock and has a log entry to fill; one that
\* a full log refuses holds the lock until it returns.
LockInv == \A t \in Tasks :
    /\ Extending(t) => mrLock = t /\ count < LogMax
    /\ pc[t] = "full" => mrLock = t

\* Inside an extend the registers are one event ahead of the entry count; a
\* refused extend has not touched them.
AheadInv ==
    \A t \in Tasks :
        /\ Extending(t) =>
             /\ event[t] \in Event
             /\ trail[count + 1] = regs
             /\ regs = Extended(trail[count], event[t])
             /\ pc[t] = "counting" => log[count + 1] = event[t]
        /\ pc[t] = "full" => regs = trail[count]

\* What user_data d must be in a report for user data u, when c events are
\* logged and f is their replay.
Verifies(d, u, c, f) ==
    IF Enabled
      THEN d.kind = "commit" /\ d.user = u /\ d.count <= c
           /\ d.regs = f[d.count]
      ELSE d = Plain(u)

\* The request buffer holds the caller's bytes until they are committed, and
\* a commitment that verifies from then until it is sent.
RequestInv ==
    \A t \in Tasks :
        /\ pc[t] = "commit" => Enabled
        /\ pc[t] \in {"commit", "resend"} => buf[t] = Plain(want[t])
        /\ pc[t] = "send" => Verifies(buf[t], want[t], count, trail)

\* A reader's entry count is one the log has reached.
SizeInv == \A t \in Tasks : size[t] <= count

-----------------------------------------------------------------------------
(* Type correctness                                                        *)

\* Initially every variable has its type.
LEMMA TypeInit == Init => TypeOK
<1> SUFFICES ASSUME Init PROVE TypeOK
  OBVIOUS
<1>1. [n \in Regs |-> Zero] \in RegFile
  BY RegistersAssumption DEF RegFile
<1>2. EmptyLog \in [Positions -> Event \cup {NoEvent}]
  BY DEF EmptyLog
<1>3. 0 \in 0 .. LogMax
  BY RegistersAssumption
<1>4. Plain(NoEvent) \in Bufs
  BY PlainType
<1> QED
  BY <1>1, <1>2, <1>3, <1>4 DEF Init, TypeOK, PCs

\* Every step keeps the types.
LEMMA TypeStep == TypeOK /\ LockInv /\ [Next]_vars => TypeOK'
<1> SUFFICES ASSUME TypeOK, LockInv, [Next]_vars PROVE TypeOK'
  OBVIOUS
<1> USE RegistersAssumption
<1>1. ASSUME NEW t \in Tasks, NEW e \in Event, Extend(t, e) PROVE TypeOK'
  <2>1. Extended(regs, e) \in RegFile
    BY ExtendedType DEF TypeOK
  <2>2. count + 1 \in 0 .. LogMax
    BY <1>1 DEF Extend, TypeOK
  <2>3. pc' \in [Tasks -> PCs]
    BY <1>1 DEF Extend, Goto, TypeOK, PCs
  <2>4. trail' \in [0 .. LogMax -> RegFile]
    BY <1>1, <2>1, <2>2 DEF Extend, TypeOK
  <2> QED
    BY <1>1, <2>1, <2>3, <2>4
    DEF Extend, TypeOK, readerVars, requestVars
<1>2. ASSUME NEW t \in Tasks, ExtendLog(t) PROVE TypeOK'
  <2>1. pc' \in [Tasks -> PCs]
    BY <1>2 DEF ExtendLog, Goto, TypeOK, PCs
  <2>2. log' \in [Positions -> Event \cup {NoEvent}]
    BY <1>2 DEF ExtendLog, TypeOK
  <2> QED
    BY <1>2, <2>1, <2>2 DEF ExtendLog, TypeOK, readerVars, requestVars
<1>3. ASSUME NEW t \in Tasks, ExtendCount(t) PROVE TypeOK'
  <2>1. pc' \in [Tasks -> PCs]
    BY <1>3 DEF ExtendCount, Goto, TypeOK, PCs
  <2>2. count' \in 0 .. LogMax
    BY <1>3 DEF ExtendCount, Goto, Extending, LockInv, TypeOK
  <2> QED
    BY <1>3, <2>1, <2>2 DEF ExtendCount, TypeOK, readerVars, requestVars
<1>4. ASSUME NEW t \in Tasks, ReadSize(t) PROVE TypeOK'
  <2>1. pc' \in [Tasks -> PCs]
    BY <1>4 DEF ReadSize, Goto, TypeOK, PCs
  <2>2. EmptyLog \in [Positions -> Event \cup {NoEvent}]
    BY DEF EmptyLog
  <2> QED
    BY <1>4, <2>1, <2>2 DEF ReadSize, TypeOK, registerVars, requestVars
<1>5. ASSUME NEW t \in Tasks, NEW i \in Positions, CopyEntry(t, i) PROVE TypeOK'
  <2>1. copied' \in [Tasks -> [Positions -> Event \cup {NoEvent}]]
    BY <1>5 DEF CopyEntry, TypeOK
  <2> QED
    BY <1>5, <2>1 DEF CopyEntry, TypeOK, registerVars, requestVars
<1>6. ASSUME NEW t \in Tasks, ReadDone(t) PROVE TypeOK'
  BY <1>6 DEF ReadDone, Goto, TypeOK, PCs, registerVars, readerVars, requestVars
<1>7. ASSUME NEW t \in Tasks, NEW u \in UserData, Request(t, u) PROVE TypeOK'
  <2>1. Plain(u) \in Bufs
    BY PlainType
  <2>2. pc' \in [Tasks -> PCs]
    BY <1>7 DEF Request, Goto, TypeOK, PCs
  <2> QED
    BY <1>7, <2>1, <2>2 DEF Request, TypeOK, registerVars, readerVars
<1>8. ASSUME NEW t \in Tasks, Commit(t) PROVE TypeOK'
  <2>1. Commitment(buf[t]) \in Bufs
    BY CommitmentType
  <2>2. pc' \in [Tasks -> PCs]
    BY <1>8 DEF Commit, Goto, TypeOK, PCs
  <2> QED
    BY <1>8, <2>1, <2>2 DEF Commit, TypeOK, registerVars, readerVars
<1>9. ASSUME NEW t \in Tasks, SendRequest(t) PROVE TypeOK'
  <2>1. pc' \in [Tasks -> PCs]
    BY <1>9 DEF SendRequest, Goto, TypeOK, PCs
  <2>2. reports' \subseteq [by : Tasks, for : UserData \cup {NoEvent}, data : Bufs]
    BY <1>9 DEF SendRequest, TypeOK
  <2> QED
    BY <1>9, <2>1, <2>2 DEF SendRequest, TypeOK, registerVars, readerVars
<1>10. ASSUME NEW t \in Tasks, Restore(t) PROVE TypeOK'
  <2>1. Plain(want[t]) \in Bufs
    BY PlainType DEF TypeOK
  <2>2. pc' \in [Tasks -> PCs]
    BY <1>10 DEF Restore, TypeOK, PCs
  <2> QED
    BY <1>10, <2>1, <2>2 DEF Restore, TypeOK, registerVars, readerVars
<1>11. ASSUME NEW t \in Tasks, Resend(t) PROVE TypeOK'
  BY <1>11 DEF Resend, Goto, TypeOK, PCs, registerVars, readerVars, requestVars
<1>12. ASSUME NEW t \in Tasks, ExtendRefused(t) \/ ReturnRefused(t) PROVE TypeOK'
  <2>1. pc' \in [Tasks -> PCs]
    BY <1>12 DEF ExtendRefused, ReturnRefused, Goto, TypeOK, PCs
  <2> QED
    BY <1>12, <2>1 DEF ExtendRefused, ReturnRefused, TypeOK, registerVars, readerVars,
                       requestVars
<1>13. CASE UNCHANGED vars
  BY <1>13 DEF TypeOK, vars
<1> QED
  BY <1>1, <1>2, <1>3, <1>4, <1>5, <1>6, <1>7, <1>8, <1>9, <1>10, <1>11, <1>12, <1>13
  DEF Next, Step

\* What LockInv says of one task.
Kept(t) ==
    /\ Extending(t) => mrLock = t /\ count < LogMax
    /\ pc[t] = "full" => mrLock = t

\* Taking the lock first is what keeps a second extend out.
LEMMA LockStep == TypeOK /\ LockInv /\ [Next]_vars => LockInv'
<1> SUFFICES ASSUME TypeOK, LockInv, [Next]_vars, NEW t \in Tasks
             PROVE  Kept(t)'
  BY DEF LockInv, Kept
<1> USE RegistersAssumption DEF Kept, Extending, LockInv, TypeOK
<1>1. ASSUME NEW s \in Tasks, NEW e \in Event, Extend(s, e)
      PROVE  Kept(t)'
  BY <1>1 DEF Extend, Goto
<1>2. ASSUME NEW s \in Tasks, ExtendLog(s)
      PROVE  Kept(t)'
  BY <1>2 DEF ExtendLog, Goto
<1>3. ASSUME NEW s \in Tasks, ExtendCount(s)
      PROVE  Kept(t)'
  BY <1>3 DEF ExtendCount, Goto
<1>4. ASSUME NEW s \in Tasks, ReadSize(s) \/ ReadDone(s)
      PROVE  Kept(t)'
  BY <1>4 DEF ReadSize, ReadDone, Goto, registerVars
<1>5. ASSUME NEW s \in Tasks, NEW i \in Positions, CopyEntry(s, i)
      PROVE  Kept(t)'
  BY <1>5 DEF CopyEntry, registerVars
<1>6. ASSUME NEW s \in Tasks, NEW u \in UserData, Request(s, u)
      PROVE  Kept(t)'
  BY <1>6 DEF Request, Goto, registerVars
<1>7. ASSUME NEW s \in Tasks,
             Commit(s) \/ SendRequest(s) \/ Restore(s) \/ Resend(s)
      PROVE  Kept(t)'
  BY <1>7 DEF Commit, SendRequest, Restore, Resend, Goto, registerVars
<1>8. ASSUME NEW s \in Tasks, ExtendRefused(s) \/ ReturnRefused(s)
      PROVE  Kept(t)'
  BY <1>8 DEF ExtendRefused, ReturnRefused, Goto, registerVars
<1>9. CASE UNCHANGED vars
  BY <1>9 DEF vars
<1> QED
  BY <1>1, <1>2, <1>3, <1>4, <1>5, <1>6, <1>7, <1>8, <1>9 DEF Next, Step

\* Every reachable state is well typed (TypeOK): the count never passes the
\* end of the log array and no store goes outside the arrays.
THEOREM TypeCorrect == Spec => []TypeOK
<1>1. Init => LockInv
  BY DEF Init, LockInv, Extending
<1> QED
  BY <1>1, TypeInit, TypeStep, LockStep, PTL DEF Spec

-----------------------------------------------------------------------------
(* Growth                                                                  *)

\* A step keeps the first count log entries and the register values after
\* each of them.
Growth ==
    /\ count <= count'
    /\ \A i \in 1 .. count : log'[i] = log[i]
    /\ \A i \in 0 .. count : trail'[i] = trail[i]

\* Only an extend writes, and only one entry past the count.
LEMMA StepGrows == TypeOK /\ LockInv /\ [Next]_vars => Growth
<1> SUFFICES ASSUME TypeOK, LockInv, [Next]_vars PROVE Growth
  OBVIOUS
<1> USE RegistersAssumption DEF Growth
<1>1. ASSUME NEW t \in Tasks, NEW e \in Event, Extend(t, e) PROVE Growth
  BY <1>1 DEF Extend, TypeOK
<1>2. ASSUME NEW t \in Tasks, ExtendLog(t) PROVE Growth
  <2>1. count < LogMax
    BY <1>2 DEF ExtendLog, Goto, LockInv, Extending
  <2> QED
    BY <1>2, <2>1 DEF ExtendLog, TypeOK, Positions
<1>3. ASSUME NEW t \in Tasks, ExtendCount(t) PROVE Growth
  BY <1>3 DEF ExtendCount, TypeOK
<1>4. ASSUME UNCHANGED registerVars PROVE Growth
  BY <1>4 DEF registerVars, TypeOK
<1>5. ASSUME NEW t \in Tasks,
             \/ ReadSize(t) \/ ReadDone(t) \/ Commit(t) \/ SendRequest(t)
             \/ Restore(t) \/ Resend(t) \/ ExtendRefused(t) \/ ReturnRefused(t)
             \/ \E i \in Positions : CopyEntry(t, i)
             \/ \E u \in UserData : Request(t, u)
      PROVE  Growth
  BY <1>4, <1>5 DEF ExtendRefused, ReturnRefused, ReadSize, ReadDone, Commit, SendRequest, Restore, Resend,
                    CopyEntry, Request
<1>6. CASE UNCHANGED vars
  BY <1>4, <1>6 DEF vars, registerVars
<1> QED
  BY <1>1, <1>2, <1>3, <1>5, <1>6 DEF Next, Step

\* No step takes back a logged event or a register value it led to
\* (NothingTakenBack), also when the log is full.
THEOREM LogOnlyGrows == Spec => NothingTakenBack
<1>1. Init => LockInv
  BY DEF Init, LockInv, Extending
<1>2. TypeOK /\ LockInv /\ [Next]_vars =>
        [/\ count <= count'
         /\ \A i \in 1 .. count : log'[i] = log[i] /\ trail'[i] = trail[i]]_vars
  <2> SUFFICES ASSUME TypeOK, Growth
               PROVE  /\ count <= count'
                      /\ \A i \in 1 .. count : log'[i] = log[i] /\ trail'[i] = trail[i]
    BY StepGrows
  <2> QED
    BY DEF Growth, TypeOK
<1> QED
  BY <1>1, <1>2, TypeInit, TypeStep, LockStep, PTL DEF Spec, NothingTakenBack

-----------------------------------------------------------------------------
(* Registers, log and reports agree                                        *)

RegisterInv == TypeOK /\ LockInv /\ AheadInv /\ RegistersAreReplay

\* Steps that leave the registers, the lock and every extend alone.
LEMMA RegisterFrame ==
    ASSUME RegisterInv, UNCHANGED <<registerVars, mrLock, event>>,
           \A t \in Tasks : Extending(t)' \/ pc'[t] = "full" => pc'[t] = pc[t]
    PROVE  (AheadInv /\ RegistersAreReplay)'
<1>1. AheadInv'
  BY DEF RegisterInv, AheadInv, Extending, registerVars
<1>2. RegistersAreReplay'
  BY DEF RegisterInv, RegistersAreReplay, IsReplay, registerVars
<1> QED
  BY <1>1, <1>2

\* The first store of an extend: it runs one event ahead of the count.
LEMMA ExtendKeepsReplay ==
    ASSUME RegisterInv, NEW s \in Tasks, NEW e \in Event, Extend(s, e)
    PROVE  (AheadInv /\ RegistersAreReplay)'
<1> USE RegistersAssumption DEF RegisterInv
<1>1. count \in 0 .. LogMax /\ count < LogMax /\ count' = count /\ log' = log
  BY DEF Extend, TypeOK
<1>2. /\ trail'[count + 1] = Extended(regs, e)
      /\ \A i \in 0 .. count : trail'[i] = trail[i]
  BY <1>1 DEF Extend, TypeOK
<1>3. regs = trail[count] /\ IsReplay(trail, log, count)
  BY DEF Extend, RegistersAreReplay
<1>4. IsReplay(trail', log', count')
  <2>1. trail'[0] = [n \in Regs |-> Zero]
    BY <1>1, <1>2, <1>3 DEF IsReplay
  <2>2. ASSUME NEW i \in 1 .. count
        PROVE  log[i] \in Event /\ trail'[i] = Extended(trail'[i - 1], log[i])
    <3>1. trail'[i] = trail[i] /\ trail'[i - 1] = trail[i - 1]
      BY <1>1, <1>2
    <3> QED
      BY <1>3, <3>1 DEF IsReplay
  <2> QED
    BY <1>1, <2>1, <2>2 DEF IsReplay
<1>5. RegistersAreReplay'
  BY <1>4 DEF RegistersAreReplay, Extend
<1>6. ASSUME NEW t \in Tasks, Extending(t)' \/ pc'[t] = "full" PROVE t = s
  BY <1>6 DEF Extend, Goto, Extending, LockInv, TypeOK
<1>7. AheadInv'
  <2>1. event'[s] = e /\ pc'[s] = "logging" /\ regs' = Extended(regs, e)
    BY DEF Extend, Goto, TypeOK
  <2>2. trail'[count'] = regs
    BY <1>1, <1>2, <1>3
  <2> QED
    BY <1>1, <1>2, <1>6, <2>1, <2>2 DEF AheadInv
<1> QED
  BY <1>5, <1>7

\* The second store: the log entry, still past the count.
LEMMA ExtendLogKeepsReplay ==
    ASSUME RegisterInv, NEW s \in Tasks, ExtendLog(s)
    PROVE  (AheadInv /\ RegistersAreReplay)'
<1> USE RegistersAssumption DEF RegisterInv
<1>1. /\ mrLock = s /\ count \in 0 .. LogMax /\ count < LogMax
      /\ count' = count /\ trail' = trail /\ regs' = regs /\ event' = event
      /\ mrLock' = mrLock
  BY DEF ExtendLog, Goto, LockInv, Extending, TypeOK
<1>2. /\ log'[count + 1] = event[s]
      /\ \A i \in 1 .. count : log'[i] = log[i]
  BY <1>1 DEF ExtendLog, TypeOK, Positions
<1>3. RegistersAreReplay'
  BY <1>1, <1>2 DEF RegistersAreReplay, IsReplay
<1>4. ASSUME NEW t \in Tasks, Extending(t)' \/ pc'[t] = "full" PROVE t = s
  BY <1>1, <1>4 DEF ExtendLog, Goto, Extending, LockInv, TypeOK
<1>5. AheadInv'
  <2>1. Extending(s) /\ pc'[s] # "full"
    BY DEF ExtendLog, Goto, Extending, TypeOK
  <2> QED
    BY <1>1, <1>2, <1>4, <2>1 DEF AheadInv
<1> QED
  BY <1>3, <1>5

\* The third store: the count catches up.
LEMMA ExtendCountKeepsReplay ==
    ASSUME RegisterInv, NEW s \in Tasks, ExtendCount(s)
    PROVE  (AheadInv /\ RegistersAreReplay)'
<1> USE RegistersAssumption DEF RegisterInv
<1>1. /\ mrLock = s /\ count \in 0 .. LogMax /\ count < LogMax
      /\ count' = count + 1 /\ trail' = trail /\ regs' = regs /\ log' = log
  BY DEF ExtendCount, Goto, LockInv, Extending, TypeOK
<1>2. /\ event[s] \in Event /\ trail[count + 1] = regs
      /\ regs = Extended(trail[count], event[s]) /\ log[count + 1] = event[s]
  BY DEF ExtendCount, Goto, Extending, AheadInv
<1>3. IsReplay(trail, log, count + 1)
  <2>1. ASSUME NEW i \in 1 .. count + 1
        PROVE  log[i] \in Event /\ trail[i] = Extended(trail[i - 1], log[i])
    <3>1. CASE i \in 1 .. count
      BY <3>1 DEF RegistersAreReplay, IsReplay
    <3>2. CASE i = count + 1
      <4>1. i - 1 = count
        BY <1>1, <3>2
      <4> QED
        BY <1>2, <3>2, <4>1
    <3> QED
      BY <1>1, <3>1, <3>2
  <2> QED
    BY <2>1 DEF RegistersAreReplay, IsReplay
<1>4. RegistersAreReplay'
  BY <1>1, <1>2, <1>3 DEF RegistersAreReplay
<1>5. ASSUME NEW t \in Tasks PROVE ~Extending(t)' /\ pc'[t] # "full"
  BY <1>1 DEF ExtendCount, Goto, Extending, LockInv, TypeOK
<1> QED
  BY <1>4, <1>5 DEF AheadInv

\* An extend that a full log refuses touches neither, and gives the lock back
\* with the two in agreement.
LEMMA RefusalKeepsReplay ==
    ASSUME RegisterInv, NEW s \in Tasks, ExtendRefused(s) \/ ReturnRefused(s)
    PROVE  (AheadInv /\ RegistersAreReplay)'
<1> USE RegistersAssumption DEF RegisterInv
<1>1. UNCHANGED registerVars /\ event' = event /\ regs = trail[count]
  BY DEF ExtendRefused, ReturnRefused, Goto, AheadInv, RegistersAreReplay
<1>2. \A t \in Tasks : Extending(t)' => Extending(t) /\ pc'[t] = pc[t]
  BY DEF ExtendRefused, ReturnRefused, Goto, Extending, TypeOK
<1>3. AheadInv'
  BY <1>1, <1>2 DEF AheadInv, registerVars
<1>4. RegistersAreReplay'
  BY <1>1 DEF RegistersAreReplay, IsReplay, registerVars
<1> QED
  BY <1>3, <1>4

\* Every step keeps the registers and the log in agreement.
LEMMA RegisterStep == RegisterInv /\ [Next]_vars => RegisterInv'
<1> SUFFICES ASSUME RegisterInv, [Next]_vars PROVE RegisterInv'
  OBVIOUS
<1>1. TypeOK' /\ LockInv'
  BY TypeStep, LockStep DEF RegisterInv
<1>2. ASSUME NEW t \in Tasks, NEW e \in Event, Extend(t, e)
      PROVE  (AheadInv /\ RegistersAreReplay)'
  BY <1>2, ExtendKeepsReplay
<1>3. ASSUME NEW t \in Tasks, ExtendLog(t)
      PROVE  (AheadInv /\ RegistersAreReplay)'
  BY <1>3, ExtendLogKeepsReplay
<1>4. ASSUME NEW t \in Tasks, ExtendCount(t)
      PROVE  (AheadInv /\ RegistersAreReplay)'
  BY <1>4, ExtendCountKeepsReplay
<1>5. ASSUME NEW t \in Tasks,
             \/ ReadSize(t) \/ ReadDone(t) \/ Commit(t) \/ SendRequest(t)
             \/ Restore(t) \/ Resend(t)
             \/ \E i \in Positions : CopyEntry(t, i)
             \/ \E u \in UserData : Request(t, u)
      PROVE  (AheadInv /\ RegistersAreReplay)'
  <2>1. UNCHANGED <<registerVars, mrLock, event>>
    BY <1>5 DEF ReadSize, ReadDone, Commit, SendRequest, Restore, Resend,
                CopyEntry, Request
  <2>2. \A s \in Tasks : Extending(s)' \/ pc'[s] = "full" => pc'[s] = pc[s]
    BY <1>5 DEF ReadSize, ReadDone, Commit, SendRequest, Restore, Resend,
                CopyEntry, Request, Goto, Extending, RegisterInv, TypeOK
  <2> QED
    BY <2>1, <2>2, RegisterFrame
<1>6. ASSUME NEW t \in Tasks, ExtendRefused(t) \/ ReturnRefused(t)
      PROVE  (AheadInv /\ RegistersAreReplay)'
  BY <1>6, RefusalKeepsReplay
<1>7. ASSUME UNCHANGED vars
      PROVE  (AheadInv /\ RegistersAreReplay)'
  <2>1. /\ UNCHANGED <<registerVars, mrLock, event>>
        /\ \A s \in Tasks : Extending(s)' \/ pc'[s] = "full" => pc'[s] = pc[s]
    BY <1>7 DEF vars, registerVars, Extending
  <2> QED
    BY <2>1, RegisterFrame
<1> QED
  BY <1>1, <1>2, <1>3, <1>4, <1>5, <1>6, <1>7 DEF Next, Step, RegisterInv

\* Initially nothing is logged and every register is zero.
LEMMA RegisterInit == Init => RegisterInv
<1> SUFFICES ASSUME Init PROVE RegisterInv
  OBVIOUS
<1>1. LockInv /\ AheadInv
  BY DEF Init, LockInv, AheadInv, Extending
<1>2. trail[0] = [n \in Regs |-> Zero] /\ count = 0 /\ regs = [n \in Regs |-> Zero]
  BY RegistersAssumption DEF Init
<1>3. RegistersAreReplay
  BY <1>2 DEF RegistersAreReplay, IsReplay
<1> QED
  BY <1>1, <1>3, TypeInit DEF RegisterInv

\* Outside an extend the registers are the replay of the whole log
\* (RegistersAreReplay), for every interleaving of the stores of snp_mr_extend
\* with other tasks.
THEOREM RegistersReplay == Spec => []RegistersAreReplay
<1>1. RegisterInv => RegistersAreReplay
  BY DEF RegisterInv
<1> QED
  BY <1>1, RegisterInit, RegisterStep, PTL DEF Spec

-----------------------------------------------------------------------------
(* Reports                                                                 *)

ReportInv == RegisterInv /\ RequestInv /\ ReportsVerify

\* What verifies keeps verifying as the log grows.
LEMMA VerifiesStable ==
    ASSUME RegisterInv, Growth, NEW d \in Bufs, NEW u,
           Verifies(d, u, count, trail), count' \in 0 .. LogMax
    PROVE  Verifies(d, u, count', trail')
<1> USE RegistersAssumption
<1>1. CASE ~Enabled
  BY <1>1 DEF Verifies
<1>2. CASE Enabled
  <2>1. d.kind = "commit" /\ d.user = u /\ d.count <= count
        /\ d.regs = trail[d.count]
    BY <1>2 DEF Verifies
  <2>2. d.count \in 0 .. LogMax
    BY <2>1 DEF Bufs, PlainBufs, CommitBufs
  <2>3. d.count \in 0 .. count /\ d.count <= count'
    BY <2>1, <2>2 DEF Growth, RegisterInv, TypeOK
  <2> QED
    BY <1>2, <2>1, <2>3 DEF Verifies, Growth
<1> QED
  BY <1>1, <1>2

\* A request that a step leaves alone stays what it was.
LEMMA RequestFrame ==
    ASSUME ReportInv, RegisterInv', Growth, NEW t \in Tasks,
           pc'[t] = pc[t] \/ pc'[t] \notin {"commit", "resend", "send"},
           buf'[t] = buf[t], want'[t] = want[t]
    PROVE  /\ pc'[t] = "commit" => Enabled
           /\ pc'[t] \in {"commit", "resend"} => buf'[t] = Plain(want'[t])
           /\ pc'[t] = "send" => Verifies(buf'[t], want'[t], count', trail')
<1>1. CASE pc'[t] \notin {"commit", "resend", "send"}
  BY <1>1
<1>2. CASE pc'[t] = pc[t]
  <2>1. /\ pc'[t] = "commit" => Enabled
        /\ pc'[t] \in {"commit", "resend"} => buf'[t] = Plain(want'[t])
    BY <1>2 DEF ReportInv, RequestInv
  <2>2. ASSUME pc'[t] = "send"
        PROVE  Verifies(buf'[t], want'[t], count', trail')
    <3>1. Verifies(buf[t], want[t], count, trail) /\ buf[t] \in Bufs
      BY <1>2, <2>2 DEF ReportInv, RegisterInv, RequestInv, TypeOK
    <3>2. Verifies(buf[t], want[t], count', trail')
      BY <3>1, VerifiesStable DEF ReportInv, RegisterInv, TypeOK
    <3> QED
      BY <3>2
  <2> QED
    BY <2>1, <2>2
<1> QED
  BY <1>1, <1>2

\* A commitment made under the lock verifies.
LEMMA CommitVerifies ==
    ASSUME ReportInv, NEW t \in Tasks, Commit(t)
    PROVE  Verifies(buf'[t], want'[t], count', trail')
<1>1. Enabled /\ buf[t] = Plain(want[t]) /\ regs = trail[count]
  BY DEF Commit, Goto, ReportInv, RegisterInv, RequestInv, RegistersAreReplay
<1>2. buf'[t] = Commitment(buf[t]) /\ want'[t] = want[t]
      /\ count' = count /\ trail' = trail
  BY DEF Commit, ReportInv, RegisterInv, TypeOK, registerVars
<1>3. /\ Commitment(buf[t]).kind = "commit" /\ Commitment(buf[t]).user = want[t]
      /\ Commitment(buf[t]).count = count /\ Commitment(buf[t]).regs = regs
  BY <1>1 DEF Commitment, Plain
<1>4. count <= count
  BY RegistersAssumption DEF ReportInv, RegisterInv, TypeOK
<1> QED
  BY <1>1, <1>2, <1>3, <1>4 DEF Verifies

\* Every step keeps the requests of all tasks in order.
LEMMA RequestStep == ReportInv /\ [Next]_vars => RequestInv'
<1> SUFFICES ASSUME ReportInv, [Next]_vars, NEW t \in Tasks
             PROVE  /\ pc'[t] = "commit" => Enabled
                    /\ pc'[t] \in {"commit", "resend"} => buf'[t] = Plain(want'[t])
                    /\ pc'[t] = "send" =>
                         Verifies(buf'[t], want'[t], count', trail')
  BY DEF RequestInv
<1> DEFINE Goal == /\ pc'[t] = "commit" => Enabled
                   /\ pc'[t] \in {"commit", "resend"} => buf'[t] = Plain(want'[t])
                   /\ pc'[t] = "send" =>
                        Verifies(buf'[t], want'[t], count', trail')
<1>1. RegisterInv' /\ Growth
  BY RegisterStep, StepGrows DEF ReportInv, RegisterInv
<1>2. TypeOK
  BY DEF ReportInv, RegisterInv
<1>3. ASSUME pc'[t] = pc[t] \/ pc'[t] \notin {"commit", "resend", "send"},
             buf'[t] = buf[t], want'[t] = want[t]
      PROVE  Goal
  BY <1>1, <1>3, RequestFrame
<1> HIDE DEF Goal
<1>4. ASSUME NEW s \in Tasks,
             \/ ExtendLog(s) \/ ExtendCount(s) \/ ReadSize(s) \/ ReadDone(s)
             \/ SendRequest(s) \/ ExtendRefused(s) \/ ReturnRefused(s)
             \/ \E e \in Event : Extend(s, e)
             \/ \E i \in Positions : CopyEntry(s, i)
      PROVE  Goal
  <2>1. buf' = buf /\ want' = want
    BY <1>4 DEF ExtendLog, ExtendCount, ReadSize, ReadDone, SendRequest, Extend,
                ExtendRefused, ReturnRefused, CopyEntry, requestVars
  <2>2. pc'[t] = pc[t] \/ pc'[t] \notin {"commit", "resend", "send"}
    BY <1>2, <1>4 DEF ExtendLog, ExtendCount, ReadSize, ReadDone, SendRequest,
                      Extend, ExtendRefused, ReturnRefused, CopyEntry, Goto, TypeOK
  <2> QED
    BY <1>3, <2>1, <2>2
<1>5. ASSUME NEW s \in Tasks, NEW u \in UserData, Request(s, u) PROVE Goal
  <2>1. CASE s = t
    <3>1. buf'[t] = Plain(u) /\ want'[t] = u
          /\ pc'[t] = IF Enabled THEN "commit" ELSE "send"
      BY <1>2, <1>5, <2>1 DEF Request, Goto, TypeOK
    <3> QED
      BY <3>1 DEF Goal, Verifies
  <2>2. CASE s # t
    BY <1>2, <1>3, <1>5, <2>2 DEF Request, Goto, TypeOK
  <2> QED
    BY <2>1, <2>2
<1>6. ASSUME NEW s \in Tasks, Commit(s) PROVE Goal
  <2>1. CASE s = t
    <3>1. pc'[t] = "send"
      BY <1>2, <1>6, <2>1 DEF Commit, Goto, TypeOK
    <3> QED
      BY <1>6, <2>1, <3>1, CommitVerifies DEF Goal
  <2>2. CASE s # t
    BY <1>2, <1>3, <1>6, <2>2 DEF Commit, Goto, TypeOK
  <2> QED
    BY <2>1, <2>2
<1>7. ASSUME NEW s \in Tasks, Restore(s) PROVE Goal
  <2>1. CASE s = t
    <3>1. buf'[t] = Plain(want[t]) /\ want'[t] = want[t]
          /\ pc'[t] \in {"idle", "resend"}
      BY <1>2, <1>7, <2>1 DEF Restore, TypeOK
    <3> QED
      BY <3>1 DEF Goal
  <2>2. CASE s # t
    BY <1>2, <1>3, <1>7, <2>2 DEF Restore, TypeOK
  <2> QED
    BY <2>1, <2>2
<1>8. ASSUME NEW s \in Tasks, Resend(s) PROVE Goal
  <2>1. CASE s = t
    <3>1. buf'[t] = buf[t] /\ want'[t] = want[t] /\ pc[t] = "resend"
          /\ pc'[t] = IF Enabled THEN "commit" ELSE "send"
      BY <1>2, <1>8, <2>1 DEF Resend, Goto, TypeOK, requestVars
    <3>2. buf[t] = Plain(want[t])
      BY <3>1 DEF ReportInv, RequestInv
    <3> QED
      BY <3>1, <3>2 DEF Goal, Verifies
  <2>2. CASE s # t
    BY <1>2, <1>3, <1>8, <2>2 DEF Resend, Goto, TypeOK, requestVars
  <2> QED
    BY <2>1, <2>2
<1>9. ASSUME UNCHANGED vars PROVE Goal
  BY <1>3, <1>9 DEF vars
<1>10. Goal
  BY <1>4, <1>5, <1>6, <1>7, <1>8, <1>9 DEF Next, Step
<1> QED
  BY <1>10 DEF Goal

\* Every report signed before or by a step verifies after it.
LEMMA ReportStep == ReportInv /\ [Next]_vars => ReportsVerify'
<1> SUFFICES ASSUME ReportInv, [Next]_vars, NEW r \in reports'
             PROVE  Verifies(r.data, r.for, count', trail')
  BY DEF ReportsVerify, Verifies
<1>1. RegisterInv /\ RegisterInv' /\ Growth
  BY RegisterStep, StepGrows DEF ReportInv, RegisterInv
<1>2. ASSUME r \in reports PROVE Verifies(r.data, r.for, count', trail')
  <2>1. Verifies(r.data, r.for, count, trail)
    BY <1>2 DEF ReportInv, ReportsVerify, Verifies
  <2>2. r.data \in Bufs
    BY <1>1, <1>2 DEF RegisterInv, TypeOK
  <2> QED
    BY <1>1, <2>1, <2>2, VerifiesStable DEF RegisterInv, TypeOK
<1>3. ASSUME NEW t \in Tasks, SendRequest(t)
      PROVE  Verifies(r.data, r.for, count', trail')
  <2>1. CASE r = [by |-> t, for |-> want[t], data |-> buf[t]]
    <3>1. Verifies(buf[t], want[t], count, trail)
      BY <1>3 DEF SendRequest, Goto, ReportInv, RequestInv
    <3>2. count' = count /\ trail' = trail
      BY <1>3 DEF SendRequest, registerVars
    <3> QED
      BY <2>1, <3>1, <3>2
  <2> QED
    BY <1>2, <1>3, <2>1 DEF SendRequest
<1>4. ASSUME reports' = reports PROVE Verifies(r.data, r.for, count', trail')
  BY <1>2, <1>4
<1>5. ASSUME NEW t \in Tasks,
             \/ ExtendLog(t) \/ ExtendCount(t) \/ ReadSize(t) \/ ReadDone(t)
             \/ Commit(t) \/ Restore(t) \/ Resend(t)
             \/ ExtendRefused(t) \/ ReturnRefused(t)
             \/ \E e \in Event : Extend(t, e)
             \/ \E i \in Positions : CopyEntry(t, i)
             \/ \E u \in UserData : Request(t, u)
      PROVE  reports' = reports
  BY <1>5 DEF ExtendLog, ExtendCount, ReadSize, ReadDone, Commit, Restore, Resend,
              Extend, ExtendRefused, ReturnRefused, CopyEntry, Request, requestVars
<1>6. CASE UNCHANGED vars
  BY <1>4, <1>6 DEF vars
<1> QED
  BY <1>3, <1>4, <1>5, <1>6 DEF Next, Step

\* Every report the firmware signs verifies (ReportsVerify): it commits to its
\* caller's bytes and to the replay of the log's first H entries, however it
\* is interleaved with extends and however often it is resent.
THEOREM ReportsAlwaysVerify == Spec => []ReportsVerify
<1>1. Init => ReportInv
  BY RegisterInit DEF Init, ReportInv, RequestInv, ReportsVerify
<1>2. ReportInv /\ [Next]_vars => ReportInv'
  BY RegisterStep, RequestStep, ReportStep DEF ReportInv
<1>3. ReportInv => ReportsVerify
  BY DEF ReportInv
<1> QED
  BY <1>1, <1>2, <1>3, PTL DEF Spec

-----------------------------------------------------------------------------
(* Log readers                                                             *)

ReadInv == TypeOK /\ LockInv /\ SizeInv /\ ReadsArePrefix

\* Every step keeps what readers have copied a part of the log.
LEMMA ReadStep == ReadInv /\ [Next]_vars => ReadInv'
<1> SUFFICES ASSUME ReadInv, [Next]_vars PROVE ReadInv'
  OBVIOUS
<1>1. TypeOK /\ TypeOK' /\ LockInv' /\ Growth
  BY TypeStep, LockStep, StepGrows DEF ReadInv
<1> USE RegistersAssumption
<1>2. ASSUME UNCHANGED readerVars PROVE (SizeInv /\ ReadsArePrefix)'
  <2>1. SizeInv'
    BY <1>1, <1>2 DEF ReadInv, SizeInv, Growth, readerVars, TypeOK
  <2>2. ASSUME NEW t \in Tasks, NEW i \in Positions, copied'[t][i] # NoEvent
        PROVE  i <= count' /\ copied'[t][i] = log'[i]
    <3>1. i <= count /\ copied[t][i] = log[i]
      BY <1>2, <2>2 DEF ReadInv, ReadsArePrefix, readerVars
    <3>2. i \in 1 .. count
      BY <1>1, <3>1 DEF Positions, TypeOK
    <3> QED
      BY <1>1, <1>2, <3>1, <3>2 DEF Growth, readerVars, TypeOK
  <2> QED
    BY <2>1, <2>2 DEF ReadsArePrefix
<1>3. ASSUME NEW t \in Tasks, ReadSize(t) PROVE (SizeInv /\ ReadsArePrefix)'
  <2>1. SizeInv'
    BY <1>1, <1>3 DEF ReadInv, SizeInv, ReadSize, registerVars, TypeOK
  <2>2. ReadsArePrefix'
    BY <1>1, <1>3 DEF ReadInv, ReadsArePrefix, ReadSize, EmptyLog, registerVars,
                      TypeOK
  <2> QED
    BY <2>1, <2>2
<1>4. ASSUME NEW t \in Tasks, NEW i \in Positions, CopyEntry(t, i)
      PROVE  (SizeInv /\ ReadsArePrefix)'
  <2>1. SizeInv'
    BY <1>4 DEF ReadInv, SizeInv, CopyEntry, registerVars
  <2>2. i <= count
    BY <1>1, <1>4 DEF ReadInv, SizeInv, CopyEntry, Positions, TypeOK
  <2>3. ReadsArePrefix'
    BY <1>1, <1>4, <2>2 DEF ReadInv, ReadsArePrefix, CopyEntry, registerVars, TypeOK
  <2> QED
    BY <2>1, <2>3
<1>5. ASSUME NEW t \in Tasks,
             \/ ExtendLog(t) \/ ExtendCount(t) \/ ReadDone(t)
             \/ Commit(t) \/ SendRequest(t) \/ Restore(t) \/ Resend(t)
             \/ ExtendRefused(t) \/ ReturnRefused(t)
             \/ \E e \in Event : Extend(t, e)
             \/ \E u \in UserData : Request(t, u)
      PROVE  UNCHANGED readerVars
  BY <1>5 DEF ExtendLog, ExtendCount, ReadDone, Commit, SendRequest, Restore,
              Resend, Extend, ExtendRefused, ReturnRefused, Request
<1>6. ASSUME UNCHANGED vars PROVE UNCHANGED readerVars
  BY <1>6 DEF vars, readerVars
<1> QED
  BY <1>1, <1>2, <1>3, <1>4, <1>5, <1>6 DEF Next, Step, ReadInv

\* A lockless log reader copies only finished entries, which never change
\* (ReadsArePrefix).
THEOREM ReadersSeePrefix == Spec => []ReadsArePrefix
<1>1. Init => ReadInv
  <2> SUFFICES ASSUME Init PROVE ReadInv
    OBVIOUS
  <2>1. LockInv /\ SizeInv
    BY DEF Init, LockInv, Extending, SizeInv
  <2>2. ReadsArePrefix
    BY DEF Init, ReadsArePrefix, EmptyLog
  <2> QED
    BY <2>1, <2>2, TypeInit DEF ReadInv
<1>2. ReadInv => ReadsArePrefix
  BY DEF ReadInv
<1> QED
  BY <1>1, <1>2, ReadStep, PTL DEF Spec

-----------------------------------------------------------------------------
(* The driver implements CommittedLog, for any number of tasks, registers   *)
(* and log entries and for every hash function: every step of it is one     *)
(* step of the promised log or none.                                        *)

\* A request under way is for bytes its caller put there.
WantInv ==
    \A t \in Tasks : pc[t] \in {"commit", "send", "restore", "resend"} =>
        want[t] \in UserData

RefineInv == ReportInv /\ WantInv

\* Every step keeps them.
LEMMA WantStep == TypeOK /\ WantInv /\ [Next]_vars => WantInv'
<1> SUFFICES ASSUME TypeOK, WantInv, [Next]_vars, NEW t \in Tasks,
                    pc'[t] \in {"commit", "send", "restore", "resend"}
             PROVE  want'[t] \in UserData
  BY DEF WantInv
<1> USE DEF TypeOK, WantInv, Goto
<1>1. ASSUME NEW s \in Tasks, NEW u \in UserData, Request(s, u) PROVE want'[t] \in UserData
  BY <1>1 DEF Request
<1>2. ASSUME NEW s \in Tasks,
             \/ ExtendLog(s) \/ ExtendCount(s) \/ ReadSize(s) \/ ReadDone(s)
             \/ ExtendRefused(s) \/ ReturnRefused(s)
             \/ \E e \in Event : Extend(s, e)
             \/ \E i \in Positions : CopyEntry(s, i)
      PROVE  want'[t] \in UserData
  BY <1>2 DEF ExtendLog, ExtendCount, ReadSize, ReadDone, Extend, ExtendRefused,
              ReturnRefused, CopyEntry, requestVars
<1>3. ASSUME NEW s \in Tasks, Commit(s) \/ SendRequest(s) \/ Restore(s) \/ Resend(s)
      PROVE  want'[t] \in UserData
  BY <1>3 DEF Commit, SendRequest, Restore, Resend, requestVars
<1>4. CASE UNCHANGED vars
  BY <1>4 DEF vars
<1> QED
  BY <1>1, <1>2, <1>3, <1>4 DEF Next, Step

\* The invariant the mapping needs.
LEMMA RefineInvariant == Spec => []RefineInv
<1>1. Init => RefineInv
  BY RegisterInit DEF Init, RefineInv, ReportInv, RequestInv, ReportsVerify, WantInv
<1>2. RefineInv /\ [Next]_vars => RefineInv'
  BY RegisterStep, RequestStep, ReportStep, WantStep DEF RefineInv, ReportInv, RegisterInv
<1> QED
  BY <1>1, <1>2, PTL DEF Spec

-----------------------------------------------------------------------------
(* The mapped state                                                        *)

Entries == [i \in 1 .. count |-> log[i]]
Held == [t \in Tasks |-> HeldCommitment(t)]

\* What the registers, the log and the count say of the promised log.
LogKept ==
    /\ count' = count /\ Entries' = Entries /\ trail'[count'] = trail[count]

\* Steps that do not publish an event leave the promised log alone.
LEMMA LogFrame ==
    ASSUME TypeOK, Growth, count' = count
    PROVE  LogKept
<1>1. \A i \in 1 .. count : log'[i] = log[i]
  BY DEF Growth
<1>2. trail'[count] = trail[count]
  BY RegistersAssumption DEF Growth, TypeOK
<1> QED
  BY <1>1, <1>2 DEF LogKept, Entries

\* Held commitments follow the request buffers.
LEMMA HeldFrame ==
    ASSUME buf' = buf
    PROVE  Held' = Held
  BY DEF Held, HeldCommitment

\* Filling one request buffer changes what one task holds.
LEMMA HeldChange ==
    ASSUME TypeOK, NEW t \in Tasks, NEW b, buf' = [buf EXCEPT ![t] = b]
    PROVE  Held' = [Held EXCEPT ![t] =
             IF b.kind = "commit" THEN [user |-> b.user, count |-> b.count, regs |-> b.regs]
                                  ELSE NoEvent]
  BY DEF Held, HeldCommitment, TypeOK

-----------------------------------------------------------------------------
(* Initial states and steps                                                *)

\* The zeroed driver is the empty log.
LEMMA RefineInit == Init => Promise!CInit
<1> SUFFICES ASSUME Init PROVE Promise!CInit
  OBVIOUS
<1>1. 1 .. count = {}
  BY DEF Init
<1>2. [i \in 1 .. count |-> log[i]] = [i \in {} |-> NoEvent]
  BY <1>1
<1>3. trail[count] = [n \in Regs |-> Zero]
  BY RegistersAssumption DEF Init
<1>4. [t \in Tasks |-> HeldCommitment(t)] = [t \in Tasks |-> NoEvent]
  BY DEF Init, HeldCommitment, Plain
<1>5. SignedReports = {}
  BY DEF Init, SignedReports
<1> QED
  BY <1>2, <1>3, <1>4, <1>5 DEF Init, Promise!CInit

\* The last store of an extend appends the event, and with it its effect on the
\* registers.
LEMMA CountRefines ==
    ASSUME RefineInv, NEW t \in Tasks, ExtendCount(t)
    PROVE  \E e \in Event : Promise!AppendEvent(e)
<1> USE RegistersAssumption
<1>1. RegisterInv
  BY DEF RefineInv, ReportInv
<1>2. /\ count \in 0 .. LogMax /\ count < LogMax /\ count' = count + 1
      /\ UNCHANGED <<log, trail, buf, reports>>
  BY <1>1 DEF RegisterInv, TypeOK, ExtendCount, Goto, LockInv, Extending, requestVars
<1>3. PICK e \in Event : /\ trail[count + 1] = Extended(trail[count], e)
                         /\ log[count + 1] = e
  BY <1>1 DEF RegisterInv, AheadInv, Extending, ExtendCount, Goto
<1>4. Entries' = [i \in 1 .. count + 1 |-> IF i = count + 1 THEN e ELSE Entries[i]]
  BY <1>2, <1>3 DEF Entries
<1>5. Held' = Held /\ SignedReports' = SignedReports
  BY <1>2, HeldFrame DEF SignedReports
<1>6. Promise!AppendEvent(e)
  BY <1>2, <1>3, <1>4, <1>5 DEF Promise!AppendEvent, Entries, Held
<1> QED
  BY <1>3, <1>6

\* A commitment is taken under the lock, so of one instant of the log.
LEMMA CommitRefines ==
    ASSUME RefineInv, NEW t \in Tasks, Commit(t)
    PROVE  Promise!CommitTo(t, want[t]) /\ want[t] \in UserData
<1>1. TypeOK /\ RequestInv /\ WantInv /\ RegistersAreReplay
  BY DEF RefineInv, ReportInv, RegisterInv
<1>2. buf[t] = Plain(want[t]) /\ want[t] \in UserData /\ regs = trail[count]
  BY <1>1 DEF Commit, Goto, RequestInv, WantInv, RegistersAreReplay
<1>3. Held[t] = NoEvent
  BY <1>2 DEF Held, HeldCommitment, Plain
<1>4. buf' = [buf EXCEPT ![t] = Commitment(buf[t])]
  BY DEF Commit
<1>5. Commitment(buf[t]) = [kind |-> "commit", count |-> count, regs |-> trail[count],
                            user |-> want[t]]
  BY <1>2 DEF Commitment, Plain
<1>6. Held' = [Held EXCEPT ![t] = [user |-> want[t], count |-> count, regs |-> trail[count]]]
  BY <1>1, <1>4, <1>5, HeldChange
<1>7. LogKept /\ SignedReports' = SignedReports
  BY DEF Commit, registerVars, LogKept, Entries, SignedReports
<1> QED
  BY <1>2, <1>3, <1>6, <1>7 DEF Promise!CommitTo, Promise!Snapshot, Held, LogKept, Entries

\* What the firmware signs is the commitment the task holds; with the registers
\* off, or a refusal, nothing is issued.
LEMMA SendRefines ==
    ASSUME RefineInv, NEW t \in Tasks, SendRequest(t)
    PROVE  Promise!Issue(t) \/ UNCHANGED Promise!cvars
<1>1. TypeOK /\ RequestInv
  BY DEF RefineInv, ReportInv, RegisterInv
<1>2. LogKept /\ Held' = Held
  BY HeldFrame DEF SendRequest, registerVars, LogKept, Entries
<1>3. Verifies(buf[t], want[t], count, trail)
  BY <1>1 DEF SendRequest, Goto, RequestInv
<1> DEFINE new == [by |-> t, for |-> want[t], data |-> buf[t]]
<1>4. CASE reports' = reports
  <2>1. SignedReports' = SignedReports
    BY <1>4 DEF SignedReports
  <2> QED
    BY <1>2, <2>1 DEF Promise!cvars, LogKept, Entries, Held
<1>5. CASE reports' = reports \cup {new} /\ ~Enabled
  <2>1. buf[t].kind = "plain"
    BY <1>3, <1>5 DEF Verifies, Plain
  <2>2. SignedReports' = SignedReports
    BY <1>5, <2>1 DEF SignedReports
  <2> QED
    BY <1>2, <2>2 DEF Promise!cvars, LogKept, Entries, Held
<1>6. CASE reports' = reports \cup {new} /\ Enabled
  <2>1. buf[t].kind = "commit" /\ buf[t].user = want[t]
    BY <1>3, <1>6 DEF Verifies
  <2>2. buf[t].user \in UserData \cup {NoEvent} /\ buf[t].count \in 0 .. LogMax
        /\ buf[t].regs \in RegFile
    BY <1>1, <2>1 DEF TypeOK, Bufs, PlainBufs, CommitBufs
  <2>3. Held[t] = [user |-> want[t], count |-> buf[t].count, regs |-> buf[t].regs]
    BY <2>1 DEF Held, HeldCommitment
  <2>4. Held[t] # NoEvent
    BY <2>1, <2>2, <2>3, NoCommitmentAssumption
  <2>5. SignedReports' = SignedReports \cup
          {[by |-> t, user |-> want[t], count |-> buf[t].count, regs |-> buf[t].regs]}
    <3> DEFINE Out(r) == [by |-> r.by, user |-> r.for, count |-> r.data.count,
                          regs |-> r.data.regs]
    <3>1. \A q : q \in SignedReports <=> \E r \in reports : r.data.kind = "commit" /\ q = Out(r)
      BY DEF SignedReports
    <3>2. \A q : q \in SignedReports' <=> \E r \in reports' : r.data.kind = "commit" /\ q = Out(r)
      BY DEF SignedReports
    <3>3. Out(new) = [by |-> t, user |-> want[t], count |-> buf[t].count, regs |-> buf[t].regs]
          /\ new.data.kind = "commit"
      BY <2>1
    <3> HIDE DEF Out, new
    <3>4. \A q : q \in SignedReports' <=> q \in SignedReports \/ q = Out(new)
      BY <1>6, <3>1, <3>2, <3>3
    <3> QED
      BY <3>3, <3>4
  <2> QED
    BY <1>2, <2>3, <2>4, <2>5 DEF Promise!Issue, LogKept, Entries, Held
<1> QED
  BY <1>4, <1>5, <1>6, RegistersAssumption DEF SendRequest

\* Bytes put into, or back into, a request buffer replace the commitment there.
LEMMA PlainRefines ==
    ASSUME RefineInv, NEW t \in Tasks, Restore(t) \/ \E u \in UserData : Request(t, u)
    PROVE  Promise!Forget(t)
<1>1. TypeOK
  BY DEF RefineInv, ReportInv, RegisterInv
<1>2. PICK u : buf' = [buf EXCEPT ![t] = Plain(u)]
  BY DEF Restore, Request
<1>3. Held' = [Held EXCEPT ![t] = NoEvent]
  <2>1. Plain(u).kind # "commit"
    BY DEF Plain
  <2> QED
    BY <1>1, <1>2, <2>1, HeldChange
<1>4. LogKept /\ SignedReports' = SignedReports
  BY DEF Restore, Request, registerVars, LogKept, Entries, SignedReports
<1> QED
  BY <1>3, <1>4 DEF Promise!Forget, Held, LogKept, Entries

\* The other steps are invisible: the first two stores of an extend, refused
\* extends, log readers, resends.
LEMMA OthersRefine ==
    ASSUME RefineInv, Next, NEW t \in Tasks,
           \/ ExtendLog(t) \/ ReadSize(t) \/ ReadDone(t) \/ Resend(t)
           \/ ExtendRefused(t) \/ ReturnRefused(t)
           \/ \E e \in Event : Extend(t, e)
           \/ \E i \in Positions : CopyEntry(t, i)
    PROVE  UNCHANGED Promise!cvars
<1>1. count' = count /\ buf' = buf /\ reports' = reports
  BY DEF ExtendLog, ReadSize, ReadDone, Resend, Extend, ExtendRefused, ReturnRefused,
         CopyEntry, registerVars, requestVars
<1>2. TypeOK /\ Growth
  BY StepGrows DEF RefineInv, ReportInv, RegisterInv
<1>3. LogKept /\ Held' = Held /\ SignedReports' = SignedReports
  BY <1>1, <1>2, LogFrame, HeldFrame DEF SignedReports
<1> QED
  BY <1>3 DEF Promise!cvars, LogKept, Entries, Held

\* Every step of the driver is a step of the promised log, or none.
LEMMA RefineStep == RefineInv /\ [Next]_vars => [Promise!CNext]_(Promise!cvars)
<1> SUFFICES ASSUME RefineInv, [Next]_vars PROVE [Promise!CNext]_(Promise!cvars)
  OBVIOUS
<1>1. ASSUME NEW t \in Tasks, ExtendCount(t) PROVE Promise!CNext
  BY <1>1, CountRefines DEF Promise!CNext
<1>2. ASSUME NEW t \in Tasks, Commit(t) PROVE Promise!CNext
  BY <1>2, CommitRefines DEF Promise!CNext
<1>3. ASSUME NEW t \in Tasks, SendRequest(t) PROVE [Promise!CNext]_(Promise!cvars)
  BY <1>3, SendRefines DEF Promise!CNext
<1>4. ASSUME NEW t \in Tasks, Restore(t) \/ \E u \in UserData : Request(t, u)
      PROVE  Promise!CNext
  BY <1>4, PlainRefines DEF Promise!CNext
<1>5. ASSUME Next, NEW t \in Tasks,
             \/ ExtendLog(t) \/ ReadSize(t) \/ ReadDone(t) \/ Resend(t)
             \/ ExtendRefused(t) \/ ReturnRefused(t)
             \/ \E e \in Event : Extend(t, e)
             \/ \E i \in Positions : CopyEntry(t, i)
      PROVE  UNCHANGED Promise!cvars
  BY <1>5, OthersRefine
<1>6. ASSUME UNCHANGED vars PROVE UNCHANGED Promise!cvars
  BY <1>6 DEF vars, Promise!cvars, HeldCommitment, SignedReports
<1> QED
  BY <1>1, <1>2, <1>3, <1>4, <1>5, <1>6 DEF Next, Step

\* The driver implements the promised log: extends and commitments are atomic for
\* every observer of reports, though neither is one step of the code
\* (snp_mr_extend, snp_mr_commit, snp_send_guest_request).
THEOREM DriverImplementsLog == Spec => ImplementsCommittedLog
<1>1. Spec => []RefineInv
  BY RefineInvariant
<1> QED
  BY <1>1, RefineInit, RefineStep, PTL DEF Spec, ImplementsCommittedLog, Promise!CSpec
=============================================================================
