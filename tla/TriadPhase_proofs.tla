------------------------- MODULE TriadPhase_proofs -------------------------
(***************************************************************************)
(* Proofs about TriadPhase, for every number of workers and every bound on *)
(* the signals.                                                            *)
(***************************************************************************)
EXTENDS TriadPhase, TLAPS

\* Locations of run_phase from which every process is in the list.
LaunchedPcs == {"accept", "read", "plan", "start", "wait", "check",
                "commit", "committing", "returning"}
\* Locations at which every worker was checked ready.
ReadyPcs == {"plan", "start", "wait", "check", "commit", "committing", "returning"}
\* Locations at which the results have been accepted.
AcceptedPcs == {"commit", "committing", "returning"}

-----------------------------------------------------------------------------
(* The inductive invariant *)

\* Where the loops of run_phase are.
LoopInv ==
  /\ cpc \in {"prepare", "open", "spawn", "append", "accept", "read", "plan", "start"}
       => cur = 1
  /\ cpc \in {"prepare", "open"} => processes = 0
  /\ cpc \in {"spawn", "append"} => processes < N
  /\ cpc \in LaunchedPcs => processes = N
  /\ cpc = "read" => reading \in Workers
  /\ cpc = "wait" => cur <= N
  /\ cpc = "reapkill" => cur <= processes
  /\ cpc \in TryPcs \union {"prepare"} => outcome = "none"

\* Which processes exist: the listed ones, and at most one that is not listed yet.
ListInv ==
  \A w \in Workers : w > processes =>
    \/ wpc[w] = "absent"
    \/ w = processes + 1 /\ (cpc \in {"append", "dead"} \/ outcome = "raise")

\* Which processes have been waited for.
WaitInv ==
  /\ cpc \in {"wait", "reap", "reapkill"} =>
       \A w \in Workers : w < cur /\ w <= processes => Exited(w)
  /\ cpc \in {"check", "record", "recording"} \union AcceptedPcs =>
       \A w \in Workers : w <= processes => Exited(w)

\* The barrier: a worker gets past START only when all have been seen.
BarrierInv ==
  /\ seen # {} => processes = N
  /\ started # {} => seen = Workers
  /\ cpc \in ReadyPcs => seen = Workers
  /\ \A w \in Workers :
       /\ w \in seen => ready[w] # "none"
       /\ ready[w] # "none" => wpc[w] \notin {"absent", "setup", "connected"}
       /\ wpc[w] \in MeasuringPcs => w \in started
       /\ code[w] = "zero" => w \in started /\ Exited(w) /\ result[w] = "ok"

\* The verdict: what run_phase and status.json say of the workers.
VerdictInv ==
  /\ cpc \in AcceptedPcs \/ outcome = "true" \/ status = "ok" => Accepts
  /\ cpc = "returning" \/ outcome = "true" => status = "ok"
  /\ outcome = "true" => cpc \in {"finally", "returned", "dead"}
  /\ cpc \in {"finally", "returned"} /\ outcome = "false" => status = "failed"
  /\ status = "failed" => cpc \in {"finally", "returned", "dead"}
  /\ status = "failed" => \A w \in Workers : w <= processes => Exited(w)

IInv == TypeOK /\ LoopInv /\ ListInv /\ WaitInv /\ BarrierInv /\ VerdictInv

-----------------------------------------------------------------------------
(* Initially *)

LEMMA InitIInv == Init => IInv
BY NAssumption, MaxSignalsAssumption
DEF Init, IInv, TypeOK, LoopInv, ListInv, WaitInv, BarrierInv, VerdictInv, Workers,
    LaunchedPcs, ReadyPcs, AcceptedPcs, TryPcs, ServingPcs, HandlerPcs, MeasuringPcs

-----------------------------------------------------------------------------
(* Every step preserves each part of the invariant: one lemma per part, one   *)
(* step per action.                                                           *)

\* The types of the variables; the loop indices stay in range because LoopInv says where the loops are.
LEMMA TypeStep == TypeOK /\ LoopInv /\ [Next]_vars => TypeOK'
<1> SUFFICES ASSUME TypeOK /\ LoopInv, [Next]_vars
             PROVE  TypeOK'
  OBVIOUS
<1>. USE NAssumption, MaxSignalsAssumption
     DEF TypeOK, LoopInv, Workers, MeasuringPcs, LaunchedPcs, TryPcs, ServingPcs, HandlerPcs
<1>1. ASSUME CPrepare PROVE TypeOK'
  BY <1>1 DEF CPrepare, workerVars
<1>2. ASSUME COpen PROVE TypeOK'
  BY <1>2 DEF COpen, workerVars
<1>3. ASSUME CPopen PROVE TypeOK'
  BY <1>3 DEF CPopen, workerVars
<1>4. ASSUME CAppend PROVE TypeOK'
  BY <1>4 DEF CAppend, workerVars
<1>5. ASSUME CReady PROVE TypeOK'
  BY <1>5 DEF CReady, workerVars
<1>6. ASSUME CPlan PROVE TypeOK'
  BY <1>6 DEF CPlan, workerVars
<1>7. ASSUME NEW w \in Workers, CAccept(w) PROVE TypeOK'
  BY <1>7 DEF CAccept, workerVars
<1>8. ASSUME NEW w \in Workers, CStart(w) PROVE TypeOK'
  BY <1>8 DEF CStart, workerVars
<1>9. ASSUME CWait PROVE TypeOK'
  BY <1>9 DEF CWait, workerVars
<1>10. ASSUME CCheck PROVE TypeOK'
  BY <1>10 DEF CCheck, workerVars
<1>11. ASSUME CCommit PROVE TypeOK'
  BY <1>11 DEF CCommit, workerVars
<1>12. ASSUME CReturn PROVE TypeOK'
  BY <1>12 DEF CReturn, workerVars
<1>13. ASSUME CReject PROVE TypeOK'
  BY <1>13 DEF CReject, Handle, workerVars
<1>14. ASSUME CTimeout PROVE TypeOK'
  BY <1>14 DEF CTimeout, Handle, Blocked, workerVars
<1>15. ASSUME CTerm PROVE TypeOK'
  BY <1>15 DEF CTerm, workerVars
<1>16. ASSUME CReap PROVE TypeOK'
  BY <1>16 DEF CReap, workerVars
<1>17. ASSUME CReapKill PROVE TypeOK'
  BY <1>17 DEF CReapKill, workerVars
<1>18. ASSUME CRecord PROVE TypeOK'
  BY <1>18 DEF CRecord, workerVars
<1>19. ASSUME CFinally PROVE TypeOK'
  BY <1>19 DEF CFinally, workerVars
<1>20. ASSUME COSError PROVE TypeOK'
  BY <1>20 DEF COSError, Handle, workerVars
<1>21. ASSUME CRecordOSError PROVE TypeOK'
  BY <1>21 DEF CRecordOSError, workerVars
<1>22. ASSUME CSignal PROVE TypeOK'
  <2>1. signals' \in 0..MaxSignals
    BY <1>22 DEF CSignal
  <2>2. CASE cpc \in TryPcs /\ Handle("raise")
    BY <1>22, <2>1, <2>2 DEF CSignal, Handle, workerVars
  <2>3. CASE cpc \notin TryPcs
    BY <1>22, <2>1, <2>3 DEF CSignal, workerVars
  <2>. QED  BY <1>22, <2>2, <2>3 DEF CSignal
<1>23. ASSUME CGone PROVE TypeOK'
  BY <1>23 DEF CGone, workerVars
<1>24. ASSUME NEW w \in Workers, WConnect(w) PROVE TypeOK'
  BY <1>24 DEF WConnect, coordVars
<1>25. ASSUME NEW w \in Workers, WReady(w) PROVE TypeOK'
  BY <1>25 DEF WReady, coordVars
<1>26. ASSUME NEW w \in Workers, WStart(w) PROVE TypeOK'
  BY <1>26 DEF WStart, coordVars
<1>27. ASSUME NEW w \in Workers, WMeasure(w) PROVE TypeOK'
  BY <1>27 DEF WMeasure, coordVars
<1>28. ASSUME NEW w \in Workers, WResult(w) PROVE TypeOK'
  <2>1. CASE wpc[w] = "validating"
    BY <1>28, <2>1 DEF WResult, coordVars
  <2>2. CASE wpc[w] = "writing"
    <3>1. PICK r \in {"ok", "invalid"} : result' = [result EXCEPT ![w] = r]
      BY <1>28, <2>2 DEF WResult
    <3>. QED  BY <1>28, <2>2, <3>1 DEF WResult, coordVars
  <2>. QED  BY <1>28, <2>1, <2>2 DEF WResult
<1>29. ASSUME NEW w \in Workers, WExit(w) PROVE TypeOK'
  BY <1>29 DEF WExit, coordVars
<1>30. ASSUME NEW w \in Workers, WFail(w) PROVE TypeOK'
  <2>1. PICK r \in {"failed", "torn", result[w]} : result' = [result EXCEPT ![w] = r]
    BY <1>30 DEF WFail, Fail
  <2>2. result' \in [Workers -> {"none", "torn", "ok", "invalid", "failed"}]
    BY <2>1
  <2>. QED  BY <1>30, <2>2 DEF WFail, Fail, coordVars
<1>31. ASSUME NEW w \in Workers, WThrow(w) PROVE TypeOK'
  <2>1. PICK r \in {"failed", "torn", result[w]} : result' = [result EXCEPT ![w] = r]
    BY <1>31 DEF WThrow, Fail
  <2>2. result' \in [Workers -> {"none", "torn", "ok", "invalid", "failed"}]
    BY <2>1
  <2>. QED  BY <1>31, <2>2 DEF WThrow, Fail, coordVars
<1>32. ASSUME NEW w \in Workers, WCrash(w) PROVE TypeOK'
  BY <1>32 DEF WCrash, Die, coordVars, Live
<1>33. ASSUME NEW w \in Workers, WKilled(w) PROVE TypeOK'
  BY <1>33 DEF WKilled, Die, coordVars, Live
<1>34. ASSUME Tick PROVE TypeOK'
  BY <1>34 DEF Tick, coordVars, workerVars
<1>35. CASE UNCHANGED vars
  BY <1>35 DEF vars
<1>. QED
  BY <1>1, <1>2, <1>3, <1>4, <1>5, <1>6, <1>7, <1>8, <1>9,
     <1>10, <1>11, <1>12, <1>13, <1>14, <1>15, <1>16, <1>17, <1>18,
     <1>19, <1>20, <1>21, <1>22, <1>23, <1>24, <1>25, <1>26, <1>27,
     <1>28, <1>29, <1>30, <1>31, <1>32, <1>33, <1>34, <1>35
  DEF Next, CStep, WStep

\* Where the loops of run_phase are.
LEMMA LoopStep == LoopInv /\ TypeOK /\ [Next]_vars => LoopInv'
<1> SUFFICES ASSUME LoopInv /\ TypeOK, [Next]_vars
             PROVE  LoopInv'
  OBVIOUS
<1>. USE NAssumption, MaxSignalsAssumption
     DEF TypeOK, LoopInv, Workers, LaunchedPcs, TryPcs, ServingPcs, HandlerPcs
<1>1. ASSUME CPrepare PROVE LoopInv'
  BY <1>1 DEF CPrepare, workerVars
<1>2. ASSUME COpen PROVE LoopInv'
  BY <1>2 DEF COpen, workerVars
<1>3. ASSUME CPopen PROVE LoopInv'
  BY <1>3 DEF CPopen, workerVars
<1>4. ASSUME CAppend PROVE LoopInv'
  BY <1>4 DEF CAppend, workerVars
<1>5. ASSUME CReady PROVE LoopInv'
  BY <1>5 DEF CReady, workerVars
<1>6. ASSUME CPlan PROVE LoopInv'
  BY <1>6 DEF CPlan, workerVars
<1>7. ASSUME NEW w \in Workers, CAccept(w) PROVE LoopInv'
  BY <1>7 DEF CAccept, workerVars
<1>8. ASSUME NEW w \in Workers, CStart(w) PROVE LoopInv'
  BY <1>8 DEF CStart, workerVars
<1>9. ASSUME CWait PROVE LoopInv'
  BY <1>9 DEF CWait, workerVars
<1>10. ASSUME CCheck PROVE LoopInv'
  BY <1>10 DEF CCheck, workerVars
<1>11. ASSUME CCommit PROVE LoopInv'
  BY <1>11 DEF CCommit, workerVars
<1>12. ASSUME CReturn PROVE LoopInv'
  BY <1>12 DEF CReturn, workerVars
<1>13. ASSUME CReject PROVE LoopInv'
  BY <1>13 DEF CReject, Handle, workerVars
<1>14. ASSUME CTimeout PROVE LoopInv'
  BY <1>14 DEF CTimeout, Handle, Blocked, workerVars
<1>15. ASSUME CTerm PROVE LoopInv'
  BY <1>15 DEF CTerm, workerVars
<1>16. ASSUME CReap PROVE LoopInv'
  BY <1>16 DEF CReap, workerVars
<1>17. ASSUME CReapKill PROVE LoopInv'
  BY <1>17 DEF CReapKill, workerVars
<1>18. ASSUME CRecord PROVE LoopInv'
  BY <1>18 DEF CRecord, workerVars
<1>19. ASSUME CFinally PROVE LoopInv'
  BY <1>19 DEF CFinally, workerVars
<1>20. ASSUME COSError PROVE LoopInv'
  BY <1>20 DEF COSError, Handle, workerVars
<1>21. ASSUME CRecordOSError PROVE LoopInv'
  BY <1>21 DEF CRecordOSError, workerVars
<1>22. ASSUME CSignal PROVE LoopInv'
  BY <1>22 DEF CSignal, Handle, workerVars
<1>23. ASSUME CGone PROVE LoopInv'
  BY <1>23 DEF CGone, workerVars
<1>24. ASSUME NEW w \in Workers, WConnect(w) PROVE LoopInv'
  BY <1>24 DEF WConnect, coordVars
<1>25. ASSUME NEW w \in Workers, WReady(w) PROVE LoopInv'
  BY <1>25 DEF WReady, coordVars
<1>26. ASSUME NEW w \in Workers, WStart(w) PROVE LoopInv'
  BY <1>26 DEF WStart, coordVars
<1>27. ASSUME NEW w \in Workers, WMeasure(w) PROVE LoopInv'
  BY <1>27 DEF WMeasure, coordVars
<1>28. ASSUME NEW w \in Workers, WResult(w) PROVE LoopInv'
  BY <1>28 DEF WResult, coordVars
<1>29. ASSUME NEW w \in Workers, WExit(w) PROVE LoopInv'
  BY <1>29 DEF WExit, coordVars
<1>30. ASSUME NEW w \in Workers, WFail(w) PROVE LoopInv'
  BY <1>30 DEF WFail, Fail, Fails, coordVars
<1>31. ASSUME NEW w \in Workers, WThrow(w) PROVE LoopInv'
  BY <1>31 DEF WThrow, Fail, coordVars
<1>32. ASSUME NEW w \in Workers, WCrash(w) PROVE LoopInv'
  BY <1>32 DEF WCrash, Die, coordVars, Live
<1>33. ASSUME NEW w \in Workers, WKilled(w) PROVE LoopInv'
  BY <1>33 DEF WKilled, Die, coordVars, Live
<1>34. ASSUME Tick PROVE LoopInv'
  BY <1>34 DEF Tick, coordVars, workerVars
<1>35. CASE UNCHANGED vars
  BY <1>35 DEF vars
<1>. QED
  BY <1>1, <1>2, <1>3, <1>4, <1>5, <1>6, <1>7, <1>8, <1>9,
     <1>10, <1>11, <1>12, <1>13, <1>14, <1>15, <1>16, <1>17, <1>18,
     <1>19, <1>20, <1>21, <1>22, <1>23, <1>24, <1>25, <1>26, <1>27,
     <1>28, <1>29, <1>30, <1>31, <1>32, <1>33, <1>34, <1>35
  DEF Next, CStep, WStep

\* Which processes exist and which are listed.
LEMMA ListStep == ListInv /\ TypeOK /\ LoopInv /\ [Next]_vars => ListInv'
<1> SUFFICES ASSUME ListInv /\ TypeOK /\ LoopInv, [Next]_vars
             PROVE  ListInv'
  OBVIOUS
<1>. USE NAssumption, MaxSignalsAssumption
     DEF TypeOK, LoopInv, ListInv, Workers, MeasuringPcs, LaunchedPcs, TryPcs, ServingPcs,
         HandlerPcs
<1>1. ASSUME CPrepare PROVE ListInv'
  BY <1>1 DEF CPrepare, workerVars
<1>2. ASSUME COpen PROVE ListInv'
  BY <1>2 DEF COpen, workerVars
<1>3. ASSUME CPopen PROVE ListInv'
  BY <1>3 DEF CPopen, workerVars
<1>4. ASSUME CAppend PROVE ListInv'
  BY <1>4 DEF CAppend, workerVars
<1>5. ASSUME CReady PROVE ListInv'
  BY <1>5 DEF CReady, workerVars
<1>6. ASSUME CPlan PROVE ListInv'
  BY <1>6 DEF CPlan, workerVars
<1>7. ASSUME NEW w \in Workers, CAccept(w) PROVE ListInv'
  BY <1>7 DEF CAccept, workerVars
<1>8. ASSUME NEW w \in Workers, CStart(w) PROVE ListInv'
  BY <1>8 DEF CStart, workerVars
<1>9. ASSUME CWait PROVE ListInv'
  BY <1>9 DEF CWait, workerVars
<1>10. ASSUME CCheck PROVE ListInv'
  BY <1>10 DEF CCheck, workerVars
<1>11. ASSUME CCommit PROVE ListInv'
  BY <1>11 DEF CCommit, workerVars
<1>12. ASSUME CReturn PROVE ListInv'
  BY <1>12 DEF CReturn, workerVars
<1>13. ASSUME CReject PROVE ListInv'
  BY <1>13 DEF CReject, Handle, workerVars
<1>14. ASSUME CTimeout PROVE ListInv'
  BY <1>14 DEF CTimeout, Handle, Blocked, workerVars
<1>15. ASSUME CTerm PROVE ListInv'
  BY <1>15 DEF CTerm, workerVars
<1>16. ASSUME CReap PROVE ListInv'
  BY <1>16 DEF CReap, workerVars
<1>17. ASSUME CReapKill PROVE ListInv'
  BY <1>17 DEF CReapKill, workerVars
<1>18. ASSUME CRecord PROVE ListInv'
  BY <1>18 DEF CRecord, workerVars
<1>19. ASSUME CFinally PROVE ListInv'
  BY <1>19 DEF CFinally, workerVars
<1>20. ASSUME COSError PROVE ListInv'
  BY <1>20 DEF COSError, Handle, workerVars
<1>21. ASSUME CRecordOSError PROVE ListInv'
  BY <1>21 DEF CRecordOSError, workerVars
<1>22. ASSUME CSignal PROVE ListInv'
  BY <1>22 DEF CSignal, Handle, workerVars
<1>23. ASSUME CGone PROVE ListInv'
  BY <1>23 DEF CGone, workerVars
<1>24. ASSUME NEW w \in Workers, WConnect(w) PROVE ListInv'
  BY <1>24 DEF WConnect, coordVars
<1>25. ASSUME NEW w \in Workers, WReady(w) PROVE ListInv'
  BY <1>25 DEF WReady, coordVars
<1>26. ASSUME NEW w \in Workers, WStart(w) PROVE ListInv'
  BY <1>26 DEF WStart, coordVars
<1>27. ASSUME NEW w \in Workers, WMeasure(w) PROVE ListInv'
  BY <1>27 DEF WMeasure, coordVars
<1>28. ASSUME NEW w \in Workers, WResult(w) PROVE ListInv'
  BY <1>28 DEF WResult, coordVars
<1>29. ASSUME NEW w \in Workers, WExit(w) PROVE ListInv'
  BY <1>29 DEF WExit, coordVars
<1>30. ASSUME NEW w \in Workers, WFail(w) PROVE ListInv'
  BY <1>30 DEF WFail, Fail, Fails, coordVars
<1>31. ASSUME NEW w \in Workers, WThrow(w) PROVE ListInv'
  BY <1>31 DEF WThrow, Fail, coordVars
<1>32. ASSUME NEW w \in Workers, WCrash(w) PROVE ListInv'
  BY <1>32 DEF WCrash, Die, coordVars, Live
<1>33. ASSUME NEW w \in Workers, WKilled(w) PROVE ListInv'
  BY <1>33 DEF WKilled, Die, coordVars, Live
<1>34. ASSUME Tick PROVE ListInv'
  BY <1>34 DEF Tick, coordVars, workerVars
<1>35. CASE UNCHANGED vars
  BY <1>35 DEF vars
<1>. QED
  BY <1>1, <1>2, <1>3, <1>4, <1>5, <1>6, <1>7, <1>8, <1>9,
     <1>10, <1>11, <1>12, <1>13, <1>14, <1>15, <1>16, <1>17, <1>18,
     <1>19, <1>20, <1>21, <1>22, <1>23, <1>24, <1>25, <1>26, <1>27,
     <1>28, <1>29, <1>30, <1>31, <1>32, <1>33, <1>34, <1>35
  DEF Next, CStep, WStep

\* A process that was waited for stays ended.
LEMMA WaitStep == WaitInv /\ TypeOK /\ LoopInv /\ [Next]_vars => WaitInv'
<1> SUFFICES ASSUME WaitInv /\ TypeOK /\ LoopInv, [Next]_vars
             PROVE  WaitInv'
  OBVIOUS
<1>. USE NAssumption, MaxSignalsAssumption
     DEF TypeOK, LoopInv, WaitInv, Exited, Workers, AcceptedPcs, LaunchedPcs, TryPcs,
         ServingPcs, HandlerPcs
<1>1. ASSUME CPrepare PROVE WaitInv'
  BY <1>1 DEF CPrepare, workerVars
<1>2. ASSUME COpen PROVE WaitInv'
  BY <1>2 DEF COpen, workerVars
<1>3. ASSUME CPopen PROVE WaitInv'
  BY <1>3 DEF CPopen, workerVars
<1>4. ASSUME CAppend PROVE WaitInv'
  BY <1>4 DEF CAppend, workerVars
<1>5. ASSUME CReady PROVE WaitInv'
  BY <1>5 DEF CReady, workerVars
<1>6. ASSUME CPlan PROVE WaitInv'
  BY <1>6 DEF CPlan, workerVars
<1>7. ASSUME NEW w \in Workers, CAccept(w) PROVE WaitInv'
  BY <1>7 DEF CAccept, workerVars
<1>8. ASSUME NEW w \in Workers, CStart(w) PROVE WaitInv'
  BY <1>8 DEF CStart, workerVars
<1>9. ASSUME CWait PROVE WaitInv'
  BY <1>9 DEF CWait, workerVars
<1>10. ASSUME CCheck PROVE WaitInv'
  BY <1>10 DEF CCheck, workerVars
<1>11. ASSUME CCommit PROVE WaitInv'
  BY <1>11 DEF CCommit, workerVars
<1>12. ASSUME CReturn PROVE WaitInv'
  BY <1>12 DEF CReturn, workerVars
<1>13. ASSUME CReject PROVE WaitInv'
  BY <1>13 DEF CReject, Handle, workerVars
<1>14. ASSUME CTimeout PROVE WaitInv'
  BY <1>14 DEF CTimeout, Handle, Blocked, workerVars
<1>15. ASSUME CTerm PROVE WaitInv'
  BY <1>15 DEF CTerm, workerVars
<1>16. ASSUME CReap PROVE WaitInv'
  BY <1>16 DEF CReap, workerVars
<1>17. ASSUME CReapKill PROVE WaitInv'
  BY <1>17 DEF CReapKill, workerVars
<1>18. ASSUME CRecord PROVE WaitInv'
  BY <1>18 DEF CRecord, workerVars
<1>19. ASSUME CFinally PROVE WaitInv'
  BY <1>19 DEF CFinally, workerVars
<1>20. ASSUME COSError PROVE WaitInv'
  BY <1>20 DEF COSError, Handle, workerVars
<1>21. ASSUME CRecordOSError PROVE WaitInv'
  BY <1>21 DEF CRecordOSError, workerVars
<1>22. ASSUME CSignal PROVE WaitInv'
  BY <1>22 DEF CSignal, Handle, workerVars
<1>23. ASSUME CGone PROVE WaitInv'
  BY <1>23 DEF CGone, workerVars
<1>24. ASSUME NEW w \in Workers, WConnect(w) PROVE WaitInv'
  BY <1>24 DEF WConnect, coordVars
<1>25. ASSUME NEW w \in Workers, WReady(w) PROVE WaitInv'
  BY <1>25 DEF WReady, coordVars
<1>26. ASSUME NEW w \in Workers, WStart(w) PROVE WaitInv'
  BY <1>26 DEF WStart, coordVars
<1>27. ASSUME NEW w \in Workers, WMeasure(w) PROVE WaitInv'
  BY <1>27 DEF WMeasure, coordVars
<1>28. ASSUME NEW w \in Workers, WResult(w) PROVE WaitInv'
  BY <1>28 DEF WResult, coordVars
<1>29. ASSUME NEW w \in Workers, WExit(w) PROVE WaitInv'
  BY <1>29 DEF WExit, coordVars
<1>30. ASSUME NEW w \in Workers, WFail(w) PROVE WaitInv'
  BY <1>30 DEF WFail, Fail, Fails, coordVars
<1>31. ASSUME NEW w \in Workers, WThrow(w) PROVE WaitInv'
  BY <1>31 DEF WThrow, Fail, coordVars
<1>32. ASSUME NEW w \in Workers, WCrash(w) PROVE WaitInv'
  BY <1>32 DEF WCrash, Die, coordVars, Live
<1>33. ASSUME NEW w \in Workers, WKilled(w) PROVE WaitInv'
  BY <1>33 DEF WKilled, Die, coordVars, Live
<1>34. ASSUME Tick PROVE WaitInv'
  BY <1>34 DEF Tick, coordVars, workerVars
<1>35. CASE UNCHANGED vars
  BY <1>35 DEF vars
<1>. QED
  BY <1>1, <1>2, <1>3, <1>4, <1>5, <1>6, <1>7, <1>8, <1>9,
     <1>10, <1>11, <1>12, <1>13, <1>14, <1>15, <1>16, <1>17, <1>18,
     <1>19, <1>20, <1>21, <1>22, <1>23, <1>24, <1>25, <1>26, <1>27,
     <1>28, <1>29, <1>30, <1>31, <1>32, <1>33, <1>34, <1>35
  DEF Next, CStep, WStep

\* The barrier in front of the measurement.
LEMMA BarrierStep == BarrierInv /\ TypeOK /\ LoopInv /\ ListInv /\ [Next]_vars => BarrierInv'
<1> SUFFICES ASSUME BarrierInv /\ TypeOK /\ LoopInv /\ ListInv, [Next]_vars
             PROVE  BarrierInv'
  OBVIOUS
<1>. USE NAssumption, MaxSignalsAssumption
     DEF TypeOK, LoopInv, ListInv, BarrierInv, Exited, Workers, MeasuringPcs, LaunchedPcs,
         ReadyPcs, TryPcs, ServingPcs, HandlerPcs
<1>1. ASSUME CPrepare PROVE BarrierInv'
  BY <1>1 DEF CPrepare, workerVars
<1>2. ASSUME COpen PROVE BarrierInv'
  BY <1>2 DEF COpen, workerVars
<1>3. ASSUME CPopen PROVE BarrierInv'
  BY <1>3 DEF CPopen, workerVars
<1>4. ASSUME CAppend PROVE BarrierInv'
  BY <1>4 DEF CAppend, workerVars
<1>5. ASSUME CReady PROVE BarrierInv'
  BY <1>5 DEF CReady, workerVars
<1>6. ASSUME CPlan PROVE BarrierInv'
  BY <1>6 DEF CPlan, workerVars
<1>7. ASSUME NEW w \in Workers, CAccept(w) PROVE BarrierInv'
  BY <1>7 DEF CAccept, workerVars
<1>8. ASSUME NEW w \in Workers, CStart(w) PROVE BarrierInv'
  BY <1>8 DEF CStart, workerVars
<1>9. ASSUME CWait PROVE BarrierInv'
  BY <1>9 DEF CWait, workerVars
<1>10. ASSUME CCheck PROVE BarrierInv'
  BY <1>10 DEF CCheck, workerVars
<1>11. ASSUME CCommit PROVE BarrierInv'
  BY <1>11 DEF CCommit, workerVars
<1>12. ASSUME CReturn PROVE BarrierInv'
  BY <1>12 DEF CReturn, workerVars
<1>13. ASSUME CReject PROVE BarrierInv'
  BY <1>13 DEF CReject, Handle, workerVars
<1>14. ASSUME CTimeout PROVE BarrierInv'
  BY <1>14 DEF CTimeout, Handle, Blocked, workerVars
<1>15. ASSUME CTerm PROVE BarrierInv'
  BY <1>15 DEF CTerm, workerVars
<1>16. ASSUME CReap PROVE BarrierInv'
  BY <1>16 DEF CReap, workerVars
<1>17. ASSUME CReapKill PROVE BarrierInv'
  BY <1>17 DEF CReapKill, workerVars
<1>18. ASSUME CRecord PROVE BarrierInv'
  BY <1>18 DEF CRecord, workerVars
<1>19. ASSUME CFinally PROVE BarrierInv'
  BY <1>19 DEF CFinally, workerVars
<1>20. ASSUME COSError PROVE BarrierInv'
  BY <1>20 DEF COSError, Handle, workerVars
<1>21. ASSUME CRecordOSError PROVE BarrierInv'
  BY <1>21 DEF CRecordOSError, workerVars
<1>22. ASSUME CSignal PROVE BarrierInv'
  BY <1>22 DEF CSignal, Handle, workerVars
<1>23. ASSUME CGone PROVE BarrierInv'
  BY <1>23 DEF CGone, workerVars
<1>24. ASSUME NEW w \in Workers, WConnect(w) PROVE BarrierInv'
  BY <1>24 DEF WConnect, coordVars
<1>25. ASSUME NEW w \in Workers, WReady(w) PROVE BarrierInv'
  BY <1>25 DEF WReady, coordVars
<1>26. ASSUME NEW w \in Workers, WStart(w) PROVE BarrierInv'
  BY <1>26 DEF WStart, coordVars
<1>27. ASSUME NEW w \in Workers, WMeasure(w) PROVE BarrierInv'
  BY <1>27 DEF WMeasure, coordVars
<1>28. ASSUME NEW w \in Workers, WResult(w) PROVE BarrierInv'
  BY <1>28 DEF WResult, coordVars
<1>29. ASSUME NEW w \in Workers, WExit(w) PROVE BarrierInv'
  BY <1>29 DEF WExit, coordVars
<1>30. ASSUME NEW w \in Workers, WFail(w) PROVE BarrierInv'
  BY <1>30 DEF WFail, Fail, Fails, coordVars
<1>31. ASSUME NEW w \in Workers, WThrow(w) PROVE BarrierInv'
  BY <1>31 DEF WThrow, Fail, coordVars
<1>32. ASSUME NEW w \in Workers, WCrash(w) PROVE BarrierInv'
  BY <1>32 DEF WCrash, Die, coordVars, Live
<1>33. ASSUME NEW w \in Workers, WKilled(w) PROVE BarrierInv'
  BY <1>33 DEF WKilled, Die, coordVars, Live
<1>34. ASSUME Tick PROVE BarrierInv'
  BY <1>34 DEF Tick, coordVars, workerVars
<1>35. CASE UNCHANGED vars
  BY <1>35 DEF vars
<1>. QED
  BY <1>1, <1>2, <1>3, <1>4, <1>5, <1>6, <1>7, <1>8, <1>9,
     <1>10, <1>11, <1>12, <1>13, <1>14, <1>15, <1>16, <1>17, <1>18,
     <1>19, <1>20, <1>21, <1>22, <1>23, <1>24, <1>25, <1>26, <1>27,
     <1>28, <1>29, <1>30, <1>31, <1>32, <1>33, <1>34, <1>35
  DEF Next, CStep, WStep

\* The verdict and what it says of the workers.
LEMMA VerdictStep == VerdictInv /\ TypeOK /\ LoopInv /\ WaitInv /\ ListInv /\ BarrierInv /\ [Next]_vars => VerdictInv'
<1> SUFFICES ASSUME VerdictInv /\ TypeOK /\ LoopInv /\ WaitInv /\ ListInv /\ BarrierInv, [Next]_vars
             PROVE  VerdictInv'
  OBVIOUS
<1>. USE NAssumption, MaxSignalsAssumption
     DEF TypeOK, LoopInv, ListInv, WaitInv, BarrierInv, VerdictInv, Accepts, Exited,
         Workers, AcceptedPcs, LaunchedPcs, TryPcs, ServingPcs, HandlerPcs
<1>1. ASSUME CPrepare PROVE VerdictInv'
  BY <1>1 DEF CPrepare, workerVars
<1>2. ASSUME COpen PROVE VerdictInv'
  BY <1>2 DEF COpen, workerVars
<1>3. ASSUME CPopen PROVE VerdictInv'
  BY <1>3 DEF CPopen, workerVars
<1>4. ASSUME CAppend PROVE VerdictInv'
  BY <1>4 DEF CAppend, workerVars
<1>5. ASSUME CReady PROVE VerdictInv'
  BY <1>5 DEF CReady, workerVars
<1>6. ASSUME CPlan PROVE VerdictInv'
  BY <1>6 DEF CPlan, workerVars
<1>7. ASSUME NEW w \in Workers, CAccept(w) PROVE VerdictInv'
  BY <1>7 DEF CAccept, workerVars
<1>8. ASSUME NEW w \in Workers, CStart(w) PROVE VerdictInv'
  BY <1>8 DEF CStart, workerVars
<1>9. ASSUME CWait PROVE VerdictInv'
  BY <1>9 DEF CWait, workerVars
<1>10. ASSUME CCheck PROVE VerdictInv'
  BY <1>10 DEF CCheck, workerVars
<1>11. ASSUME CCommit PROVE VerdictInv'
  BY <1>11 DEF CCommit, workerVars
<1>12. ASSUME CReturn PROVE VerdictInv'
  BY <1>12 DEF CReturn, workerVars
<1>13. ASSUME CReject PROVE VerdictInv'
  BY <1>13 DEF CReject, Handle, workerVars
<1>14. ASSUME CTimeout PROVE VerdictInv'
  BY <1>14 DEF CTimeout, Handle, Blocked, workerVars
<1>15. ASSUME CTerm PROVE VerdictInv'
  BY <1>15 DEF CTerm, workerVars
<1>16. ASSUME CReap PROVE VerdictInv'
  BY <1>16 DEF CReap, workerVars
<1>17. ASSUME CReapKill PROVE VerdictInv'
  BY <1>17 DEF CReapKill, workerVars
<1>18. ASSUME CRecord PROVE VerdictInv'
  BY <1>18 DEF CRecord, workerVars
<1>19. ASSUME CFinally PROVE VerdictInv'
  BY <1>19 DEF CFinally, workerVars
<1>20. ASSUME COSError PROVE VerdictInv'
  BY <1>20 DEF COSError, Handle, workerVars
<1>21. ASSUME CRecordOSError PROVE VerdictInv'
  BY <1>21 DEF CRecordOSError, workerVars
<1>22. ASSUME CSignal PROVE VerdictInv'
  BY <1>22 DEF CSignal, Handle, workerVars
<1>23. ASSUME CGone PROVE VerdictInv'
  BY <1>23 DEF CGone, workerVars
<1>24. ASSUME NEW w \in Workers, WConnect(w) PROVE VerdictInv'
  BY <1>24 DEF WConnect, coordVars
<1>25. ASSUME NEW w \in Workers, WReady(w) PROVE VerdictInv'
  BY <1>25 DEF WReady, coordVars
<1>26. ASSUME NEW w \in Workers, WStart(w) PROVE VerdictInv'
  BY <1>26 DEF WStart, coordVars
<1>27. ASSUME NEW w \in Workers, WMeasure(w) PROVE VerdictInv'
  BY <1>27 DEF WMeasure, coordVars
<1>28. ASSUME NEW w \in Workers, WResult(w) PROVE VerdictInv'
  BY <1>28 DEF WResult, coordVars
<1>29. ASSUME NEW w \in Workers, WExit(w) PROVE VerdictInv'
  BY <1>29 DEF WExit, coordVars
<1>30. ASSUME NEW w \in Workers, WFail(w) PROVE VerdictInv'
  BY <1>30 DEF WFail, Fail, Fails, coordVars
<1>31. ASSUME NEW w \in Workers, WThrow(w) PROVE VerdictInv'
  BY <1>31 DEF WThrow, Fail, coordVars
<1>32. ASSUME NEW w \in Workers, WCrash(w) PROVE VerdictInv'
  BY <1>32 DEF WCrash, Die, coordVars, Live
<1>33. ASSUME NEW w \in Workers, WKilled(w) PROVE VerdictInv'
  BY <1>33 DEF WKilled, Die, coordVars, Live
<1>34. ASSUME Tick PROVE VerdictInv'
  BY <1>34 DEF Tick, coordVars, workerVars
<1>35. CASE UNCHANGED vars
  BY <1>35 DEF vars
<1>. QED
  BY <1>1, <1>2, <1>3, <1>4, <1>5, <1>6, <1>7, <1>8, <1>9,
     <1>10, <1>11, <1>12, <1>13, <1>14, <1>15, <1>16, <1>17, <1>18,
     <1>19, <1>20, <1>21, <1>22, <1>23, <1>24, <1>25, <1>26, <1>27,
     <1>28, <1>29, <1>30, <1>31, <1>32, <1>33, <1>34, <1>35
  DEF Next, CStep, WStep

-----------------------------------------------------------------------------
(* What the invariant says of a phase that ended *)

\* Once every listed process has ended, only an unlisted one may live, and it waits.
LEMMA Straggler ==
  ASSUME IInv, \A v \in Workers : v <= processes => Exited(v),
         NEW w \in Workers, Live(w)
  PROVE  w = processes + 1 /\ wpc[w] \notin MeasuringPcs
<1>1. w > processes
  BY DEF IInv, TypeOK, Live, Exited, Workers
<1>2. w = processes + 1
  BY <1>1 DEF IInv, ListInv, Live
<1>3. processes # N
  BY <1>2, NAssumption DEF Workers
<1>4. w \notin started
  BY <1>3 DEF IInv, BarrierInv
<1>. QED  BY <1>2, <1>4 DEF IInv, BarrierInv

\* When run_phase returns there is no unlisted process either.
LEMMA ReturnClean ==
  ASSUME IInv, cpc \in {"finally", "returned"}, outcome \in {"true", "false"},
         NEW w \in Workers
  PROVE  ~Live(w)
<1>1. CASE outcome = "true"
  BY <1>1 DEF IInv, BarrierInv, VerdictInv, Accepts, Exited, Live
<1>2. CASE outcome = "false"
  <2>1. status = "failed"
    BY <1>2 DEF IInv, VerdictInv
  <2>2. CASE w <= processes
    BY <2>1, <2>2 DEF IInv, VerdictInv, Exited, Live
  <2>3. CASE w > processes
    BY <1>2, <2>3 DEF IInv, ListInv, Live
  <2>. QED  BY <2>2, <2>3 DEF IInv, TypeOK, Workers
<1>. QED  BY <1>1, <1>2

-----------------------------------------------------------------------------
(* The theorems *)

\* The invariant holds in every reachable state.
THEOREM Invariance == Spec => []IInv
<1>1. IInv /\ [Next]_vars => IInv'
  BY TypeStep, LoopStep, ListStep, WaitStep, BarrierStep, VerdictStep DEF IInv
<1>. QED  BY InitIInv, <1>1, PTL DEF Spec

\* Every variable keeps its type (the state declared by run_phase and main).
THEOREM TypeCorrect == Spec => []TypeOK
BY Invariance, PTL DEF IInv

\* status.json says "ok" only of a phase in which every worker was ready, was
\* started and succeeded (run_campaign.py:138-142).
THEOREM OkSoundness == Spec => []OkIsSound
<1>1. IInv => OkIsSound
  BY NAssumption
  DEF IInv, TypeOK, BarrierInv, VerdictInv, Accepts, OkIsSound, Exited, Workers
<1>. QED  BY Invariance, <1>1, PTL

\* The accept loop is a barrier: nobody measures while somebody warms up
\* (run_campaign.py:115-133).
THEOREM Barrier == Spec => []WarmupNeverOverlaps
<1>1. IInv => WarmupNeverOverlaps
  BY DEF IInv, BarrierInv, WarmupNeverOverlaps
<1>. QED  BY Invariance, <1>1, PTL

\* A status of "failed" means that every listed process has ended and that the one
\* that may not be listed does not measure (run_campaign.py:144-148).
THEOREM FailureStops == Spec => []FailedMeansStopped
<1>1. IInv => FailedMeansStopped
  BY Straggler DEF FailedMeansStopped, IInv, VerdictInv
<1>. QED  BY Invariance, <1>1, PTL

\* A phase that returns leaves no process behind (run_campaign.py:143, 151).
THEOREM NothingLeft == Spec => []NothingLeftRunning
<1>1. IInv => NothingLeftRunning
  BY ReturnClean DEF NothingLeftRunning
<1>. QED  BY Invariance, <1>1, PTL

-----------------------------------------------------------------------------
(* TriadPhase implements PhaseContract *)

\* A step that changes no worker's location or exit status changes no stage.
LEMMA StageSame == UNCHANGED <<wpc, code>> => UNCHANGED Stage
BY DEF Stage, StageOf

\* A step of one worker changes the stage of that worker only.
LEMMA StageMove ==
  ASSUME TypeOK, NEW w \in Workers, NEW p, NEW c,
         wpc' = [wpc EXCEPT ![w] = p], code' = [code EXCEPT ![w] = c]
  PROVE  Stage' = [Stage EXCEPT ![w] = StageOf(p, c)]
<1>1. \A v \in Workers : wpc'[v] = (IF v = w THEN p ELSE wpc[v])
                        /\ code'[v] = (IF v = w THEN c ELSE code[v])
  BY DEF TypeOK
<1>2. \A v \in Workers : StageOf(wpc'[v], code'[v])
                        = (IF v = w THEN StageOf(p, c) ELSE StageOf(wpc[v], code[v]))
  BY <1>1
<1>. QED  BY <1>2 DEF Stage

LEMMA StageMoveLive ==
  ASSUME TypeOK, NEW w \in Workers, NEW p, wpc' = [wpc EXCEPT ![w] = p], code' = code
  PROVE  Stage' = [Stage EXCEPT ![w] = StageOf(p, code[w])]
<1>1. code' = [code EXCEPT ![w] = code[w]]
  BY DEF TypeOK
<1>. QED  BY <1>1, StageMove

\* The initial states of a phase are initial states of the contract.
LEMMA ContractInit == Init => Contract!Init
<1> SUFFICES ASSUME Init PROVE Contract!Init
  OBVIOUS
<1>1. StageOf("absent", "running") = "out"
  BY DEF StageOf, MeasuringPcs
<1>2. Stage = [w \in Workers |-> "out"]
  BY <1>1 DEF Init, Stage
<1>3. Verdict = "none" /\ Ended = "no"
  BY DEF Init, Verdict, Ended
<1>. QED  BY <1>2, <1>3 DEF Init, Contract!Init

\* The stage of a worker at each of its locations.
LEMMA StageValues ==
  ASSUME NEW p, NEW c
  PROVE  /\ p = "absent" => StageOf(p, c) = "out"
         /\ p \in {"setup", "connected", "waiting"} => StageOf(p, c) = "up"
         /\ p \in MeasuringPcs => StageOf(p, c) = "measuring"
         /\ p = "exited" => StageOf(p, c) = (IF c = "zero" THEN "good" ELSE "bad")
BY DEF StageOf, MeasuringPcs

\* Steps of the coordinator that the contract does not see.
LEMMA Hidden ==
  ASSUME UNCHANGED <<wpc, code, seen, status>>, Ended' = Ended
  PROVE  UNCHANGED Contract!vars
BY StageSame DEF Contract!vars, Verdict

\* Leaving the except clause's body for another location of run_phase.
LEMMA HandleHidden ==
  ASSUME cpc \in TryPcs, Handle("false") \/ Handle("raise")
  PROVE  UNCHANGED Contract!vars
<1>1. Ended' = "no" /\ Ended = "no"
  BY DEF Ended, Handle, TryPcs, ServingPcs
<1>. QED  BY <1>1, Hidden DEF Handle, workerVars

\* A worker of one stage moves to another, as the contract's Move allows.
LEMMA MoveStep ==
  ASSUME TypeOK, NEW w \in Workers, NEW p, NEW c,
         wpc' = [wpc EXCEPT ![w] = p], code' = [code EXCEPT ![w] = c],
         UNCHANGED <<seen, status, cpc, outcome>>,
         NEW from, StageOf(wpc[w], code[w]) \in from
  PROVE  Contract!Move(w, from, StageOf(p, c))
<1>1. Stage[w] = StageOf(wpc[w], code[w])
  BY DEF Stage
<1>2. UNCHANGED <<Verdict, Ended>>
  BY DEF Verdict, Ended
<1>. QED  BY <1>1, <1>2, StageMove DEF Contract!Move

\* Moving between locations of the same stage is not a step of the contract.
LEMMA SameStage ==
  ASSUME TypeOK, NEW w \in Workers, NEW p,
         wpc' = [wpc EXCEPT ![w] = p], UNCHANGED <<code, seen, status, cpc, outcome>>,
         StageOf(p, code[w]) = StageOf(wpc[w], code[w])
  PROVE  UNCHANGED Contract!vars
<1>1. Stage' = Stage
  BY StageMoveLive DEF Stage
<1>. QED  BY <1>1 DEF Contract!vars, Verdict, Ended

\* A worker that ends without success breaks.
LEMMA BreakStep ==
  ASSUME TypeOK, NEW w \in Workers, wpc[w] \notin {"absent", "exited"},
         wpc' = [wpc EXCEPT ![w] = "exited"], code' = [code EXCEPT ![w] = "nonzero"],
         UNCHANGED <<seen, status, cpc, outcome>>
  PROVE  Contract!Break(w)
<1>1. StageOf(wpc[w], code[w]) \in {"up", "measuring"}
  BY StageValues DEF TypeOK
<1>2. StageOf("exited", "nonzero") = "bad"
  BY StageValues
<1>. QED  BY <1>1, <1>2, MoveStep DEF Contract!Break

\* Nothing the contract counts as running once every worker has ended.
LEMMA StagesWhenDone ==
  ASSUME TypeOK, NEW w \in Workers
  PROVE  /\ Contract!Running(w) <=> Live(w)
         /\ Stage[w] = "measuring" <=> wpc[w] \in MeasuringPcs
         /\ Stage[w] = "good" <=> Exited(w) /\ code[w] = "zero"
         /\ Stage[w] = "out" <=> wpc[w] = "absent"
<1>1. Stage[w] = StageOf(wpc[w], code[w])
  BY DEF Stage
<1>. QED
  BY <1>1, StageValues DEF TypeOK, Contract!Running, Live, Exited, MeasuringPcs

\* Every step of a phase is a step of the contract or is not visible to it.
LEMMA ContractStep ==
  IInv /\ IInv' /\ [Next]_vars => [Contract!Next]_Contract!vars
<1> SUFFICES ASSUME IInv, IInv', [Next]_vars
             PROVE  Contract!Next \/ UNCHANGED Contract!vars
  OBVIOUS
<1>. USE DEF IInv
<1>1. ASSUME CPrepare PROVE Contract!Next \/ UNCHANGED Contract!vars
  <2>1. CASE cpc' = "open" /\ UNCHANGED outcome
    BY <1>1, <2>1, Hidden DEF CPrepare, Ended, workerVars
  <2>2. CASE cpc' = "returned" /\ outcome' = "raise"
    <3>1. Contract!End("abandoned")
      BY <1>1, <2>2, StageSame DEF CPrepare, Ended, Verdict, workerVars, Contract!End
    <3>. QED  BY <3>1 DEF Contract!Next
  <2>. QED  BY <1>1, <2>1, <2>2 DEF CPrepare
<1>2. ASSUME COpen PROVE Contract!Next \/ UNCHANGED Contract!vars
  <2>1. Ended = "no" /\ Ended' = "no"
    BY <1>2 DEF COpen, Ended
  <2>. QED  BY <1>2, <2>1, Hidden DEF COpen, workerVars
<1>3. ASSUME CPopen PROVE Contract!Next \/ UNCHANGED Contract!vars
  <2>. DEFINE w == processes + 1
  <2>1. w \in Workers /\ wpc[w] = "absent"
    BY <1>3, NAssumption DEF CPopen, TypeOK, LoopInv, ListInv, TryPcs, ServingPcs, Workers
  <2>2. StageOf("absent", code[w]) = "out" /\ StageOf("setup", code[w]) = "up"
    BY StageValues
  <2>3. Stage[w] = "out" /\ Stage' = [Stage EXCEPT ![w] = "up"]
    BY <1>3, <2>1, <2>2, StageMoveLive DEF CPopen, Stage
  <2>4. Ended = "no" /\ Ended' = "no" /\ UNCHANGED <<seen, Verdict>>
    BY <1>3 DEF CPopen, Ended, Verdict
  <2>5. Contract!Launch(w)
    BY <2>3, <2>4 DEF Contract!Launch, Contract!Move
  <2>. QED  BY <2>1, <2>5 DEF Contract!Next
<1>4. ASSUME CAppend PROVE Contract!Next \/ UNCHANGED Contract!vars
  <2>1. Ended = "no" /\ Ended' = "no"
    BY <1>4 DEF CAppend, Ended
  <2>. QED  BY <1>4, <2>1, Hidden DEF CAppend, workerVars
<1>5. ASSUME CReady PROVE Contract!Next \/ UNCHANGED Contract!vars
  <2>1. reading \in Workers /\ Stage[reading] # "out"
    BY <1>5, StagesWhenDone DEF CReady, LoopInv, BarrierInv
  <2>2. Ended = "no" /\ Ended' = "no" /\ UNCHANGED <<Stage, Verdict>>
    BY <1>5, StageSame DEF CReady, workerVars, Ended, Verdict
  <2>3. Contract!Arrive(reading)
    BY <1>5, <2>1, <2>2 DEF CReady, Contract!Arrive
  <2>. QED  BY <2>1, <2>3 DEF Contract!Next
<1>6. ASSUME CPlan PROVE Contract!Next \/ UNCHANGED Contract!vars
  <2>1. Ended = "no" /\ Ended' = "no"
    BY <1>6 DEF CPlan, Ended
  <2>. QED  BY <1>6, <2>1, Hidden DEF CPlan, workerVars
<1>7. ASSUME NEW w \in Workers, CAccept(w) PROVE Contract!Next \/ UNCHANGED Contract!vars
  <2>1. Ended = "no" /\ Ended' = "no"
    BY <1>7 DEF CAccept, Ended
  <2>. QED  BY <1>7, <2>1, Hidden DEF CAccept, workerVars
<1>8. ASSUME NEW w \in Workers, CStart(w) PROVE Contract!Next \/ UNCHANGED Contract!vars
  <2>1. Ended = "no" /\ Ended' = "no"
    BY <1>8 DEF CStart, Ended
  <2>. QED  BY <1>8, <2>1, Hidden DEF CStart, workerVars
<1>9. ASSUME CWait PROVE Contract!Next \/ UNCHANGED Contract!vars
  <2>1. Ended = "no" /\ Ended' = "no"
    BY <1>9 DEF CWait, Ended
  <2>. QED  BY <1>9, <2>1, Hidden DEF CWait, workerVars
<1>10. ASSUME CCheck PROVE Contract!Next \/ UNCHANGED Contract!vars
  <2>1. Ended = "no" /\ Ended' = "no"
    BY <1>10 DEF CCheck, Ended
  <2>. QED  BY <1>10, <2>1, Hidden DEF CCheck, workerVars
<1>11. ASSUME CCommit PROVE Contract!Next \/ UNCHANGED Contract!vars
  <2>1. Ended = "no" /\ Ended' = "no" /\ UNCHANGED <<Stage, seen>>
    BY <1>11, StageSame DEF CCommit, Ended, workerVars
  <2>2. Verdict # "failed"
    BY <1>11 DEF CCommit, Verdict, VerdictInv
  <2>3. CASE status' = "torn"
    <3>1. Contract!Publish("none")
      BY <2>1, <2>2, <2>3 DEF Contract!Publish, Verdict
    <3>. QED  BY <3>1 DEF Contract!Next
  <2>4. CASE status' = "ok"
    <3>1. \A w \in Workers : Stage[w] = "good"
      BY <1>11, <2>4, StagesWhenDone DEF CCommit, VerdictInv, BarrierInv, Accepts,
         AcceptedPcs
    <3>2. Contract!Publish("ok")
      BY <2>1, <2>2, <2>4, <3>1 DEF Contract!Publish, Verdict
    <3>. QED  BY <3>2 DEF Contract!Next
  <2>. QED  BY <1>11, <2>3, <2>4 DEF CCommit
<1>12. ASSUME CReturn PROVE Contract!Next \/ UNCHANGED Contract!vars
  <2>1. Ended = "no" /\ Ended' = "no"
    BY <1>12 DEF CReturn, Ended
  <2>. QED  BY <1>12, <2>1, Hidden DEF CReturn, workerVars
<1>13. ASSUME CReject PROVE Contract!Next \/ UNCHANGED Contract!vars
  <2>1. cpc \in TryPcs /\ Handle("false")
    BY <1>13 DEF CReject, TryPcs, ServingPcs
  <2>. QED  BY <2>1, HandleHidden
<1>14. ASSUME CTimeout PROVE Contract!Next \/ UNCHANGED Contract!vars
  <2>1. cpc \in TryPcs /\ Handle("false")
    BY <1>14 DEF CTimeout, Blocked, TryPcs, ServingPcs
  <2>. QED  BY <2>1, HandleHidden
<1>15. ASSUME CTerm PROVE Contract!Next \/ UNCHANGED Contract!vars
  <2>1. Ended = "no" /\ Ended' = "no"
    BY <1>15 DEF CTerm, Ended
  <2>. QED  BY <1>15, <2>1, Hidden DEF CTerm, workerVars
<1>16. ASSUME CReap PROVE Contract!Next \/ UNCHANGED Contract!vars
  <2>1. Ended = "no" /\ Ended' = "no"
    BY <1>16 DEF CReap, Ended
  <2>. QED  BY <1>16, <2>1, Hidden DEF CReap, workerVars
<1>17. ASSUME CReapKill PROVE Contract!Next \/ UNCHANGED Contract!vars
  <2>1. Ended = "no" /\ Ended' = "no"
    BY <1>17 DEF CReapKill, Ended
  <2>. QED  BY <1>17, <2>1, Hidden DEF CReapKill, workerVars
<1>18. ASSUME CRecord PROVE Contract!Next \/ UNCHANGED Contract!vars
  <2>1. Ended = "no" /\ Ended' = "no" /\ UNCHANGED <<Stage, seen>>
    BY <1>18, StageSame DEF CRecord, Ended, workerVars
  <2>2. Verdict # "failed"
    BY <1>18 DEF CRecord, Verdict, VerdictInv
  <2>3. CASE status' = "torn"
    <3>1. Contract!Publish("none")
      BY <2>1, <2>2, <2>3 DEF Contract!Publish, Verdict
    <3>. QED  BY <3>1 DEF Contract!Next
  <2>4. CASE status' = "failed"
    <3>1. \A w \in Workers : Live(w) => w = processes + 1 /\ wpc[w] \notin MeasuringPcs
      BY <1>18, <2>4, Straggler DEF CRecord, WaitInv
    <3>2. \A w \in Workers : Stage[w] # "measuring"
      BY <3>1, StagesWhenDone DEF Live, MeasuringPcs
    <3>3. \A w1, w2 \in Workers : Contract!Running(w1) /\ Contract!Running(w2) => w1 = w2
      BY <3>1, StagesWhenDone
    <3>4. Contract!Publish("failed")
      BY <2>1, <2>2, <2>4, <3>2, <3>3 DEF Contract!Publish, Verdict
    <3>. QED  BY <3>4 DEF Contract!Next
  <2>. QED  BY <1>18, <2>3, <2>4 DEF CRecord
<1>19. ASSUME CFinally PROVE Contract!Next \/ UNCHANGED Contract!vars
  <2>1. Ended = "no" /\ UNCHANGED <<Stage, seen, Verdict, outcome, wpc>> /\ cpc' = "returned"
    BY <1>19, StageSame DEF CFinally, Ended, Verdict, workerVars
  <2>2. CASE outcome = "true"
    <3>1. Verdict = "ok" /\ \A w \in Workers : ~Contract!Running(w)
      BY <2>2, StagesWhenDone
      DEF VerdictInv, BarrierInv, Verdict, Accepts, Exited, Live
    <3>2. Contract!End("success")
      BY <2>1, <2>2, <3>1 DEF Contract!End, Ended
    <3>. QED  BY <3>2 DEF Contract!Next
  <2>3. CASE outcome = "false"
    <3>1. Verdict = "failed"
      BY <1>19, <2>3 DEF CFinally, VerdictInv, Verdict
    <3>2. \A w \in Workers : ~Contract!Running(w)
      BY <1>19, <2>3, ReturnClean, StagesWhenDone DEF CFinally
    <3>3. Contract!End("failure")
      BY <2>1, <2>3, <3>1, <3>2 DEF Contract!End, Ended
    <3>. QED  BY <3>3 DEF Contract!Next
  <2>4. CASE outcome = "raise"
    <3>1. Contract!End("abandoned")
      BY <2>1, <2>4 DEF Contract!End, Ended
    <3>. QED  BY <3>1 DEF Contract!Next
  <2>5. CASE outcome = "none"
    BY <1>19, <2>1, <2>5, Hidden DEF CFinally, Ended, workerVars
  <2>. QED  BY <2>2, <2>3, <2>4, <2>5 DEF TypeOK
<1>20. ASSUME COSError PROVE Contract!Next \/ UNCHANGED Contract!vars
  <2>1. cpc \in TryPcs /\ Handle("false")
    BY <1>20 DEF COSError, TryPcs, ServingPcs
  <2>. QED  BY <2>1, HandleHidden
<1>21. ASSUME CRecordOSError PROVE Contract!Next \/ UNCHANGED Contract!vars
  <2>1. Ended = "no" /\ Ended' = "no"
    BY <1>21 DEF CRecordOSError, Ended
  <2>. QED  BY <1>21, <2>1, Hidden DEF CRecordOSError, workerVars
<1>22. ASSUME CSignal PROVE Contract!Next \/ UNCHANGED Contract!vars
  <2>1. CASE cpc \in TryPcs
    <3>1. Handle("raise")
      BY <1>22, <2>1 DEF CSignal, TryPcs, ServingPcs, HandlerPcs
    <3>. QED  BY <2>1, <3>1, HandleHidden
  <2>2. CASE cpc \in HandlerPcs
    <3>1. Ended = "no" /\ Ended' = "no" /\ UNCHANGED <<wpc, code, seen, status>>
      BY <1>22, <2>2 DEF CSignal, Ended, TryPcs, ServingPcs, HandlerPcs, workerVars
    <3>. QED  BY <3>1, Hidden
  <2>3. CASE cpc \in {"prepare", "finally"}
    <3>1. Ended = "no" /\ Ended' = "abandoned" /\ UNCHANGED <<wpc, code, seen, status>>
      BY <1>22, <2>3 DEF CSignal, Ended, TryPcs, ServingPcs, HandlerPcs, workerVars
    <3>2. Contract!End("abandoned")
      BY <3>1, StageSame DEF Contract!End, Verdict
    <3>. QED  BY <3>2 DEF Contract!Next
  <2>. QED  BY <1>22, <2>1, <2>2, <2>3 DEF CSignal
<1>23. ASSUME CGone PROVE Contract!Next \/ UNCHANGED Contract!vars
  <2>1. Ended' = "abandoned" /\ UNCHANGED <<wpc, code, seen, status>>
    BY <1>23 DEF CGone, Ended, workerVars
  <2>2. CASE cpc = "returned"
    BY <1>23, <2>1, <2>2, Hidden DEF CGone, Ended
  <2>3. CASE cpc # "returned"
    <3>1. Contract!End("abandoned")
      BY <1>23, <2>1, <2>3, StageSame DEF CGone, Ended, Verdict, Contract!End
    <3>. QED  BY <3>1 DEF Contract!Next
  <2>. QED  BY <2>2, <2>3
<1>24. ASSUME NEW w \in Workers, WConnect(w) PROVE Contract!Next \/ UNCHANGED Contract!vars
  <2>1. StageOf("connected", code[w]) = StageOf("setup", code[w])
    BY StageValues
  <2>. QED  BY <1>24, <2>1, SameStage DEF WConnect, coordVars
<1>25. ASSUME NEW w \in Workers, WReady(w) PROVE Contract!Next \/ UNCHANGED Contract!vars
  <2>1. StageOf("waiting", code[w]) = StageOf("connected", code[w])
    BY StageValues
  <2>. QED  BY <1>25, <2>1, SameStage DEF WReady, coordVars
<1>26. ASSUME NEW w \in Workers, WStart(w) PROVE Contract!Next \/ UNCHANGED Contract!vars
  <2>1. seen = Workers
    BY <1>26 DEF WStart, BarrierInv
  <2>2. StageOf("waiting", code[w]) = "up" /\ StageOf("spinning", code[w]) = "measuring"
    BY StageValues DEF MeasuringPcs
  <2>3. code' = [code EXCEPT ![w] = code[w]]
    BY <1>26 DEF WStart, TypeOK
  <2>4. Contract!Move(w, {"up"}, "measuring")
    BY <1>26, <2>2, <2>3, MoveStep DEF WStart, coordVars
  <2>. QED  BY <2>1, <2>4 DEF Contract!Next, Contract!Measure
<1>27. ASSUME NEW w \in Workers, WMeasure(w) PROVE Contract!Next \/ UNCHANGED Contract!vars
  <2>1. PICK p \in {"measuring", "validating"} : wpc' = [wpc EXCEPT ![w] = p]
    BY <1>27 DEF WMeasure
  <2>2. StageOf(p, code[w]) = StageOf(wpc[w], code[w])
    BY <1>27, StageValues DEF WMeasure, MeasuringPcs
  <2>. QED  BY <1>27, <2>1, <2>2, SameStage DEF WMeasure, coordVars
<1>28. ASSUME NEW w \in Workers, WResult(w) PROVE Contract!Next \/ UNCHANGED Contract!vars
  <2>1. PICK p \in {"writing", "reporting"} : wpc' = [wpc EXCEPT ![w] = p]
    BY <1>28 DEF WResult
  <2>2. StageOf(p, code[w]) = StageOf(wpc[w], code[w])
    BY <1>28, StageValues DEF WResult, MeasuringPcs
  <2>. QED  BY <1>28, <2>1, <2>2, SameStage DEF WResult, coordVars
<1>29. ASSUME NEW w \in Workers, WExit(w) PROVE Contract!Next \/ UNCHANGED Contract!vars
  <2>1. PICK c \in {"zero", "nonzero"} : code' = [code EXCEPT ![w] = c]
    BY <1>29 DEF WExit
  <2>2. CASE c = "nonzero"
    <3>1. Contract!Break(w)
      BY <1>29, <2>1, <2>2, BreakStep DEF WExit, coordVars
    <3>. QED  BY <3>1 DEF Contract!Next
  <2>3. CASE c = "zero"
    <3>1. StageOf("reporting", code[w]) = "measuring" /\ StageOf("exited", c) = "good"
      BY <2>3, StageValues DEF MeasuringPcs
    <3>2. Contract!Move(w, {"measuring"}, "good")
      BY <1>29, <2>1, <3>1, MoveStep DEF WExit, coordVars
    <3>. QED  BY <3>2 DEF Contract!Next, Contract!Succeed
  <2>. QED  BY <2>2, <2>3
<1>30. ASSUME NEW w \in Workers, WFail(w) PROVE Contract!Next \/ UNCHANGED Contract!vars
  <2>1. Contract!Break(w)
    BY <1>30, BreakStep DEF WFail, Fails, Fail, coordVars
  <2>. QED  BY <2>1 DEF Contract!Next
<1>31. ASSUME NEW w \in Workers, WThrow(w) PROVE Contract!Next \/ UNCHANGED Contract!vars
  <2>1. Contract!Break(w)
    BY <1>31, BreakStep DEF WThrow, Fail, coordVars
  <2>. QED  BY <2>1 DEF Contract!Next
<1>32. ASSUME NEW w \in Workers, WCrash(w) PROVE Contract!Next \/ UNCHANGED Contract!vars
  <2>1. Contract!Break(w)
    BY <1>32, BreakStep DEF WCrash, Die, Live, coordVars
  <2>. QED  BY <2>1 DEF Contract!Next
<1>33. ASSUME NEW w \in Workers, WKilled(w) PROVE Contract!Next \/ UNCHANGED Contract!vars
  <2>1. Contract!Break(w)
    BY <1>33, BreakStep DEF WKilled, Die, Live, coordVars
  <2>. QED  BY <2>1 DEF Contract!Next
<1>34. ASSUME Tick PROVE Contract!Next \/ UNCHANGED Contract!vars
  BY <1>34, Hidden DEF Tick, coordVars, workerVars, Ended
<1>35. CASE UNCHANGED vars
  BY <1>35, Hidden DEF vars, Ended
<1>. QED
  BY <1>1, <1>2, <1>3, <1>4, <1>5, <1>6, <1>7, <1>8, <1>9,
     <1>10, <1>11, <1>12, <1>13, <1>14, <1>15, <1>16, <1>17, <1>18,
     <1>19, <1>20, <1>21, <1>22, <1>23, <1>24, <1>25, <1>26, <1>27,
     <1>28, <1>29, <1>30, <1>31, <1>32, <1>33, <1>34, <1>35
  DEF Next, CStep, WStep

\* A phase implements the contract the campaign relies on.
THEOREM Refinement == Spec => ImplementsContract
<1>. QED  BY ContractInit, ContractStep, Invariance, PTL
          DEF Spec, ImplementsContract, Contract!Spec
=============================================================================
