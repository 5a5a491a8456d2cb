--------------------------- MODULE ReadinessProofs ---------------------------
(***************************************************************************)
(* The readiness probe for any number of callers and probes, any cache     *)
(* time and any number of restarts.  The argument: a probe at work is the  *)
(* active one; a service that is down has no active probe, so a restart    *)
(* finds none and everything that is later joined or cached belongs to the *)
(* current start.                                                          *)
(***************************************************************************)
EXTENDS Readiness, FiniteSetTheorems, TLAPS

-----------------------------------------------------------------------------
(* The inductive invariant. *)

Live == Working \cup {"done"}

\* The records of a probe task and of a caller.
ProbeRecord == [at : Working \cup {"unused", "done", "finished"},
                result : Results \cup {"none"},
                cancelled : BOOLEAN, ended : Nat, start : Nat]
CallerRecord == [at : {"new", "checking", "200", "503", "cancelled"},
                 ready : BOOLEAN, db : Results \cup {"todo", "joined"},
                 cleanup : BOOLEAN, probe : Probes \cup {NoProbe},
                 asked : Nat, start : Nat]

\* DatabaseService and the flag of DatabaseReadiness agree, and stop() has
\* forgotten its probe when the engine is disposed.
ServiceInv ==
    /\ stopped <=> service # "up"
    /\ service \in {"off", "disposed"} => active = NoProbe

\* A probe at work is the active one and has no result yet; the active one
\* has not been through _finished.
ProbeInv ==
    \A p \in Probes :
        /\ probe[p].at \in Working => active = p
        /\ active = p => probe[p].at \in Live
        /\ probe[p].at \in {"done", "finished"} <=> probe[p].result # "none"

\* While the service is up, every probe that may still report was begun
\* since its last start.
StartInv == ~stopped => \A p \in Probes : probe[p].at \in Live => probe[p].start = starts

\* A cached result is that of a finished probe of this start.
CacheInv ==
    cached.by # NoProbe =>
        /\ probe[cached.by].at = "finished"
        /\ probe[cached.by].start = starts
        /\ cached.until = probe[cached.by].ended + CacheTime

\* A caller that waits does so for a probe of the start it asked in, which
\* ends after it asked.
CallerInv ==
    \A c \in Callers :
        /\ caller[c].asked <= now
        /\ caller[c].db = "joined" =>
             /\ caller[c].probe \in Probes
             /\ probe[caller[c].probe].at # "unused"
             /\ probe[caller[c].probe].start = caller[c].start
             /\ probe[caller[c].probe].at = "finished"
                  => probe[caller[c].probe].ended >= caller[c].asked
        /\ caller[c].db = "up" => caller[c].probe \in Probes

Inv == /\ TypeOK /\ ServiceInv /\ ProbeInv /\ StartInv /\ CacheInv
       /\ CallerInv /\ UpIsEvidence /\ PoolStaysClean

-----------------------------------------------------------------------------
(* One probe's record changes and the others stay. *)
LEMMA ProbeUpdate ==
    ASSUME TypeOK, NEW p \in Probes, NEW r \in ProbeRecord,
           probe' = [probe EXCEPT ![p] = r]
    PROVE  /\ probe' \in [Probes -> ProbeRecord]
           /\ probe'[p] = r
           /\ \A q \in Probes \ {p} : probe'[q] = probe[q]
  <1>1. probe \in [Probes -> ProbeRecord]
    BY DEF TypeOK, ProbeRecord
  <1> QED BY <1>1

LEMMA Initial == Init => Inv
  <1> SUFFICES ASSUME Init PROVE Inv
    OBVIOUS
  <1> USE ReadinessAssumption DEF Init
  <1>1. TypeOK
    <2>1. caller \in [Callers ->
            [at : {"new", "checking", "200", "503", "cancelled"}, ready : BOOLEAN,
             db : Results \cup {"todo", "joined"}, cleanup : BOOLEAN,
             probe : Probes \cup {NoProbe}, asked : Nat, start : Nat]]
      BY DEF Fresh
    <2>2. probe \in [Probes -> [at : Working \cup {"unused", "done", "finished"},
                                result : Results \cup {"none"},
                                cancelled : BOOLEAN, ended : Nat, start : Nat]]
      BY DEF Unused
    <2>3. 0 \in 0 .. MaxTime /\ 0 \in 0 .. MaxStarts /\ 0 \in Nat
      OBVIOUS
    <2>4. cached \in [until : Nat, by : Probes \cup {NoProbe}]
      BY DEF NoCache
    <2> QED BY <2>1, <2>2, <2>3, <2>4 DEF TypeOK
  <1>2. ServiceInv /\ PoolStaysClean
    BY DEF ServiceInv, PoolStaysClean
  <1>3. ProbeInv /\ StartInv /\ CacheInv
    BY DEF ProbeInv, StartInv, CacheInv, Unused, NoCache, Live, Working
  <1>4. CallerInv /\ UpIsEvidence
    BY DEF CallerInv, UpIsEvidence, Fresh
  <1> QED BY <1>1, <1>2, <1>3, <1>4 DEF Inv

(* The clock only moves on. *)
LEMMA TickStep == ASSUME Inv, Tick PROVE Inv'
  <1> USE ReadinessAssumption DEF Inv, Tick, db
  <1>1. TypeOK'
    BY DEF TypeOK
  <1>2. ServiceInv' /\ PoolStaysClean' /\ ProbeInv' /\ StartInv' /\ CacheInv'
    BY DEF ServiceInv, PoolStaysClean, ProbeInv, StartInv, CacheInv
  <1>3. CallerInv' /\ UpIsEvidence'
    BY DEF CallerInv, UpIsEvidence, TypeOK
  <1> QED BY <1>1, <1>2, <1>3

(* DatabaseService: start, quiesce, stop, dispose. *)
LEMMA ServiceStep ==
    ASSUME Inv, InitDb \/ Quiesce \/ CloseDb \/ Dispose PROVE Inv'
  <1> USE ReadinessAssumption DEF Inv, db
  <1>1. CASE InitDb
    <2>1. TypeOK'
      <3>1. starts' \in 0 .. MaxStarts
        BY <1>1 DEF InitDb, TypeOK
      <3>2. cached' \in [until : Nat, by : Probes \cup {NoProbe}]
        BY <1>1 DEF InitDb, NoCache
      <3> QED BY <1>1, <3>1, <3>2 DEF InitDb, TypeOK
    <2>2. ServiceInv' /\ PoolStaysClean' /\ ProbeInv' /\ CacheInv'
      BY <1>1 DEF InitDb, ServiceInv, PoolStaysClean, ProbeInv, CacheInv, NoCache
    <2>3. \A p \in Probes : probe[p].at \notin Live
      BY <1>1 DEF InitDb, ServiceInv, ProbeInv, Live
    <2>4. StartInv'
      BY <1>1, <2>3 DEF InitDb, StartInv
    <2>5. CallerInv' /\ UpIsEvidence'
      BY <1>1 DEF InitDb, CallerInv, UpIsEvidence
    <2> QED BY <2>1, <2>2, <2>4, <2>5
  <1>2. CASE Quiesce
    BY <1>2 DEF Quiesce, TypeOK, ServiceInv, PoolStaysClean, ProbeInv, StartInv,
                CacheInv, CallerInv, UpIsEvidence
  <1>3. CASE CloseDb
    <2>1. probe' \in [Probes -> ProbeRecord]
      <3>1. \A p \in Probes : /\ probe[p] \in ProbeRecord
                              /\ [probe[p] EXCEPT !.cancelled = TRUE] \in ProbeRecord
        <4>1. probe \in [Probes -> ProbeRecord]
          BY DEF TypeOK, ProbeRecord
        <4>2. \A r \in ProbeRecord : [r EXCEPT !.cancelled = TRUE] \in ProbeRecord
          BY DEF ProbeRecord
        <4> QED BY <4>1, <4>2
      <3> QED BY <1>3, <3>1 DEF CloseDb
    <2>2. \A p \in Probes : /\ probe'[p].at = probe[p].at
                            /\ probe'[p].result = probe[p].result
                            /\ probe'[p].start = probe[p].start
                            /\ probe'[p].ended = probe[p].ended
      BY <1>3 DEF CloseDb, TypeOK
    <2>3. TypeOK'
      <3>1. cached' \in [until : Nat, by : Probes \cup {NoProbe}]
        BY <1>3 DEF CloseDb, NoCache
      <3> QED BY <1>3, <2>1, <3>1 DEF CloseDb, TypeOK, ProbeRecord
    <2>4. ServiceInv' /\ PoolStaysClean' /\ ProbeInv' /\ CacheInv' /\ StartInv'
      BY <1>3, <2>2 DEF CloseDb, ServiceInv, PoolStaysClean, ProbeInv, CacheInv,
                        StartInv, NoCache
    <2>5. CallerInv' /\ UpIsEvidence'
      BY <1>3, <2>2 DEF CloseDb, CallerInv, UpIsEvidence
    <2> QED BY <2>3, <2>4, <2>5
  <1>4. CASE Dispose
    <2>1. TypeOK'
      BY <1>4 DEF Dispose, TypeOK
    <2>2. ServiceInv' /\ ProbeInv'
      BY <1>4 DEF Dispose, ProbeAwaited, ServiceInv, ProbeInv, TypeOK
    <2>3. PoolStaysClean' /\ CacheInv' /\ StartInv' /\ CallerInv' /\ UpIsEvidence'
      BY <1>4 DEF Dispose, PoolStaysClean, CacheInv, StartInv, CallerInv, UpIsEvidence
    <2> QED BY <2>1, <2>2, <2>3
  <1> QED BY <1>1, <1>2, <1>3, <1>4

(* The probe's own steps up to its end change where it is and, with the    *)
(* end, its result.                                                        *)
LEMMA ProbeWorks ==
    ASSUME Inv, NEW p \in Probes,
           Acquire(p) \/ Select(p) \/ Invalidate(p) \/ Return(p)
    PROVE  Inv'
  <1> USE ReadinessAssumption DEF Inv
  <1>1. /\ probe[p].at \in Working /\ dirty' = dirty
        /\ UNCHANGED <<now, db, service, starts, quiescing, caller>>
    BY DEF Acquire, Select, Invalidate, Return, Step, Working
  <1>2. probe[p] \in ProbeRecord /\ probe \in [Probes -> ProbeRecord]
    BY DEF TypeOK, ProbeRecord
  <1>3. \E r \in ProbeRecord :
          /\ r.at \in Working \cup {"done"} /\ (r.at = "done" <=> r.result # "none")
          /\ r.start = probe[p].start
          /\ probe' = [probe EXCEPT ![p] = r]
    <2>1. probe[p].result = "none"
      BY <1>1, <1>2 DEF ProbeInv, Working
    <2>2. ASSUME NEW at \in Working, Goto(p, at)
          PROVE  /\ probe' = [probe EXCEPT ![p] = [probe[p] EXCEPT !.at = at]]
                 /\ [probe[p] EXCEPT !.at = at] \in ProbeRecord
      BY <1>2, <2>2 DEF Goto, ProbeRecord
    <2>3. ASSUME NEW result \in Results, End(p, result)
          PROVE  /\ probe' = [probe EXCEPT ![p] =
                               [probe[p] EXCEPT !.at = "done", !.result = result]]
                 /\ [probe[p] EXCEPT !.at = "done", !.result = result] \in ProbeRecord
      BY <1>2, <2>3 DEF End, ProbeRecord
    <2>4. \/ \E at \in Working : Goto(p, at)
          \/ \E result \in Results : End(p, result)
      BY DEF Acquire, Select, Invalidate, Return, Interruption, Working, Results
    <2>5. CASE \E at \in Working : Goto(p, at)
      <3>1. PICK at \in Working : Goto(p, at)
        BY <2>5
      <3>2. at # "done"
        BY DEF Working
      <3>3. PICK r \in ProbeRecord : r = [probe[p] EXCEPT !.at = at]
        BY <3>1, <2>2
      <3>4. r.at = at /\ r.result = "none" /\ r.start = probe[p].start
        BY <1>2, <2>1, <3>3 DEF ProbeRecord
      <3> QED BY <3>1, <3>2, <3>3, <3>4, <2>2
    <2>6. CASE \E result \in Results : End(p, result)
      <3>1. PICK result \in Results : End(p, result)
        BY <2>6
      <3>2. result # "none"
        BY DEF Results
      <3>3. PICK r \in ProbeRecord :
              r = [probe[p] EXCEPT !.at = "done", !.result = result]
        BY <3>1, <2>3
      <3>4. r.at = "done" /\ r.result = result /\ r.start = probe[p].start
        BY <1>2, <3>3 DEF ProbeRecord
      <3> QED BY <3>1, <3>2, <3>3, <3>4, <2>3
    <2> QED BY <2>4, <2>5, <2>6
  <1>4. /\ probe' \in [Probes -> ProbeRecord]
        /\ probe'[p].at \in Working \cup {"done"}
        /\ probe'[p].at = "done" <=> probe'[p].result # "none"
        /\ probe'[p].start = probe[p].start
        /\ \A q \in Probes \ {p} : probe'[q] = probe[q]
    BY <1>3, ProbeUpdate
  <1>5. TypeOK'
    BY <1>1, <1>4 DEF TypeOK, db, ProbeRecord
  <1>6. ServiceInv' /\ PoolStaysClean'
    BY <1>1 DEF ServiceInv, PoolStaysClean, db
  <1>7. ProbeInv'
    BY <1>1, <1>4 DEF ProbeInv, Live, db, Working
  <1>8. StartInv'
    BY <1>1, <1>4 DEF StartInv, Live, db
  <1>9. CacheInv'
    BY <1>1, <1>4 DEF CacheInv, db, Working, TypeOK
  <1>10. CallerInv'
    BY <1>1, <1>4 DEF CallerInv, db, Working
  <1>11. UpIsEvidence'
    BY <1>1, <1>4 DEF UpIsEvidence, CallerInv, ProbeInv, db, Working
  <1> QED BY <1>5, <1>6, <1>7, <1>8, <1>9, <1>10, <1>11

(* _finished clears the active probe and fills the cache. *)
LEMMA FinishedStep == ASSUME Inv, NEW p \in Probes, Finished(p) PROVE Inv'
  <1> USE ReadinessAssumption DEF Inv, Finished
  <1>1. /\ probe' \in [Probes -> ProbeRecord]
        /\ probe'[p].at = "finished" /\ probe'[p].result = probe[p].result
        /\ probe'[p].start = probe[p].start /\ probe'[p].ended = now
        /\ \A q \in Probes \ {p} : probe'[q] = probe[q]
    <2>1. probe[p] \in ProbeRecord /\ probe \in [Probes -> ProbeRecord] /\ now \in Nat
      BY DEF TypeOK, ProbeRecord
    <2>2. PICK r : r = [probe[p] EXCEPT !.at = "finished", !.ended = now]
      OBVIOUS
    <2>3. /\ r \in ProbeRecord /\ r.at = "finished" /\ r.result = probe[p].result
          /\ r.start = probe[p].start /\ r.ended = now
      BY <2>1, <2>2 DEF ProbeRecord
    <2>4. probe' = [probe EXCEPT ![p] = r]
      BY <2>1, <2>2
    <2> QED BY <2>3, <2>4, ProbeUpdate
  <1>2. TypeOK'
    <2>1. now + CacheTime \in Nat
      BY DEF TypeOK
    <2>2. cached' \in [until : Nat, by : Probes \cup {NoProbe}]
      BY <2>1 DEF TypeOK
    <2> QED BY <1>1, <2>2 DEF TypeOK, ProbeRecord
  <1>3. ServiceInv' /\ PoolStaysClean'
    BY DEF ServiceInv, PoolStaysClean
  <1>4. ProbeInv'
    BY <1>1 DEF ProbeInv, Live, Working, TypeOK
  <1>5. StartInv'
    BY <1>1 DEF StartInv, Live, Working
  <1>6. CacheInv'
    <2>1. CASE cached' = cached
      BY <1>1, <2>1 DEF CacheInv, TypeOK
    <2>2. CASE cached' # cached
      <3>1. cached' = [until |-> now + CacheTime, by |-> p] /\ ~stopped
        BY <2>2
      <3>2. probe[p].start = starts
        BY <3>1 DEF StartInv, Live
      <3> QED BY <1>1, <3>1, <3>2 DEF CacheInv
    <2> QED BY <2>1, <2>2
  <1>7. CallerInv'
    BY <1>1 DEF CallerInv, TypeOK
  <1>8. UpIsEvidence'
    BY <1>1 DEF UpIsEvidence, CallerInv, TypeOK
  <1> QED BY <1>2, <1>3, <1>4, <1>5, <1>6, <1>7, <1>8

(* A caller's step that leaves the probes alone keeps the invariant when   *)
(* what the caller has learnt is sound.                                    *)
LEMMA CallerLearns ==
    ASSUME Inv, NEW c \in Callers,
           UNCHANGED <<now, db, probe, service, starts, quiescing, dirty>>,
           NEW k \in CallerRecord,
           caller' = [caller EXCEPT ![c] = k],
           k.asked <= now,
           k.db = "joined" =>
             /\ k.probe \in Probes /\ probe[k.probe].at # "unused"
             /\ probe[k.probe].start = k.start
             /\ probe[k.probe].at = "finished" => probe[k.probe].ended >= k.asked,
           k.db = "up" =>
             /\ k.probe \in Probes
             /\ probe[k.probe].result = "up" /\ probe[k.probe].start = k.start
             /\ probe[k.probe].at = "finished" =>
                  \/ probe[k.probe].ended >= k.asked
                  \/ k.asked < probe[k.probe].ended + CacheTime
    PROVE  Inv'
  <1> USE DEF Inv, db
  <1>1. /\ caller'[c] = k
        /\ \A d \in Callers \ {c} : caller'[d] = caller[d]
    BY DEF TypeOK
  <1>2. TypeOK'
    BY DEF TypeOK, CallerRecord
  <1>3. ServiceInv' /\ PoolStaysClean' /\ ProbeInv' /\ StartInv' /\ CacheInv'
    BY DEF ServiceInv, PoolStaysClean, ProbeInv, StartInv, CacheInv
  <1>4. CallerInv'
    BY <1>1 DEF CallerInv
  <1>5. UpIsEvidence'
    BY <1>1 DEF UpIsEvidence
  <1> QED BY <1>2, <1>3, <1>4, <1>5

(* DatabaseReadiness.check and its callers, except where a probe is begun. *)
LEMMA CallerStep ==
    ASSUME Inv, NEW c \in Callers,
           \/ Begin(c) \/ CheckStopped(c) \/ CheckJoins(c) \/ CheckCached(c)
           \/ Hear(c) \/ GiveUp(c) \/ Answer(c)
    PROVE  Inv'
  <1> USE ReadinessAssumption
  <1>1. /\ caller[c] \in CallerRecord /\ caller \in [Callers -> CallerRecord]
        /\ probe \in [Probes -> ProbeRecord] /\ now \in Nat /\ starts \in Nat
        /\ caller[c].asked <= now
    BY DEF Inv, TypeOK, CallerRecord, ProbeRecord, CallerInv
  <1>2. \A p \in Probes : probe[p].at \in {"done", "finished"} => probe[p].result \in Results
    BY <1>1 DEF Inv, ProbeInv, ProbeRecord
  <1>3. CASE Begin(c)
    <2>1. PICK k : k = [caller[c] EXCEPT !.at = "checking",
                                         !.ready = service = "up" /\ ~quiescing]
      OBVIOUS
    <2>2. /\ k \in CallerRecord /\ k.db = caller[c].db /\ k.probe = caller[c].probe
          /\ k.asked = caller[c].asked /\ k.start = caller[c].start
      BY <1>1, <2>1 DEF CallerRecord
    <2>3. caller' = [caller EXCEPT ![c] = k]
      BY <1>1, <1>3, <2>1 DEF Begin
    <2>4. UNCHANGED <<now, db, probe, service, starts, quiescing, dirty>>
      BY <1>3 DEF Begin
    <2> QED BY <1>1, <2>2, <2>3, <2>4, CallerLearns DEF Inv, CallerInv, UpIsEvidence
  <1>4. ASSUME NEW result \in Results \cup {"joined"}, NEW p \in Probes \cup {NoProbe},
               Asked(c, result, p),
               UNCHANGED <<now, db, probe, service, starts, quiescing, dirty>>,
               result = "joined" => /\ p \in Probes /\ probe[p].at \in Live
                                    /\ probe[p].start = starts,
               result = "up" => /\ p \in Probes /\ probe[p].start = starts
                                /\ probe[p].result = "up"
                                /\ probe[p].at = "finished" => now < probe[p].ended + CacheTime
        PROVE  Inv'
    <2>1. PICK k : k = [caller[c] EXCEPT !.db = result, !.probe = p,
                            !.cleanup = service = "up" /\ ~quiescing,
                            !.asked = now, !.start = starts]
      OBVIOUS
    <2>2. /\ k \in CallerRecord /\ k.db = result /\ k.probe = p
          /\ k.asked = now /\ k.start = starts
      BY <1>1, <2>1 DEF CallerRecord, Results
    <2>3. caller' = [caller EXCEPT ![c] = k]
      BY <1>1, <1>4, <2>1 DEF Asked
    <2>4. "unused" \notin Live /\ "finished" \notin Live /\ now <= now
      BY <1>1 DEF Live, Working
    <2> QED BY <1>1, <1>4, <2>2, <2>3, <2>4, CallerLearns
  <1>5. CASE CheckStopped(c)
    <2>1. /\ Asked(c, "down", NoProbe)
          /\ UNCHANGED <<now, db, probe, service, starts, quiescing, dirty>>
      BY <1>5 DEF CheckStopped, Ask, db
    <2>2. "down" \in Results
      BY DEF Results
    <2> QED BY <1>4, <2>1, <2>2
  <1>6. CASE CheckJoins(c)
    <2>1. /\ active \in Probes /\ probe[active].at \in Live /\ probe[active].start = starts
      BY <1>6 DEF CheckJoins, Inv, TypeOK, ProbeInv, StartInv
    <2>2. PICK result : result = IF probe[active].at = "done" THEN probe[active].result
                                                              ELSE "joined"
      OBVIOUS
    <2>3. /\ Asked(c, result, active)
          /\ UNCHANGED <<now, db, probe, service, starts, quiescing, dirty>>
      BY <1>6, <2>2 DEF CheckJoins, Ask, db
    <2>4. result \in Results \cup {"joined"}
      BY <1>2, <2>1, <2>2
    <2>5. /\ probe[active].at # "finished"
          /\ result = "up" => probe[active].result = "up"
      BY <2>1, <2>2 DEF Live, Working
    <2> QED BY <1>4, <2>1, <2>3, <2>4, <2>5
  <1>7. CASE CheckCached(c)
    <2>1. /\ cached.by \in Probes /\ now < cached.until
          /\ probe[cached.by].at = "finished" /\ probe[cached.by].start = starts
          /\ cached.until = probe[cached.by].ended + CacheTime
      BY <1>7 DEF CheckCached, CacheHit, Inv, TypeOK, CacheInv
    <2>2. /\ Asked(c, probe[cached.by].result, cached.by)
          /\ UNCHANGED <<now, db, probe, service, starts, quiescing, dirty>>
      BY <1>7 DEF CheckCached, Ask, db
    <2>3. probe[cached.by].result \in Results
      BY <1>2, <2>1
    <2>4. probe[cached.by].result # "joined"
      BY <2>3 DEF Results
    <2> QED BY <1>4, <2>1, <2>2, <2>3, <2>4
  <1>8. CASE Hear(c)
    <2>1. /\ caller[c].db = "joined" /\ caller[c].probe \in Probes
          /\ probe[caller[c].probe].at = "finished"
          /\ probe[caller[c].probe].start = caller[c].start
          /\ probe[caller[c].probe].ended >= caller[c].asked
      BY <1>8 DEF Hear, ShieldDone, Inv, CallerInv
    <2>2. PICK result : result = probe[caller[c].probe].result
      OBVIOUS
    <2>3. PICK k : k = [caller[c] EXCEPT !.db = result, !.probe = caller[c].probe]
      OBVIOUS
    <2>4. result \in Results /\ result # "joined"
      BY <1>2, <2>1, <2>2 DEF Results
    <2>5. /\ k \in CallerRecord /\ k.db = result /\ k.probe = caller[c].probe
          /\ k.asked = caller[c].asked /\ k.start = caller[c].start
      BY <1>1, <2>3, <2>4 DEF CallerRecord
    <2>6. caller' = [caller EXCEPT ![c] = k]
      BY <1>1, <1>8, <2>2, <2>3 DEF Hear, Learn
    <2>7. UNCHANGED <<now, db, probe, service, starts, quiescing, dirty>>
      BY <1>8 DEF Hear
    <2> QED BY <1>1, <2>1, <2>2, <2>4, <2>5, <2>6, <2>7, CallerLearns
  <1>9. CASE GiveUp(c)
    <2>1. PICK k : k = [caller[c] EXCEPT !.db = "down", !.probe = NoProbe]
      OBVIOUS
    <2>2. k \in CallerRecord /\ k.db = "down" /\ k.asked = caller[c].asked
      BY <1>1, <2>1 DEF CallerRecord, Results
    <2>3. caller' = [caller EXCEPT ![c] = k]
      BY <1>1, <1>9, <2>1 DEF GiveUp, Learn
    <2>4. UNCHANGED <<now, db, probe, service, starts, quiescing, dirty>>
      BY <1>9 DEF GiveUp
    <2> QED BY <1>1, <2>2, <2>3, <2>4, CallerLearns
  <1>10. CASE Answer(c)
    <2>1. PICK status \in {"200", "503", "cancelled"} :
            caller' = [caller EXCEPT ![c] = [Fresh EXCEPT !.at = status]]
      BY <1>10 DEF Answer
    <2>2. PICK k : k = [Fresh EXCEPT !.at = status]
      OBVIOUS
    <2>3. k \in CallerRecord /\ k.db = "todo" /\ k.asked = 0
      BY <2>2 DEF Fresh, CallerRecord
    <2>4. UNCHANGED <<now, db, probe, service, starts, quiescing, dirty>>
      BY <1>10 DEF Answer
    <2>5. k.asked <= now /\ k.db # "joined" /\ k.db # "up"
      BY <1>1, <2>3
    <2>6. caller' = [caller EXCEPT ![c] = k]
      BY <2>1, <2>2
    <2> QED BY <2>3, <2>4, <2>5, <2>6, CallerLearns
  <1> QED BY <1>3, <1>5, <1>6, <1>7, <1>8, <1>9, <1>10

(* The first caller to find neither a probe nor a cached result begins the *)
(* probe that later ones share.                                            *)
LEMMA ProbeBegins ==
    ASSUME Inv, NEW c \in Callers, NEW p \in Probes, CheckProbes(c, p)
    PROVE  Inv'
  <1> USE ReadinessAssumption
  <1>1. /\ caller[c] \in CallerRecord /\ caller \in [Callers -> CallerRecord]
        /\ probe \in [Probes -> ProbeRecord] /\ now \in Nat /\ starts \in Nat
        /\ ~stopped /\ active = NoProbe /\ probe[p].at = "unused" /\ active' = p
        /\ UNCHANGED <<now, stopped, cached, service, starts, quiescing, dirty>>
    BY DEF Inv, TypeOK, CallerRecord, ProbeRecord, CheckProbes, Ask
  <1>2. PICK r : r = [probe[p] EXCEPT !.at = "acquire", !.start = starts]
    OBVIOUS
  <1>3. /\ r \in ProbeRecord /\ r.at = "acquire" /\ r.start = starts
        /\ r.result = probe[p].result
    BY <1>1, <1>2 DEF ProbeRecord, Working
  <1>4. probe' = [probe EXCEPT ![p] = r]
    BY <1>1, <1>2 DEF CheckProbes
  <1>5. /\ probe' \in [Probes -> ProbeRecord] /\ probe'[p] = r
        /\ \A q \in Probes \ {p} : probe'[q] = probe[q]
    BY <1>3, <1>4, ProbeUpdate DEF Inv
  <1>6. PICK k : k = [caller[c] EXCEPT !.db = "joined", !.probe = p,
                          !.cleanup = service = "up" /\ ~quiescing,
                          !.asked = now, !.start = starts]
    OBVIOUS
  <1>7. /\ k \in CallerRecord /\ k.db = "joined" /\ k.probe = p
        /\ k.asked = now /\ k.start = starts
    BY <1>1, <1>6 DEF CallerRecord
  <1>8. caller' = [caller EXCEPT ![c] = k]
    BY <1>1, <1>6 DEF CheckProbes, Asked
  <1>9. /\ caller' \in [Callers -> CallerRecord] /\ caller'[c] = k
        /\ \A d \in Callers \ {c} : caller'[d] = caller[d]
    BY <1>1, <1>7, <1>8
  <1>10. TypeOK'
    BY <1>1, <1>5, <1>9 DEF Inv, TypeOK, ProbeRecord, CallerRecord
  <1>11. ServiceInv' /\ PoolStaysClean'
    BY <1>1 DEF Inv, ServiceInv, PoolStaysClean
  <1>12. ProbeInv' /\ StartInv'
    BY <1>1, <1>3, <1>5 DEF Inv, ProbeInv, StartInv, Live, Working
  <1>13. CacheInv'
    BY <1>1, <1>5 DEF Inv, CacheInv, TypeOK
  <1>14. ASSUME NEW d \in Callers \ {c}, caller[d].db \in {"joined", "up"}
         PROVE  /\ caller'[d] = caller[d] /\ caller[d].probe \in Probes
                /\ probe'[caller[d].probe] = probe[caller[d].probe]
    <2>1. caller[d].probe \in Probes /\ caller[d].probe # p
      BY <1>1, <1>14 DEF Inv, CallerInv, UpIsEvidence, ProbeInv
    <2> QED BY <1>5, <1>9, <2>1
  <1>15. CallerInv'
    <2>1. now <= now /\ probe'[p].at # "unused" /\ probe'[p].at # "finished"
      BY <1>1, <1>3, <1>5
    <2>2. \A d \in Callers \ {c} : caller'[d] = caller[d]
      BY <1>9
    <2>3. caller'[c].db = "joined" /\ caller'[c].probe = p /\ caller'[c].asked = now
          /\ caller'[c].start = starts /\ probe'[p].start = starts
      BY <1>3, <1>5, <1>7, <1>9
    <2> QED BY <1>1, <1>14, <2>1, <2>2, <2>3 DEF Inv, CallerInv
  <1>16. UpIsEvidence'
    <2>1. caller'[c].db # "up" /\ \A d \in Callers \ {c} : caller'[d] = caller[d]
      BY <1>7, <1>9
    <2> QED BY <1>14, <2>1 DEF Inv, UpIsEvidence
  <1> QED BY <1>10, <1>11, <1>12, <1>13, <1>15, <1>16 DEF Inv

LEMMA InductiveStep == Inv /\ [Next]_vars => Inv'
  <1> SUFFICES ASSUME Inv, [Next]_vars PROVE Inv'
    OBVIOUS
  <1>1. CASE UNCHANGED vars
    BY <1>1 DEF vars, db, Inv, TypeOK, ServiceInv, ProbeInv, StartInv, CacheInv,
                CallerInv, UpIsEvidence, PoolStaysClean
  <1>2. ASSUME NEW p \in Probes, ProbeStep(p) PROVE Inv'
    BY <1>2, ProbeWorks, FinishedStep DEF ProbeStep
  <1>3. ASSUME NEW c \in Callers,
               Begin(c) \/ Check(c) \/ Hear(c) \/ GiveUp(c) \/ Answer(c)
        PROVE  Inv'
    BY <1>3, CallerStep, ProbeBegins DEF Check
  <1>4. CASE Next
    BY <1>2, <1>3, <1>4, TickStep, ServiceStep DEF Next
  <1> QED BY <1>1, <1>4

(* The invariant holds of every behaviour. *)
THEOREM Invariance == Spec => []Inv
  BY Initial, InductiveStep, PTL DEF Spec

-----------------------------------------------------------------------------
(* A probe at work is the active one, of which there is one. *)
LEMMA OneProbeAtATime == Inv => AtMostOneProbe
  <1> SUFFICES ASSUME Inv
               PROVE  Cardinality({p \in Probes : probe[p].at \in Working}) <= 1
    BY DEF AtMostOneProbe
  <1>1. {p \in Probes : probe[p].at \in Working} \subseteq {active}
    BY DEF Inv, ProbeInv
  <1>2. IsFiniteSet({active}) /\ Cardinality({active}) = 1
    BY FS_Singleton
  <1> QED BY <1>1, <1>2, FS_Subset

(* DatabaseReadiness (check 31-45, _finished and stop): the callers share  *)
(* one probe, it ends before the engine is disposed, and it leaves no      *)
(* unread answer in the pool.                                              *)
THEOREM SharedProbe == Spec => []ProbeIsContained
  <1>1. Inv => ProbeWithinService
    BY ReadinessAssumption DEF Inv, TypeOK, ServiceInv, ProbeInv, ProbeWithinService
  <1>2. Inv => ProbeIsContained
    BY <1>1, OneProbeAtATime DEF Inv, ProbeIsContained
  <1> QED BY <1>2, Invariance, PTL

(* A caller is told "up" only on the evidence of a successful probe of the *)
(* start of the service it asked in, no older than the cache time: neither *)
(* the cache nor a shared probe survives stop() and resume().              *)
THEOREM UpNeedsEvidence == Spec => []UpIsEvidence
  <1>1. Inv => UpIsEvidence
    BY DEF Inv
  <1> QED BY <1>1, Invariance, PTL

=============================================================================
