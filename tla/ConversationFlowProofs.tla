----------------------- MODULE ConversationFlowProofs -----------------------
(***************************************************************************)
(* Proofs about ConversationFlow and its history for any number of         *)
(* workers, tenants, sessions and turns: type correctness, the lineage and *)
(* isolation invariants, the receipts, the refinement of ConversationLog,  *)
(* what a request owes to the turns before its arrival, and the bound on   *)
(* the steps of a request.                                                 *)
(*                                                                         *)
(* The invariants are not inductive alone: what a worker is about to write *)
(* was read several steps earlier.  Sound says what remains true of those  *)
(* locals whatever the other workers do: the session is the tenant's, the  *)
(* context is made of recorded turns of that session, and the turn about   *)
(* to be superseded is one of them and no correction.  It survives because *)
(* sessions and turns only grow.                                           *)
(***************************************************************************)
EXTENDS ConversationHistory, TLAPS, FiniteSetTheorems

\* A turn record that belongs to the log: its session is its tenant's, and
\* it supersedes an earlier original answer of that session or nothing.
WellFormed(turn, i) ==
    /\ turn.session \in 1..Len(sessions)
    /\ sessions[turn.session] = turn.tenant
    /\ turn.supersedes # 0 =>
          /\ turn.supersedes \in 1..Len(turns) /\ turn.supersedes < i
          /\ turns[turn.supersedes].session = turn.session
          /\ turns[turn.supersedes].tenant = turn.tenant
          /\ turns[turn.supersedes].supersedes = 0

LogInv == \A i \in 1..Len(turns) : WellFormed(turns[i], i)

\* What a request's locals keep true between its transactions.
Sound(j) ==
    /\ j.pc \in {"resolve", "page", "turns", "detect", "generate", "record", "mine"}
          => j.tenant \in Tenants
    /\ j.pc \in {"page", "turns"} => j.session # 0
    /\ j.pc \in {"resolve", "page", "turns", "detect"} => j.previous = 0
    /\ j.pc \in {"resolve", "page", "turns", "detect", "generate", "record"}
          => j.history = 0
    /\ j.session # 0 => /\ j.session \in 1..Len(sessions)
                        /\ sessions[j.session] = j.tenant
    /\ \A i \in j.context : /\ i \in 1..Len(turns)
                            /\ turns[i].session = j.session
                            /\ turns[i].tenant = j.tenant
                            /\ j.session # 0
    /\ j.previous # 0 => /\ IsLatest(j.context, j.previous)
                         /\ turns[j.previous].supersedes = 0
    /\ j.history # 0 => /\ j.history \in 1..Len(turns)
                        /\ turns[j.history] =
                             [tenant |-> j.tenant, session |-> j.session,
                              supersedes |-> j.previous]

JobsInv == \A w \in Workers : Sound(job[w])

MinedInv ==
    \A m \in mined :
        /\ m.history \in 1..Len(turns)
        /\ turns[m.history].tenant = m.tenant
        /\ turns[m.history].supersedes = m.decays

IInv == TypeOK /\ LogInv /\ JobsInv /\ MinedInv

-----------------------------------------------------------------------------

\* The inductive invariant implies the properties the runs check.
LEMMA IInvImplies ==
    IInv => TypeOK /\ LineageInSession /\ CorrectionsAreFinal
            /\ TenantIsolation /\ MinedFromLineage
<1> SUFFICES ASSUME IInv
             PROVE  TypeOK /\ LineageInSession /\ CorrectionsAreFinal
                    /\ TenantIsolation /\ MinedFromLineage
  OBVIOUS
<1>1. TypeOK
  BY DEF IInv
<1>2. LineageInSession
  BY DEF IInv, LogInv, WellFormed, LineageInSession
<1>3. CorrectionsAreFinal
  BY DEF IInv, LogInv, WellFormed, CorrectionsAreFinal
<1>4. TenantIsolation
  <2>1. \A i \in 1..Len(turns) : sessions[turns[i].session] = turns[i].tenant
    BY DEF IInv, LogInv, WellFormed
  <2>2. ASSUME NEW w \in Workers, NEW i \in job[w].context
        PROVE  turns[i].tenant = job[w].tenant /\ turns[i].session = job[w].session
    BY <2>2 DEF IInv, JobsInv, Sound
  <2> QED BY <2>1, <2>2 DEF TenantIsolation
<1>5. MinedFromLineage
  <2>1. ASSUME NEW m \in mined PROVE m.history <= Len(turns)
    <3>1. m.history \in 1..Len(turns)
      BY DEF IInv, MinedInv
    <3>2. Len(turns) \in Nat
      BY DEF IInv, TypeOK
    <3> QED BY <3>1, <3>2
  <2> QED BY <2>1 DEF IInv, MinedInv, MinedFromLineage
<1> QED BY <1>1, <1>2, <1>3, <1>4, <1>5

LEMMA NoJobType == NoJob \in Jobs
BY FlowAssumption DEF NoJob, Jobs, Steps, Messages, Statuses, MalformedSession

LEMMA InitIInv == Init => IInv
<1> SUFFICES ASSUME Init PROVE IInv
  OBVIOUS
<1>1. TypeOK
  BY NoJobType, FlowAssumption DEF Init, TypeOK
<1>2. LogInv /\ MinedInv
  BY DEF Init, LogInv, MinedInv
<1>3. JobsInv
  BY DEF Init, JobsInv, Sound, NoJob
<1> QED BY <1>1, <1>2, <1>3 DEF IInv

\* A step that only changes one worker's locals preserves the invariant if
\* the new locals are sound.
LEMMA LocalStep ==
    ASSUME IInv, NEW w \in Workers, NEW j \in Jobs, Sound(j),
           job' = [job EXCEPT ![w] = j], UNCHANGED <<sessions, turns, mined>>
    PROVE  IInv'
<1>1. TypeOK'
  BY DEF IInv, TypeOK
<1>2. LogInv' /\ MinedInv'
  BY DEF IInv, LogInv, MinedInv, WellFormed
<1>3. JobsInv'
  <2> SUFFICES ASSUME NEW v \in Workers PROVE Sound(job[v])'
    BY DEF JobsInv
  <2>1. job'[v] = IF v = w THEN j ELSE job[v]
    BY DEF IInv, TypeOK
  <2> QED BY <2>1 DEF IInv, JobsInv, Sound, IsLatest
<1> QED BY <1>1, <1>2, <1>3 DEF IInv

-----------------------------------------------------------------------------

LEMMA Growth ==
    ASSUME NEW S, NEW s \in Seq(S), NEW e \in S
    PROVE  /\ Append(s, e) \in Seq(S)
           /\ Len(Append(s, e)) = Len(s) + 1
           /\ Append(s, e)[Len(s) + 1] = e
           /\ \A i \in 1..Len(s) : Append(s, e)[i] = s[i]
           /\ Len(s) \in Nat
OBVIOUS

\* A new session leaves everything said about the old ones true.
LEMMA SessionStep ==
    ASSUME IInv, NEW t \in Tenants, Len(sessions) < MaxSessions,
           sessions' = Append(sessions, t), UNCHANGED <<turns, mined>>,
           NEW w \in Workers, NEW j \in Jobs, Sound(j)',
           job' = [job EXCEPT ![w] = j]
    PROVE  IInv'
<1>1. sessions \in Seq(Tenants) /\ Len(sessions) <= MaxSessions /\ MaxSessions \in Nat
  BY FlowAssumption DEF IInv, TypeOK
<1>2. /\ sessions' \in Seq(Tenants)
      /\ Len(sessions) \in Nat
      /\ Len(sessions') = Len(sessions) + 1
      /\ \A i \in 1..Len(sessions) : sessions'[i] = sessions[i]
  BY <1>1, Growth
<1>3. TypeOK'
  BY <1>1, <1>2 DEF IInv, TypeOK
<1>4. 1..Len(sessions) \subseteq 1..Len(sessions')
  BY <1>2
<1>5. LogInv' /\ MinedInv'
  BY <1>2, <1>4 DEF IInv, LogInv, MinedInv, WellFormed
<1>6. JobsInv'
  <2> SUFFICES ASSUME NEW v \in Workers PROVE Sound(job[v])'
    BY DEF JobsInv
  <2>1. job'[v] = IF v = w THEN j ELSE job[v]
    BY DEF IInv, TypeOK
  <2>2. CASE v = w
    BY <2>1, <2>2 DEF Sound, IsLatest
  <2>3. CASE v # w
    BY <2>1, <2>3, <1>2, <1>4 DEF IInv, JobsInv, Sound, IsLatest
  <2> QED BY <2>2, <2>3
<1> QED BY <1>3, <1>5, <1>6 DEF IInv

\* A new well-formed turn leaves everything said about the old ones true.
LEMMA TurnStep ==
    ASSUME IInv, NEW turn \in Turns, WellFormed(turn, Len(turns) + 1),
           Len(turns) < MaxTurns,
           turns' = Append(turns, turn), UNCHANGED <<sessions, mined>>,
           NEW w \in Workers, NEW j \in Jobs, Sound(j)',
           job' = [job EXCEPT ![w] = j]
    PROVE  IInv'
<1>1. turns \in Seq(Turns) /\ Len(turns) <= MaxTurns /\ MaxTurns \in Nat
  BY FlowAssumption DEF IInv, TypeOK
<1>2. /\ turns' \in Seq(Turns)
      /\ Len(turns) \in Nat
      /\ Len(turns') = Len(turns) + 1
      /\ turns'[Len(turns) + 1] = turn
      /\ \A i \in 1..Len(turns) : turns'[i] = turns[i]
  BY <1>1, Growth
<1>3. TypeOK'
  BY <1>1, <1>2 DEF IInv, TypeOK
<1>4. 1..Len(turns) \subseteq 1..Len(turns')
  BY <1>2
<1>5. LogInv'
  <2> SUFFICES ASSUME NEW i \in 1..Len(turns') PROVE WellFormed(turns[i], i)'
    BY DEF LogInv
  <2>1. CASE i = Len(turns) + 1
    BY <2>1, <1>2, <1>4 DEF WellFormed
  <2>2. CASE i # Len(turns) + 1
    <3>1. i \in 1..Len(turns) /\ turns'[i] = turns[i]
      BY <2>2, <1>2
    <3>2. WellFormed(turns[i], i)
      BY <3>1 DEF IInv, LogInv
    <3> QED BY <3>1, <3>2, <1>2, <1>4 DEF WellFormed
  <2> QED BY <2>1, <2>2
<1>6. MinedInv'
  BY <1>2, <1>4 DEF IInv, MinedInv
<1>7. JobsInv'
  <2> SUFFICES ASSUME NEW v \in Workers PROVE Sound(job[v])'
    BY DEF JobsInv
  <2>1. job'[v] = IF v = w THEN j ELSE job[v]
    BY DEF IInv, TypeOK
  <2>2. CASE v = w
    BY <2>1, <2>2 DEF Sound, IsLatest
  <2>3. CASE v # w
    <3>1. Sound(job[v])
      BY DEF IInv, JobsInv
    <3>2. job[v].previous # 0 => job[v].previous \in 1..Len(turns)
      BY <3>1 DEF Sound, IsLatest
    <3> QED BY <2>1, <2>3, <3>1, <3>2, <1>2, <1>4 DEF Sound, IsLatest
  <2> QED BY <2>2, <2>3
<1> QED BY <1>3, <1>5, <1>6, <1>7 DEF IInv
-----------------------------------------------------------------------------

\* The record behind the reply to a request is a sound one.
LEMMA NoJobSound ==
    ASSUME NEW pc \in {"idle", "reply"}, NEW status \in Statuses,
           NEW j, j = [NoJob EXCEPT !.pc = pc, !.status = status]
    PROVE  j \in Jobs /\ Sound(j)
<1>1. j \in Jobs
  BY NoJobType DEF Jobs, Steps
<1>2. j.session = 0 /\ j.context = {} /\ j.previous = 0 /\ j.history = 0 /\ j.pc = pc
  BY DEF NoJob
<1> QED BY <1>1, <1>2 DEF Sound

LEMMA NextIInv == IInv /\ [Next]_vars => IInv'
<1> SUFFICES ASSUME IInv, [Next]_vars PROVE IInv'
  OBVIOUS
<1> Steps = {"idle", "resolve", "page", "turns", "detect", "generate",
             "record", "mine", "reply"}
  BY DEF Steps
<1> /\ MaxSessions \in Nat /\ MaxTurns \in Nat
    /\ UnknownSession = MaxSessions + 1 /\ MalformedSession = MaxSessions + 2
  BY FlowAssumption DEF UnknownSession, MalformedSession
<1>1. CASE UNCHANGED vars
  BY <1>1 DEF vars, IInv, TypeOK, LogInv, JobsInv, MinedInv, WellFormed, Sound, IsLatest
<1>2. ASSUME NEW w \in Workers, Receive(w) \/ Work(w) PROVE IInv'
  <2> job[w] \in Jobs /\ Sound(job[w]) /\ job \in [Workers -> Jobs]
    BY DEF IInv, TypeOK, JobsInv
  <2> /\ sessions \in Seq(Tenants) /\ Len(sessions) \in 0..MaxSessions
      /\ turns \in Seq(Turns) /\ Len(turns) \in 0..MaxTurns
    BY DEF IInv, TypeOK
  <2>1. ASSUME NEW status \in Statuses, Reply(w, status),
               UNCHANGED <<sessions, turns, mined>>
        PROVE  IInv'
    <3>1. PICK j : j = [NoJob EXCEPT !.pc = "reply", !.status = status]
      OBVIOUS
    <3>2. j \in Jobs /\ Sound(j)
      BY <3>1, NoJobSound
    <3> QED BY <2>1, <3>1, <3>2, LocalStep DEF Reply
  <2>2. ASSUME NEW step \in Steps, Goto(w, step), UNCHANGED <<sessions, turns, mined>>,
               step \in {"page", "turns"} => job[w].session # 0,
               step \in {"resolve", "page", "turns", "detect"} => job[w].previous = 0,
               step # "mine" => job[w].history = 0,
               job[w].tenant \in Tenants
        PROVE  IInv'
    <3>1. PICK j : j = [job[w] EXCEPT !.pc = step]
      OBVIOUS
    <3>2. j \in Jobs
      BY <3>1 DEF Jobs
    <3>3. Sound(j)
      BY <3>1, <2>2 DEF Jobs, Sound
    <3>4. job' = [job EXCEPT ![w] = j]
      BY <3>1, <2>2 DEF Goto
    <3> QED BY <2>2, <3>2, <3>3, <3>4, LocalStep
  <2>3. CASE Receive(w)
    <3>1. PICK t \in Tenants, c \in Channels, m \in Messages,
               g \in 0..Len(sessions) \cup {UnknownSession, MalformedSession} :
            job' = [job EXCEPT ![w] =
                      [NoJob EXCEPT !.pc = "resolve", !.tenant = t, !.channel = c,
                                    !.given = g, !.msg = m]]
      BY <2>3 DEF Receive
    <3>2. PICK j : j = [NoJob EXCEPT !.pc = "resolve", !.tenant = t, !.channel = c,
                                     !.given = g, !.msg = m]
      OBVIOUS
    <3>3. /\ c \in {"sync", "stream"} /\ g \in 0..MalformedSession
          /\ t \in Tenants \cup {None}
      BY FlowAssumption
    <3>4. j \in Jobs
      BY <3>2, <3>3, NoJobType DEF Jobs, Steps
    <3>5. /\ j.session = 0 /\ j.context = {} /\ j.previous = 0 /\ j.history = 0
          /\ j.tenant \in Tenants /\ j.pc = "resolve"
      BY <3>2 DEF NoJob
    <3>6. Sound(j)
      BY <3>5 DEF Sound
    <3> QED BY <2>3, <3>1, <3>2, <3>4, <3>6, LocalStep DEF Receive
  <2>4. CASE ResolveGiven(w)
    <3>1. CASE ~OwnSession(w)
      <4>1. Reply(w, "INVALID_SESSION") /\ UNCHANGED <<sessions, turns, mined>>
        BY <2>4, <3>1 DEF ResolveGiven
      <4> QED BY <4>1, <2>1 DEF Statuses
    <3>2. CASE OwnSession(w)
      <4>1. PICK j : j = [job[w] EXCEPT !.pc = "page", !.session = job[w].given, !.given = 0]
        OBVIOUS
      <4>2. job[w].given \in 0..MaxSessions /\ 0 \in 0..MalformedSession
        BY <3>2 DEF OwnSession
      <4>3. j \in Jobs
        BY <4>1, <4>2 DEF Jobs
      <4>4. Sound(j)
        BY <4>1, <3>2, <2>4 DEF Jobs, Sound, OwnSession, ResolveGiven, At
      <4> QED BY <2>4, <3>2, <4>1, <4>3, <4>4, LocalStep DEF ResolveGiven
    <3> QED BY <3>1, <3>2
  <2>5. CASE CreateSession(w)
    <3>1. PICK j : j = [job[w] EXCEPT !.pc = "page", !.session = Len(sessions) + 1]
      OBVIOUS
    <3>2. job[w].tenant \in Tenants /\ Len(sessions) < MaxSessions
      BY <2>5 DEF CreateSession, At, Sound
    <3>3. j \in Jobs
      <4>1. Len(sessions) + 1 \in 0..MaxSessions
        BY <3>2
      <4> QED BY <3>1, <4>1 DEF Jobs
    <3>4. /\ Len(sessions') = Len(sessions) + 1
          /\ sessions'[Len(sessions) + 1] = job[w].tenant
          /\ turns' = turns
      BY <2>5, <3>2, Growth DEF CreateSession
    <3>5. Sound(j)'
      BY <3>1, <3>2, <3>4, <2>5 DEF Jobs, Sound, CreateSession, At
    <3> QED BY <2>5, <3>1, <3>2, <3>3, <3>5, SessionStep DEF CreateSession
  <2>6. CASE ResolveOutage(w)
    <3>1. PICK j : j = [job[w] EXCEPT !.pc = "detect", !.given = 0]
      OBVIOUS
    <3>2. j \in Jobs
      <4>1. 0 \in 0..MalformedSession
        OBVIOUS
      <4> QED BY <3>1, <4>1 DEF Jobs
    <3>3. Sound(j) /\ job[w].tenant \in Tenants
      BY <3>1, <2>6 DEF Jobs, Sound, ResolveOutage, At
    <3>4. CASE UNCHANGED sessions
      BY <2>6, <3>1, <3>2, <3>3, <3>4, LocalStep DEF ResolveOutage
    <3>5. CASE Len(sessions) < MaxSessions /\ sessions' = Append(sessions, job[w].tenant)
      <4>1. /\ Len(sessions') = Len(sessions) + 1
            /\ \A i \in 1..Len(sessions) : sessions'[i] = sessions[i]
        BY <3>3, <3>5, Growth
      <4>2. Sound(j)'
        BY <3>3, <4>1, <2>6 DEF Sound, ResolveOutage
      <4> QED BY <2>6, <3>1, <3>2, <3>3, <3>5, <4>2, SessionStep DEF ResolveOutage
    <3> QED BY <3>4, <3>5, <2>6 DEF ResolveOutage
  <2>7. CASE LoadPage(w)
    <3>1. /\ job[w].session # 0 /\ job[w].tenant \in Tenants
          /\ job[w].previous = 0 /\ job[w].history = 0
      BY <2>7 DEF LoadPage, At, Sound
    <3>2. PICK step \in {"turns", "detect"} : Goto(w, step)
      BY <2>7 DEF LoadPage
    <3> QED BY <2>7, <3>1, <3>2, <2>2 DEF LoadPage
  <2>8. CASE LoadTurns(w)
    <3>1. PICK j : j = [job[w] EXCEPT !.pc = "detect", !.context = TurnsOf(job[w].session)]
      OBVIOUS
    <3>2. j \in Jobs
      <4>1. TurnsOf(job[w].session) \in SUBSET (1..MaxTurns)
        BY DEF TurnsOf
      <4> QED BY <3>1, <4>1 DEF Jobs
    <3>3. /\ job[w].tenant \in Tenants /\ job[w].session # 0
          /\ sessions[job[w].session] = job[w].tenant
      BY <2>8 DEF LoadTurns, At, Sound
    <3>4. \A i \in 1..Len(turns) : sessions[turns[i].session] = turns[i].tenant
      BY DEF IInv, LogInv, WellFormed
    <3>5. job[w].previous = 0 /\ job[w].history = 0
      BY <2>8 DEF LoadTurns, At, Sound
    <3>6. /\ j.pc = "detect" /\ j.tenant = job[w].tenant /\ j.session = job[w].session
          /\ j.context = TurnsOf(j.session) /\ j.previous = 0 /\ j.history = 0
      BY <3>1, <3>5 DEF Jobs
    <3>7. \A i \in j.context : /\ i \in 1..Len(turns)
                              /\ turns[i].session = j.session
                              /\ turns[i].tenant = j.tenant
      BY <3>3, <3>4, <3>6 DEF TurnsOf
    <3>8. j.session \in 1..Len(sessions) /\ sessions[j.session] = j.tenant
      BY <3>3, <3>6 DEF Sound
    <3>9. Sound(j)
      BY <3>3, <3>6, <3>7, <3>8 DEF Sound
    <3> QED BY <2>8, <3>1, <3>2, <3>9, LocalStep DEF LoadTurns
  <2>9. CASE ContextOutage(w)
    <3>1. job[w].tenant \in Tenants /\ job[w].previous = 0 /\ job[w].history = 0
      BY <2>9 DEF ContextOutage, At, Sound
    <3> QED BY <2>9, <3>1, <2>2 DEF ContextOutage
  <2>10. ASSUME At(w, "detect"), NEW previous \in 0..MaxTurns,
                previous # 0 => IsLatest(job[w].context, previous)
                                /\ turns[previous].supersedes = 0,
                Pipeline(w, previous), UNCHANGED <<sessions, turns, mined>>
         PROVE  IInv'
    <3>1. PICK j : j = [job[w] EXCEPT !.pc = "generate", !.previous = previous,
                                      !.msg = NoJob.msg]
      OBVIOUS
    <3>2. j \in Jobs
      <4>1. NoJob.msg \in Messages
        BY NoJobType DEF Jobs
      <4> QED BY <3>1, <4>1 DEF Jobs
    <3>3. job[w].tenant \in Tenants /\ job[w].history = 0
      BY <2>10 DEF At, Sound
    <3>4. /\ j.pc = "generate" /\ j.tenant = job[w].tenant /\ j.session = job[w].session
          /\ j.context = job[w].context /\ j.previous = previous /\ j.history = 0
      BY <3>1, <3>3 DEF Jobs
    <3>5. Sound(j)
      BY <3>3, <3>4, <2>10 DEF Sound
    <3> QED BY <2>10, <3>1, <3>2, <3>5, LocalStep DEF Pipeline
  <2>11. CASE Greet(w)
    <3>1. "greeting" \in Statuses
      BY DEF Statuses
    <3> QED BY <2>11, <3>1, <2>1 DEF Greet
  <2>12. CASE SkipDetection(w)
    BY <2>12, <2>10 DEF SkipDetection
  <2>13. CASE Detect(w)
    <3>1. PICK i \in job[w].context :
            /\ IsLatest(job[w].context, i)
            /\ \E verdict \in Verdicts(job[w].msg, i) :
                  CASE verdict = "not"        -> Pipeline(w, 0)
                    [] verdict = "clarify"    -> Reply(w, "clarified")
                    [] verdict = "correction" -> Pipeline(w, i)
      BY <2>13 DEF Detect
    <3>2. PICK verdict \in Verdicts(job[w].msg, i) :
            CASE verdict = "not"        -> Pipeline(w, 0)
              [] verdict = "clarify"    -> Reply(w, "clarified")
              [] verdict = "correction" -> Pipeline(w, i)
      BY <3>1
    <3>3. verdict \in {"not", "clarify", "correction"}
      BY DEF Verdicts
    <3>4. At(w, "detect") /\ UNCHANGED <<sessions, turns, mined>>
      BY <2>13 DEF Detect
    <3>5. i \in 0..MaxTurns
      BY DEF Jobs
    <3>6. CASE verdict = "not"
      BY <3>2, <3>4, <3>6, <2>10
    <3>7. CASE verdict = "clarify"
      <4>1. "clarified" \in Statuses
        BY DEF Statuses
      <4> QED BY <3>2, <3>4, <3>7, <4>1, <2>1
    <3>8. CASE verdict = "correction"
      <4>1. Pipeline(w, i)
        BY <3>2, <3>8
      <4>2. turns[i].supersedes = 0
        BY <3>8 DEF Verdicts
      <4> QED BY <3>1, <3>4, <3>5, <4>1, <4>2, <2>10
    <3> QED BY <3>3, <3>6, <3>7, <3>8
  <2>14. CASE ClassifierFails(w)
    <3>1. Failures \subseteq Statuses
      BY DEF Failures, Statuses
    <3> QED BY <2>14, <3>1, <2>1 DEF ClassifierFails
  <2>15. CASE Generate(w)
    <3>1. job[w].tenant \in Tenants /\ job[w].history = 0
      BY <2>15 DEF Generate, At, Sound
    <3> QED BY <2>15, <3>1, <2>2 DEF Generate
  <2>16. CASE GenerateFails(w)
    <3>1. {"SQL_VALIDATION_FAILED", "EXECUTION_FAILED", "clarified"} \subseteq Statuses
      BY DEF Statuses
    <3>2. PICK status \in Statuses : Reply(w, status)
      BY <2>16, <3>1 DEF GenerateFails
    <3> QED BY <2>16, <3>2, <2>1 DEF GenerateFails
  <2>17. CASE GenerateRaises(w)
    <3>1. Failures \subseteq Statuses
      BY DEF Failures, Statuses
    <3> QED BY <2>17, <3>1, <2>1 DEF GenerateRaises
  <2>18. ASSUME At(w, "record"), job[w].session # 0
         PROVE  NewTurn(w) \in Turns /\ WellFormed(NewTurn(w), Len(turns) + 1)
    <3>1. /\ job[w].tenant \in Tenants
          /\ job[w].session \in 1..Len(sessions)
          /\ sessions[job[w].session] = job[w].tenant
      BY <2>18 DEF At, Sound
    <3>2. NewTurn(w) \in Turns
      <4>1. job[w].previous \in 0..MaxTurns
        BY DEF Jobs
      <4> QED BY <3>1, <4>1 DEF NewTurn, Turns, SessionIds
    <3>3. ASSUME job[w].previous # 0
          PROVE  /\ job[w].previous \in 1..Len(turns)
                 /\ turns[job[w].previous].session = job[w].session
                 /\ turns[job[w].previous].tenant = job[w].tenant
                 /\ turns[job[w].previous].supersedes = 0
      BY <3>3 DEF Sound, IsLatest
    <3> QED BY <3>1, <3>2, <3>3 DEF NewTurn, WellFormed
  <2>19. ASSUME At(w, "record"), job[w].session # 0, Len(turns) < MaxTurns,
                turns' = Append(turns, NewTurn(w)), UNCHANGED <<sessions, mined>>,
                NEW history \in {0, Len(turns) + 1},
                job' = [job EXCEPT ![w].pc = "mine", ![w].history = history]
         PROVE  IInv'
    <3>1. PICK j : j = [job[w] EXCEPT !.pc = "mine", !.history = history]
      OBVIOUS
    <3>2. j \in Jobs
      <4>1. history \in 0..MaxTurns
        BY <2>19
      <4> QED BY <3>1, <4>1 DEF Jobs
    <3>3. NewTurn(w) \in Turns /\ WellFormed(NewTurn(w), Len(turns) + 1)
      BY <2>18, <2>19
    <3>4. /\ Len(turns') = Len(turns) + 1
          /\ turns'[Len(turns) + 1] = NewTurn(w)
          /\ \A i \in 1..Len(turns) : turns'[i] = turns[i]
      BY <2>19, <3>3, Growth
    <3>5. /\ j.pc = "mine" /\ j.tenant = job[w].tenant /\ j.session = job[w].session
          /\ j.context = job[w].context /\ j.previous = job[w].previous
          /\ j.history = history
      BY <3>1 DEF Jobs
    <3>6. Sound(job[w]) /\ job[w].tenant \in Tenants
      BY <2>19 DEF At, Sound
    <3>7. 1..Len(turns) \subseteq 1..Len(turns') /\ Len(turns) + 1 \in 1..Len(turns')
      BY <3>4
    <3>8. job[w].previous # 0 => job[w].previous \in 1..Len(turns)
      BY <3>6 DEF Sound, IsLatest
    <3>9. Sound(j)'
      BY <3>4, <3>5, <3>6, <3>7, <3>8, <2>19 DEF Sound, IsLatest, NewTurn
    <3>10. job' = [job EXCEPT ![w] = j]
      BY <2>19, <3>1
    <3> QED BY <2>19, <3>2, <3>3, <3>9, <3>10, TurnStep
  <2>20. CASE RecordTurn(w)
    BY <2>20, <2>19 DEF RecordTurn
  <2>21. CASE RecordNothing(w)
    <3>1. job[w].tenant \in Tenants
      BY <2>21 DEF RecordNothing, At, Sound
    <3> QED BY <2>21, <3>1, <2>2 DEF RecordNothing
  <2>22. CASE RecordOutage(w)
    <3>1. job[w].tenant \in Tenants /\ job[w].history = 0
      BY <2>22 DEF RecordOutage, At, Sound
    <3>2. CASE UNCHANGED turns
      BY <2>22, <3>1, <3>2, <2>2 DEF RecordOutage
    <3>3. CASE Len(turns) < MaxTurns /\ turns' = Append(turns, NewTurn(w))
      <4>1. job' = [job EXCEPT ![w].pc = "mine", ![w].history = 0]
        BY <2>22, <3>1 DEF RecordOutage, Goto, Jobs
      <4> QED BY <2>22, <3>3, <4>1, <2>19 DEF RecordOutage
    <3> QED BY <2>22, <3>2, <3>3 DEF RecordOutage
  <2>23. ASSUME At(w, "mine"), Answer(w), UNCHANGED <<sessions, turns, mined>>
         PROVE  IInv'
    <3>1. PICK j : j = [job[w] EXCEPT !.pc = "reply", !.status = "answered"]
      OBVIOUS
    <3>2. j \in Jobs
      <4>1. "answered" \in Statuses
        BY DEF Statuses
      <4> QED BY <3>1, <4>1 DEF Jobs
    <3>3. Sound(j)
      BY <3>1 DEF Jobs, Sound
    <3> QED BY <2>23, <3>1, <3>2, <3>3, LocalStep DEF Answer
  <2>24. CASE SkipMining(w)
    BY <2>24, <2>23 DEF SkipMining
  <2>25. CASE Mine(w)
    <3>1. PICK i \in job[w].context :
            IsLatest(job[w].context, i) /\ mined' = mined \cup {MinedRow(w, i)}
      BY <2>25 DEF Mine
    <3>2. /\ job[w].previous # 0 /\ job[w].history # 0 /\ At(w, "mine")
          /\ UNCHANGED <<sessions, turns>> /\ Answer(w)
      BY <2>25 DEF Mine, Mines
    <3>3. i = job[w].previous
      <4>1. IsLatest(job[w].context, job[w].previous)
        BY <3>2 DEF Sound
      <4>2. i \in 1..MaxTurns /\ job[w].previous \in 0..MaxTurns
        BY DEF Jobs
      <4> QED BY <3>1, <4>1, <4>2 DEF IsLatest
    <3>4. /\ job[w].tenant \in Tenants
          /\ job[w].history \in 1..Len(turns)
          /\ turns[job[w].history].tenant = job[w].tenant
          /\ turns[job[w].history].supersedes = job[w].previous
      BY <3>2 DEF At, Sound
    <3>5. MinedInv'
      BY <3>1, <3>2, <3>3, <3>4 DEF IInv, MinedInv, MinedRow
    <3>6. PICK j : j = [job[w] EXCEPT !.pc = "reply", !.status = "answered"]
      OBVIOUS
    <3>7. j \in Jobs /\ job' = [job EXCEPT ![w] = j]
      <4>1. "answered" \in Statuses
        BY DEF Statuses
      <4> QED BY <3>2, <3>6, <4>1 DEF Jobs, Answer
    <3>8. Sound(j)
      BY <3>6 DEF Jobs, Sound
    <3>9. TypeOK'
      <4>1. MinedRow(w, i) \in MinedRows
        <5>1. i \in 1..MaxTurns /\ job[w].history \in 1..MaxTurns
          BY <3>4 DEF Jobs
        <5> QED BY <3>4, <5>1 DEF MinedRow, MinedRows
      <4> QED BY <3>1, <3>2, <3>7, <4>1 DEF IInv, TypeOK
    <3>10. LogInv'
      BY <3>2 DEF IInv, LogInv, WellFormed
    <3>11. JobsInv'
      <4> SUFFICES ASSUME NEW v \in Workers PROVE Sound(job[v])'
        BY DEF JobsInv
      <4>1. job'[v] = IF v = w THEN j ELSE job[v]
        BY <3>7
      <4> QED BY <3>2, <3>8, <4>1 DEF IInv, JobsInv, Sound, IsLatest
    <3> QED BY <3>5, <3>9, <3>10, <3>11 DEF IInv
  <2>26. CASE Deliver(w)
    <3>1. PICK j : j = NoJob
      OBVIOUS
    <3>2. j \in Jobs /\ Sound(j)
      BY <3>1, NoJobType DEF NoJob, Sound
    <3> QED BY <2>26, <3>1, <3>2, LocalStep DEF Deliver
  <2> QED
    BY <1>2, <2>3, <2>4, <2>5, <2>6, <2>7, <2>8, <2>9, <2>11, <2>12, <2>13, <2>14,
       <2>15, <2>16, <2>17, <2>20, <2>21, <2>22, <2>24, <2>25, <2>26 DEF Work
<1> QED BY <1>1, <1>2 DEF Next
LEMMA SpecIInv == Spec => []IInv
BY InitIInv, NextIInv, PTL DEF Spec

-----------------------------------------------------------------------------

\* The locals of every request and the three tables keep their types.
THEOREM TypeCorrect == Spec => []TypeOK
BY SpecIInv, IInvImplies, PTL

\* Whatever the interleaving and the outages, a correction supersedes an
\* earlier answer of its own session and tenant.
THEOREM LineageCorrect == Spec => []LineageInSession
BY SpecIInv, IInvImplies, PTL

\* Whatever the interleaving and the outages, no correction is corrected.
THEOREM CapCorrect == Spec => []CorrectionsAreFinal
BY SpecIInv, IInvImplies, PTL

\* No request ever works with, or records, a turn of another tenant.
THEOREM IsolationCorrect == Spec => []TenantIsolation
BY SpecIInv, IInvImplies, PTL

\* What is mined and decayed is what the recorded correction supersedes.
THEOREM MiningCorrect == Spec => []MinedFromLineage
BY SpecIInv, IInvImplies, PTL

-----------------------------------------------------------------------------

\* One step of the flow is one step of the log, or none.
LEMMA LogStep == IInv /\ [Next]_vars => [Log!Next]_(Log!logVars)
<1> SUFFICES ASSUME IInv, [Next]_vars PROVE [Log!Next]_(Log!logVars)
  OBVIOUS
<1>1. ASSUME UNCHANGED <<sessions, turns>> PROVE [Log!Next]_(Log!logVars)
  BY <1>1 DEF Log!logVars
<1>2. ASSUME NEW t \in Tenants, sessions' = Append(sessions, t), UNCHANGED turns
      PROVE  Log!Next
  BY <1>2 DEF Log!Next, Log!OpenSession
<1>3. ASSUME NEW w \in Workers, At(w, "record"), job[w].session # 0,
             turns' = Append(turns, NewTurn(w)), UNCHANGED sessions
      PROVE  Log!Next
  <2>1. /\ job[w].session \in 1..Len(sessions)
        /\ sessions[job[w].session] = job[w].tenant
    BY <1>3 DEF IInv, JobsInv, Sound
  <2>2. /\ job[w].previous \in 0..Len(turns)
        /\ Log!Corrects(job[w].session, job[w].previous)
    <3>1. job[w].previous # 0 => IsLatest(job[w].context, job[w].previous)
                                 /\ turns[job[w].previous].supersedes = 0
      BY DEF IInv, JobsInv, Sound
    <3>2. \A i \in job[w].context : i \in 1..Len(turns)
                                    /\ turns[i].session = job[w].session
      BY DEF IInv, JobsInv, Sound
    <3>3. Len(turns) \in Nat
      BY DEF IInv, TypeOK
    <3> QED BY <3>1, <3>2, <3>3 DEF IsLatest, Log!Corrects
  <2>3. Log!Record(job[w].session, job[w].previous)
    BY <1>3, <2>1, <2>2 DEF Log!Record, NewTurn
  <2> QED BY <2>1, <2>2, <2>3 DEF Log!Next
<1>4. ASSUME NEW w \in Workers, ResolveOutage(w) \/ CreateSession(w)
      PROVE  [Log!Next]_(Log!logVars)
  <2>1. job[w].tenant \in Tenants
    BY <1>4 DEF IInv, JobsInv, Sound, ResolveOutage, CreateSession, At
  <2> QED BY <1>1, <1>2, <1>4, <2>1 DEF ResolveOutage, CreateSession
<1>5. ASSUME NEW w \in Workers, RecordTurn(w) \/ RecordOutage(w)
      PROVE  [Log!Next]_(Log!logVars)
  BY <1>1, <1>3, <1>5 DEF RecordTurn, RecordOutage
<1>6. ASSUME NEW w \in Workers, Receive(w) \/ Work(w),
             ~(ResolveOutage(w) \/ CreateSession(w) \/ RecordTurn(w) \/ RecordOutage(w))
      PROVE  UNCHANGED <<sessions, turns>>
  BY <1>6 DEF Receive, Work, ResolveGiven, LoadPage, LoadTurns, ContextOutage, Greet,
     SkipDetection, Detect, ClassifierFails, Generate, GenerateFails, GenerateRaises,
     RecordNothing, Mine, SkipMining, Deliver
<1>7. CASE UNCHANGED vars
  BY <1>1, <1>7 DEF vars
<1> QED BY <1>1, <1>4, <1>5, <1>6, <1>7 DEF Next

\* The flow implements the abstract log: the memory a reader sees is an
\* append-only history of well-formed turns, for any number of workers.
THEOREM FlowImplementsLog == Spec => ImplementsLog
<1>1. Init => Log!Init
  BY DEF Init, Log!Init
<1> QED BY <1>1, SpecIInv, LogStep, PTL DEF Spec, ImplementsLog, Log!Spec

-----------------------------------------------------------------------------
(* Receipts *)

(* A request has a history id only between recording and delivery, in the   *)
(* reply only with an answer, and no two requests have the same.            *)
Receipts ==
    /\ \A w \in Workers : job[w].history # 0 =>
          /\ job[w].pc \in {"mine", "reply"}
          /\ job[w].pc = "reply" => job[w].status = "answered"
    /\ \A v, w \in Workers : v # w /\ job[w].history # 0 => job[v].history # job[w].history

(* Detection ends in the pipeline, for a fresh question or for the latest   *)
(* turn, or in a question back.                                             *)
LEMMA DetectEnds ==
    ASSUME NEW w \in Workers, Detect(w)
    PROVE  \/ Pipeline(w, 0)
           \/ Reply(w, "clarified")
           \/ \E i \in job[w].context : IsLatest(job[w].context, i) /\ Pipeline(w, i)
<1>1. PICK i \in job[w].context :
          /\ IsLatest(job[w].context, i)
          /\ \E verdict \in Verdicts(job[w].msg, i) :
                CASE verdict = "not"        -> Pipeline(w, 0)
                  [] verdict = "clarify"    -> Reply(w, "clarified")
                  [] verdict = "correction" -> Pipeline(w, i)
  BY DEF Detect
<1>2. PICK verdict \in Verdicts(job[w].msg, i) :
          CASE verdict = "not"        -> Pipeline(w, 0)
            [] verdict = "clarify"    -> Reply(w, "clarified")
            [] verdict = "correction" -> Pipeline(w, i)
  BY <1>1
<1>3. verdict \in {"not", "clarify", "correction"}
  BY DEF Verdicts
<1> QED BY <1>1, <1>2, <1>3

(* A step is of one worker. *)
LEMMA OthersKeep ==
    ASSUME IInv, NEW w \in Workers, Receive(w) \/ Work(w), NEW v \in Workers, v # w
    PROVE  job'[v] = job[v]
<1>1. job \in [Workers -> Jobs]
  BY DEF IInv, TypeOK
<1>2. CASE Receive(w) \/ ResolveGiven(w) \/ CreateSession(w) \/ ResolveOutage(w)
           \/ LoadPage(w) \/ LoadTurns(w) \/ ContextOutage(w)
  BY <1>1, <1>2 DEF Receive, ResolveGiven, CreateSession, ResolveOutage, LoadPage,
     LoadTurns, ContextOutage, Reply, Goto
<1>3. CASE Greet(w) \/ SkipDetection(w) \/ ClassifierFails(w)
  BY <1>1, <1>3 DEF Greet, SkipDetection, ClassifierFails, Pipeline, Reply
<1>4. CASE Detect(w)
  BY <1>1, <1>4, DetectEnds DEF Pipeline, Reply
<1>5. CASE Generate(w) \/ GenerateFails(w) \/ GenerateRaises(w)
  BY <1>1, <1>5 DEF Generate, GenerateFails, GenerateRaises, Goto, Reply
<1>6. CASE RecordTurn(w) \/ RecordNothing(w) \/ RecordOutage(w)
           \/ Mine(w) \/ SkipMining(w) \/ Deliver(w)
  BY <1>1, <1>6 DEF RecordTurn, RecordNothing, RecordOutage, Mine, SkipMining, Deliver,
     Goto, Answer
<1> QED BY <1>2, <1>3, <1>4, <1>5, <1>6 DEF Work

(* What the shared forms of a step make of the locals. *)
LEMMA ReplyLocals ==
    ASSUME IInv, NEW w \in Workers, NEW status, Reply(w, status)
    PROVE  /\ job'[w].pc = "reply" /\ job'[w].history = 0 /\ job'[w].previous = 0
           /\ job'[w].context = {} /\ job'[w].session = 0
<1>1. PICK j : j = [NoJob EXCEPT !.pc = "reply", !.status = status]
  OBVIOUS
<1>2. /\ j.pc = "reply" /\ j.history = 0 /\ j.previous = 0
      /\ j.context = {} /\ j.session = 0
  BY <1>1 DEF NoJob
<1>3. job'[w] = j
  BY <1>1 DEF Reply, IInv, TypeOK
<1> QED BY <1>2, <1>3

LEMMA GotoLocals ==
    ASSUME IInv, NEW w \in Workers, NEW step, Goto(w, step)
    PROVE  /\ job'[w].pc = step /\ job'[w].history = job[w].history
           /\ job'[w].previous = job[w].previous /\ job'[w].context = job[w].context
           /\ job'[w].session = job[w].session /\ job'[w].tenant = job[w].tenant
           /\ job'[w].channel = job[w].channel
<1>1. job[w] \in Jobs /\ job \in [Workers -> Jobs]
  BY DEF IInv, TypeOK
<1>2. PICK j : j = [job[w] EXCEPT !.pc = step]
  OBVIOUS
<1>3. job'[w] = j
  BY <1>1, <1>2 DEF Goto
<1> QED BY <1>1, <1>2, <1>3 DEF Jobs

LEMMA PipelineLocals ==
    ASSUME IInv, NEW w \in Workers, NEW previous, Pipeline(w, previous)
    PROVE  /\ job'[w].pc = "generate" /\ job'[w].history = job[w].history
           /\ job'[w].previous = previous /\ job'[w].context = job[w].context
           /\ job'[w].session = job[w].session /\ job'[w].tenant = job[w].tenant
           /\ job'[w].channel = job[w].channel
<1>1. job[w] \in Jobs /\ job \in [Workers -> Jobs]
  BY DEF IInv, TypeOK
<1>2. PICK j : j = [job[w] EXCEPT !.pc = "generate", !.previous = previous, !.msg = NoJob.msg]
  OBVIOUS
<1>3. job'[w] = j
  BY <1>1, <1>2 DEF Pipeline
<1> QED BY <1>1, <1>2, <1>3 DEF Jobs

LEMMA AnswerLocals ==
    ASSUME IInv, NEW w \in Workers, Answer(w)
    PROVE  /\ job'[w].pc = "reply" /\ job'[w].status = "answered"
           /\ job'[w].history = job[w].history /\ job'[w].previous = job[w].previous
           /\ job'[w].context = job[w].context /\ job'[w].session = job[w].session
           /\ job'[w].channel = job[w].channel
<1>1. job[w] \in Jobs /\ job \in [Workers -> Jobs]
  BY DEF IInv, TypeOK
<1>2. PICK j : j = [job[w] EXCEPT !.pc = "reply", !.status = "answered"]
  OBVIOUS
<1>3. job'[w] = j
  BY <1>1, <1>2 DEF Answer
<1> QED BY <1>1, <1>2, <1>3 DEF Jobs

(* A request arrives with nothing but what the client said. *)
LEMMA ReceiveLocals ==
    ASSUME IInv, NEW w \in Workers, Receive(w)
    PROVE  /\ job'[w].pc = "resolve" /\ job'[w].history = 0 /\ job'[w].previous = 0
           /\ job'[w].context = {} /\ job'[w].session = 0
<1>1. PICK t \in Tenants, c \in Channels, m \in Messages,
           g \in 0..Len(sessions) \cup {UnknownSession, MalformedSession} :
          job' = [job EXCEPT ![w] =
                    [NoJob EXCEPT !.pc = "resolve", !.tenant = t, !.channel = c,
                                  !.given = g, !.msg = m]]
  BY DEF Receive
<1>2. PICK j : j = [NoJob EXCEPT !.pc = "resolve", !.tenant = t, !.channel = c,
                                 !.given = g, !.msg = m]
  OBVIOUS
<1>3. /\ j.pc = "resolve" /\ j.history = 0 /\ j.previous = 0
      /\ j.context = {} /\ j.session = 0
  BY <1>2 DEF NoJob
<1>4. job'[w] = j
  BY <1>1, <1>2 DEF IInv, TypeOK
<1> QED BY <1>3, <1>4

(* What a step does to the history id and the status of its worker. *)
LEMMA ReceiptStep ==
    ASSUME IInv, Receipts, NEW w \in Workers, Receive(w) \/ Work(w)
    PROVE  \/ job'[w].history = 0
           \/ /\ job'[w].history = job[w].history /\ job'[w].pc = "reply"
              /\ job'[w].status = "answered"
           \/ job'[w].history = Len(turns) + 1 /\ job'[w].pc = "mine"
<1>1. job \in [Workers -> Jobs] /\ job[w] \in Jobs
  BY DEF IInv, TypeOK
<1>2. NoJob.history = 0
  BY DEF NoJob
<1>3. job[w].pc \notin {"mine", "reply"} => job[w].history = 0
  BY DEF Receipts
<1>4. CASE Receive(w)
  BY <1>4, ReceiveLocals
<1>5. CASE ResolveGiven(w)
  BY <1>1, <1>3, <1>5, ReplyLocals DEF ResolveGiven, At, Jobs
<1>6. CASE CreateSession(w) \/ ResolveOutage(w) \/ LoadTurns(w)
  BY <1>1, <1>3, <1>6 DEF CreateSession, ResolveOutage, LoadTurns, At, Jobs
<1>7. CASE LoadPage(w) \/ ContextOutage(w) \/ Generate(w) \/ RecordNothing(w) \/ RecordOutage(w)
  BY <1>3, <1>7, GotoLocals
     DEF LoadPage, ContextOutage, Generate, RecordNothing, RecordOutage, At
<1>8. CASE Greet(w) \/ ClassifierFails(w) \/ GenerateFails(w) \/ GenerateRaises(w)
  BY <1>8, ReplyLocals DEF Greet, ClassifierFails, GenerateFails, GenerateRaises
<1>9. CASE SkipDetection(w) \/ Detect(w)
  BY <1>3, <1>9, ReplyLocals, PipelineLocals, DetectEnds DEF SkipDetection, Detect, At
<1>10. CASE RecordTurn(w)
  BY <1>1, <1>10 DEF RecordTurn, Jobs
<1>11. CASE Mine(w) \/ SkipMining(w)
  BY <1>11, AnswerLocals DEF Mine, SkipMining
<1>12. CASE Deliver(w)
  BY <1>1, <1>2, <1>12 DEF Deliver
<1> QED BY <1>4, <1>5, <1>6, <1>7, <1>8, <1>9, <1>10, <1>11, <1>12 DEF Work

LEMMA ReceiptsKept == IInv /\ Receipts /\ [Next]_vars => Receipts'
<1> SUFFICES ASSUME IInv, Receipts, [Next]_vars PROVE Receipts'
  OBVIOUS
<1>1. CASE UNCHANGED vars
  BY <1>1 DEF vars, Receipts
<1>2. ASSUME NEW w \in Workers, Receive(w) \/ Work(w) PROVE Receipts'
  <2>1. \A v \in Workers : v # w => job'[v] = job[v]
    BY <1>2, OthersKeep
  <2>2. \/ job'[w].history = 0
        \/ /\ job'[w].history = job[w].history /\ job'[w].pc = "reply"
           /\ job'[w].status = "answered"
        \/ job'[w].history = Len(turns) + 1 /\ job'[w].pc = "mine"
    BY <1>2, ReceiptStep
  <2>3. \A v \in Workers : job[v].history # 0 => job[v].history \in 1..Len(turns)
    BY DEF IInv, JobsInv, Sound
  <2>4. Len(turns) \in Nat
    BY DEF IInv, TypeOK
  <2>5. \A v \in Workers : v # w => job[v].history # Len(turns) + 1
    BY <2>3, <2>4
  <2>6. ASSUME NEW u \in Workers, NEW v \in Workers, u # v, job'[v].history # 0
        PROVE  job'[u].history # job'[v].history
    <3>1. CASE v = w
      BY <2>1, <2>2, <2>4, <2>5, <2>6, <3>1 DEF Receipts
    <3>2. CASE u = w
      BY <2>1, <2>2, <2>4, <2>5, <2>6, <3>2 DEF Receipts
    <3>3. CASE u # w /\ v # w
      BY <2>1, <2>6, <3>3 DEF Receipts
    <3> QED BY <3>1, <3>2, <3>3
  <2>7. ASSUME NEW v \in Workers, job'[v].history # 0
        PROVE  /\ job'[v].pc \in {"mine", "reply"}
               /\ job'[v].pc = "reply" => job'[v].status = "answered"
    BY <2>1, <2>2, <2>7 DEF Receipts
  <2> QED BY <2>6, <2>7 DEF Receipts
<1> QED BY <1>1, <1>2 DEF Next

\* A reply's history id is that of the turn its own request recorded: no
\* two requests are given one id, however their appends interleave.
THEOREM ReceiptCorrect == Spec => []ReceiptIsOwn
<1>1. Init => Receipts
  BY DEF Init, Receipts, NoJob
<1>2. IInv /\ Receipts => ReceiptIsOwn
  <2> SUFFICES ASSUME IInv, Receipts, NEW w \in Workers, At(w, "reply"), job[w].history # 0
               PROVE  /\ job[w].status = "answered"
                      /\ turns[job[w].history] = NewTurn(w)
                      /\ \A v \in Workers \ {w} : job[v].history # job[w].history
    BY DEF ReceiptIsOwn
  <2>1. turns[job[w].history] = NewTurn(w)
    BY DEF IInv, JobsInv, Sound, NewTurn
  <2> QED BY <2>1 DEF Receipts, At
<1> QED BY <1>1, <1>2, InitIInv, NextIInv, ReceiptsKept, PTL DEF Spec

-----------------------------------------------------------------------------
(* What a request sees of its conversation *)

(* Everything recorded before the request arrived is in its context. *)
SeesPrior(w) ==
    \A i \in TurnsOf(job[w].session) : i <= arrived[w] => i \in job[w].context

Loaded(w) == job[w].pc \in {"detect", "generate", "record"}

(* The tenant of the request has no more sessions than the page holds. *)
Fits(w) == Cardinality(SessionsOf(job[w].tenant)) <= PageLimit

(* A context is whole, or it is empty because the store failed or the       *)
(* session is not on the page.                                              *)
PriorOK(w) ==
    /\ Loaded(w) /\ job[w].context # {} => SeesPrior(w)
    /\ ~lost[w] /\ job[w].session # 0 /\ Loaded(w) /\ Fits(w) => SeesPrior(w)

(* The turn to be corrected was not corrected when the request arrived. *)
Forkless(w) ==
    job[w].pc \in {"generate", "record"} /\ job[w].previous # 0 =>
        \A i \in 1..Len(turns) : turns[i].supersedes = job[w].previous => i > arrived[w]

MinedOK(w) ==
    (/\ FeedbackCapture /\ ~lost[w] /\ job[w].channel = "sync"
     /\ At(w, "reply") /\ job[w].history # 0 /\ job[w].previous # 0)
        => \E m \in mined : m.history = job[w].history

HistoryOK(w) ==
    /\ arrived[w] \in 0..Len(turns)
    /\ job[w].pc \in {"resolve", "page", "turns"} => job[w].context = {}
    /\ PriorOK(w)
    /\ Forkless(w)
    /\ MinedOK(w)

HInv == IInv /\ \A w \in Workers : HistoryOK(w)

LEMMA HInvInit == HistoryInit => HInv
<1> SUFFICES ASSUME HistoryInit PROVE HInv
  OBVIOUS
<1>1. IInv
  BY InitIInv DEF HistoryInit
<1>2. ASSUME NEW w \in Workers PROVE HistoryOK(w)
  <2>1. job[w] = NoJob /\ arrived[w] = 0 /\ Len(turns) = 0
    BY <1>2 DEF HistoryInit, Init
  <2>2. job[w].pc = "idle"
    BY <2>1 DEF NoJob
  <2> QED BY <2>1, <2>2 DEF HistoryOK, PriorOK, Loaded, Forkless, MinedOK, At
<1> QED BY <1>1, <1>2 DEF HInv

LEMMA NewTurnType ==
    ASSUME IInv, NEW w \in Workers, At(w, "record"), job[w].session # 0
    PROVE  NewTurn(w) \in Turns
<1>1. /\ job[w] \in Jobs /\ job[w].tenant \in Tenants
      /\ job[w].session \in 1..Len(sessions) /\ Len(sessions) \in 0..MaxSessions
  <2>1. job[w] \in Jobs /\ Sound(job[w]) /\ Len(sessions) <= MaxSessions
    BY DEF IInv, TypeOK, JobsInv
  <2>2. Len(sessions) \in Nat /\ MaxSessions \in Nat
    BY FlowAssumption DEF IInv, TypeOK
  <2> QED BY <2>1, <2>2 DEF At, Sound
<1>2. job[w].session \in SessionIds /\ job[w].previous \in 0..MaxTurns
  BY <1>1, FlowAssumption DEF Jobs, SessionIds
<1> QED BY <1>1, <1>2 DEF NewTurn, Turns

(* The tables only grow. *)
LEMMA TablesGrow ==
    ASSUME IInv, NEW w \in Workers, Receive(w) \/ Work(w)
    PROVE  /\ Len(turns) \in Nat /\ Len(turns') \in Nat /\ Len(turns) <= Len(turns')
           /\ \A i \in 1..Len(turns) : turns'[i] = turns[i]
           /\ Len(sessions) \in Nat /\ Len(sessions') \in Nat
           /\ Len(sessions) <= Len(sessions')
           /\ \A s \in 1..Len(sessions) : sessions'[s] = sessions[s]
           /\ mined \subseteq mined'
<1>1. /\ sessions \in Seq(Tenants) /\ turns \in Seq(Turns)
      /\ Len(sessions) \in Nat /\ Len(turns) \in Nat
  BY DEF IInv, TypeOK
<1>2. CASE UNCHANGED <<sessions, turns>> /\ mined \subseteq mined'
  BY <1>1, <1>2
<1>3. CASE CreateSession(w) \/ ResolveOutage(w)
  <2>1. job[w].tenant \in Tenants
    BY <1>3 DEF IInv, JobsInv, Sound, CreateSession, ResolveOutage, At
  <2>2. /\ sessions' = sessions \/ sessions' = Append(sessions, job[w].tenant)
        /\ UNCHANGED <<turns, mined>>
    BY <1>3 DEF CreateSession, ResolveOutage
  <2> QED BY <1>1, <2>1, <2>2, Growth
<1>4. CASE RecordTurn(w) \/ RecordOutage(w)
  <2>1. NewTurn(w) \in Turns
    BY <1>4, NewTurnType DEF RecordTurn, RecordOutage
  <2>2. /\ turns' = turns \/ turns' = Append(turns, NewTurn(w))
        /\ UNCHANGED <<sessions, mined>>
    BY <1>4 DEF RecordTurn, RecordOutage
  <2> QED BY <1>1, <2>1, <2>2, Growth
<1>5. CASE Mine(w)
  <2>1. UNCHANGED <<sessions, turns>> /\ mined \subseteq mined'
    BY <1>5 DEF Mine
  <2> QED BY <1>2, <2>1
<1>6. CASE ~(CreateSession(w) \/ ResolveOutage(w) \/ RecordTurn(w) \/ RecordOutage(w) \/ Mine(w))
  <2>1. UNCHANGED <<sessions, turns, mined>>
    BY <1>6 DEF Receive, Work, ResolveGiven, LoadPage, LoadTurns, ContextOutage, Greet,
       SkipDetection, Detect, ClassifierFails, Generate, GenerateFails, GenerateRaises,
       RecordNothing, SkipMining, Deliver
  <2> QED BY <1>2, <2>1
<1> QED BY <1>3, <1>4, <1>5, <1>6

(* A tenant within one page was so before. *)
LEMMA PagesFill ==
    ASSUME IInv, NEW w \in Workers, Receive(w) \/ Work(w), NEW v \in Workers,
           job'[v].tenant = job[v].tenant, Fits(v)'
    PROVE  Fits(v)
<1> DEFINE before == SessionsOf(job[v].tenant)
           after == {s \in 1..Len(sessions') : sessions'[s] = job[v].tenant}
<1>1. /\ Len(sessions) \in Nat /\ Len(sessions') \in Nat
      /\ Len(sessions) <= Len(sessions')
      /\ \A s \in 1..Len(sessions) : sessions'[s] = sessions[s]
  BY TablesGrow
<1>2. before \subseteq after
  BY <1>1 DEF SessionsOf
<1>3. IsFiniteSet(after)
  <2>1. after \subseteq 1..Len(sessions')
    OBVIOUS
  <2>2. IsFiniteSet(1..Len(sessions'))
    BY <1>1, FS_Interval
  <2> QED BY <2>1, <2>2, FS_Subset
<1>4. Cardinality(after) <= PageLimit
  BY DEF Fits, SessionsOf
<1>5. /\ Cardinality(before) <= Cardinality(after)
      /\ Cardinality(before) \in Nat /\ Cardinality(after) \in Nat
  <2>1. before \in SUBSET after /\ IsFiniteSet(before)
    BY <1>2, <1>3, FS_Subset
  <2> HIDE DEF before, after
  <2> QED BY <1>3, <2>1, FS_Subset, FS_CardinalityType
<1> QED BY <1>4, <1>5, FlowAssumption DEF Fits

(* All sessions of a tenant within one page are on it. *)
LEMMA OnThePage ==
    ASSUME IInv, NEW t, NEW s \in SessionsOf(t), Cardinality(SessionsOf(t)) <= PageLimit
    PROVE  s \in Page(t)
<1> DEFINE newer == {n \in SessionsOf(t) : n > s}
<1>1. Len(sessions) \in Nat
  BY DEF IInv, TypeOK
<1>2. IsFiniteSet(SessionsOf(t))
  <2>1. SessionsOf(t) \subseteq 1..Len(sessions) /\ 1 \in Int /\ Len(sessions) \in Int
    BY <1>1 DEF SessionsOf
  <2>2. IsFiniteSet(1..Len(sessions))
    BY <2>1, FS_Interval
  <2> QED BY <2>1, <2>2, FS_Subset
<1>3. newer \subseteq SessionsOf(t) /\ newer # SessionsOf(t)
  BY DEF SessionsOf
<1>4. /\ Cardinality(newer) <= Cardinality(SessionsOf(t))
      /\ Cardinality(newer) # Cardinality(SessionsOf(t))
      /\ Cardinality(newer) \in Nat /\ Cardinality(SessionsOf(t)) \in Nat
  BY <1>2, <1>3, FS_Subset, FS_CardinalityType
<1> QED BY <1>4, FlowAssumption DEF Page

(* The history variables of any worker after a step. *)
LEMMA HistoryStep ==
    ASSUME HInv, NEW w \in Workers, Receive(w) \/ Work(w), HistoryNext, NEW v \in Workers
    PROVE  /\ arrived'[v] \in 0..Len(turns')
           /\ job[v].pc # "idle" /\ job'[v].pc # "idle" => arrived'[v] = arrived[v]
           /\ job'[v].pc # "idle" /\ ~lost'[v] => ~lost[v] /\ ~Swallowed(v)
<1>1. /\ arrived'[v] = IF At(v, "idle") /\ job'[v].pc = "resolve" THEN Len(turns)
                       ELSE IF job'[v].pc = "idle" THEN 0 ELSE arrived[v]
      /\ lost'[v] = (job'[v].pc # "idle" /\ (lost[v] \/ Swallowed(v)))
  BY DEF HistoryNext
<1>2. arrived'[v] \in 0..Len(turns')
  BY <1>1, TablesGrow DEF HInv, HistoryOK
<1>3. job[v].pc # "idle" /\ job'[v].pc # "idle" => arrived'[v] = arrived[v]
  BY <1>1 DEF At
<1>4. job'[v].pc # "idle" /\ ~lost'[v] => ~lost[v] /\ ~Swallowed(v)
  BY ONLY <1>1
<1> QED BY <1>2, <1>3, <1>4

(* What a request saw, and that nobody had corrected its turn, stays true   *)
(* while others record: their turns come after its arrival.                 *)
LEMMA PriorKept ==
    ASSUME HInv, NEW w \in Workers, Receive(w) \/ Work(w), HistoryNext, NEW v \in Workers,
           job[v].pc # "idle", job'[v].pc # "idle",
           job'[v].session = job[v].session, job'[v].context = job[v].context
    PROVE  /\ SeesPrior(v) => SeesPrior(v)'
           /\ Forkless(v) /\ job'[v].previous = job[v].previous
                /\ job[v].pc \in {"generate", "record"} => Forkless(v)'
<1>1. arrived'[v] = arrived[v] /\ arrived[v] \in 0..Len(turns)
  BY HistoryStep DEF HInv, HistoryOK
<1>2. /\ Len(turns) \in Nat /\ Len(turns') \in Nat /\ Len(turns) <= Len(turns')
      /\ \A i \in 1..Len(turns) : turns'[i] = turns[i]
  BY TablesGrow DEF HInv
<1>3. \A i \in 1..Len(turns') : i <= arrived[v] => i \in 1..Len(turns)
  BY <1>1, <1>2
<1>4. SeesPrior(v) => SeesPrior(v)'
  BY <1>1, <1>2, <1>3 DEF SeesPrior, TurnsOf
<1>5. ASSUME Forkless(v), job'[v].previous = job[v].previous,
             job[v].pc \in {"generate", "record"}, job'[v].previous # 0,
             NEW i \in 1..Len(turns'), turns'[i].supersedes = job'[v].previous
      PROVE  i > arrived'[v]
  <2>1. CASE i \in 1..Len(turns)
    BY <1>1, <1>2, <1>5, <2>1 DEF Forkless
  <2>2. CASE i \notin 1..Len(turns)
    BY <1>1, <1>2, <2>2
  <2> QED BY <2>1, <2>2
<1> QED BY <1>4, <1>5 DEF Forkless

LEMMA OthersHistory ==
    ASSUME HInv, NEW w \in Workers, Receive(w) \/ Work(w), HistoryNext,
           NEW v \in Workers, v # w
    PROVE  HistoryOK(v)'
<1>1. job'[v] = job[v]
  BY OthersKeep DEF HInv
<1>2. HistoryOK(v)
  BY DEF HInv
<1>3. arrived'[v] \in 0..Len(turns')
  BY HistoryStep
<1>4. job'[v].pc # "idle" /\ ~lost'[v] => ~lost[v]
  BY HistoryStep
<1>5. mined \subseteq mined'
  BY TablesGrow DEF HInv
<1>6. job'[v].pc \in {"resolve", "page", "turns"} => job'[v].context = {}
  BY <1>1, <1>2 DEF HistoryOK
<1>7. PriorOK(v)'
  <2>1. ASSUME Loaded(v)', (job[v].context # {})' PROVE SeesPrior(v)'
    BY <1>1, <1>2, <2>1, PriorKept DEF HistoryOK, PriorOK, Loaded
  <2>2. ASSUME ~lost'[v], job'[v].session # 0, Loaded(v)',
               Fits(v)'
        PROVE  SeesPrior(v)'
    <3>1. Fits(v)
      BY <1>1, <2>2, PagesFill DEF HInv
    <3>2. ~lost[v]
      BY <1>4, <2>2 DEF Loaded
    <3> QED BY <1>1, <1>2, <2>2, <3>1, <3>2, PriorKept DEF HistoryOK, PriorOK, Loaded
  <2> QED BY <2>1, <2>2 DEF PriorOK
<1>8. Forkless(v)'
  BY <1>1, <1>2, PriorKept DEF HistoryOK, Forkless
<1>9. MinedOK(v)'
  BY <1>1, <1>2, <1>4, <1>5 DEF HistoryOK, MinedOK, At
<1> QED BY <1>3, <1>6, <1>7, <1>8, <1>9 DEF HistoryOK

(* A worker that is not past its load, and has no reply to give with a      *)
(* history id, has nothing more to show.                                    *)
LEMMA NothingLoaded ==
    ASSUME HInv, NEW w \in Workers, Receive(w) \/ Work(w), HistoryNext,
           job'[w].pc \notin {"detect", "generate", "record"},
           job'[w].pc \in {"resolve", "page", "turns"} => job'[w].context = {},
           job'[w].pc = "reply" => job'[w].history = 0
    PROVE  HistoryOK(w)'
<1>1. arrived'[w] \in 0..Len(turns')
  BY HistoryStep
<1>2. PriorOK(w)' /\ Forkless(w)' /\ MinedOK(w)'
  BY DEF PriorOK, Loaded, Forkless, MinedOK, At
<1> QED BY <1>1, <1>2 DEF HistoryOK

(* A worker that goes on with the context it has. *)
LEMMA ContextKept ==
    ASSUME HInv, NEW w \in Workers, Receive(w) \/ Work(w), HistoryNext, Loaded(w),
           job'[w].pc \in {"generate", "record"},
           job'[w].session = job[w].session, job'[w].context = job[w].context,
           job'[w].tenant = job[w].tenant, Forkless(w)'
    PROVE  HistoryOK(w)'
<1>1. arrived'[w] \in 0..Len(turns') /\ (~lost'[w] => ~lost[w])
  BY HistoryStep
<1>2. HistoryOK(w)
  BY DEF HInv
<1>3. PriorOK(w)'
  <2>1. SeesPrior(w) => SeesPrior(w)'
    BY PriorKept DEF Loaded
  <2>2. ASSUME (job[w].context # {})' PROVE SeesPrior(w)'
    BY <1>2, <2>1, <2>2 DEF HistoryOK, PriorOK
  <2>3. ASSUME ~lost'[w], job'[w].session # 0,
               Fits(w)'
        PROVE  SeesPrior(w)'
    <3>1. Fits(w)
      BY <2>3, PagesFill DEF HInv
    <3> QED BY <1>1, <1>2, <2>1, <2>3, <3>1 DEF HistoryOK, PriorOK
  <2> QED BY <2>2, <2>3 DEF PriorOK
<1>4. MinedOK(w)'
  BY DEF MinedOK, At
<1> QED BY <1>1, <1>3, <1>4 DEF HistoryOK

(* What a load leaves behind: all turns of the session, or nothing. *)
LEMMA LoadHistory ==
    ASSUME HInv, NEW w \in Workers, HistoryNext, LoadPage(w) \/ LoadTurns(w)
    PROVE  HistoryOK(w)'
<1>1. Receive(w) \/ Work(w)
  BY DEF Work
<1>2. /\ HistoryOK(w) /\ IInv /\ Sound(job[w]) /\ job[w] \in Jobs /\ job \in [Workers -> Jobs]
      /\ job[w].pc \in {"page", "turns"} /\ UNCHANGED <<sessions, turns, mined>>
  BY DEF HInv, IInv, TypeOK, JobsInv, LoadPage, LoadTurns, At
<1>3. arrived'[w] \in 0..Len(turns')
  BY <1>1, HistoryStep
<1>4. /\ job[w].context = {} /\ job[w].session \in SessionsOf(job[w].tenant)
  BY <1>2 DEF HistoryOK, Sound, SessionsOf
<1>5. CASE LoadPage(w)
  <2>1. /\ job'[w].pc = IF job[w].session \in Page(job[w].tenant) THEN "turns" ELSE "detect"
        /\ job'[w].context = {} /\ job'[w].tenant = job[w].tenant
    BY <1>2, <1>4, <1>5, GotoLocals DEF LoadPage
  <2>2. ASSUME Fits(w)' PROVE ~Loaded(w)'
    <3>1. Cardinality(SessionsOf(job[w].tenant)) <= PageLimit
      BY <1>1, <1>2, <2>1, <2>2, PagesFill DEF Fits
    <3>2. job[w].session \in Page(job[w].tenant)
      BY <1>2, <1>4, <3>1, OnThePage
    <3> QED BY <2>1, <3>2 DEF Loaded
  <2>3. PriorOK(w)' /\ Forkless(w)' /\ MinedOK(w)'
    BY <2>1, <2>2 DEF PriorOK, Forkless, MinedOK, At
  <2> QED BY <1>3, <2>1, <2>3 DEF HistoryOK
<1>6. CASE LoadTurns(w)
  <2>1. PICK j : j = [job[w] EXCEPT !.pc = "detect", !.context = TurnsOf(job[w].session)]
    OBVIOUS
  <2>2. job'[w] = j
    BY <1>2, <1>6, <2>1 DEF LoadTurns
  <2>3. /\ job'[w].pc = "detect" /\ job'[w].session = job[w].session
        /\ job'[w].context = TurnsOf(job[w].session)
    BY <1>2, <2>1, <2>2 DEF Jobs
  <2>4. SeesPrior(w)'
    BY <1>2, <2>3 DEF SeesPrior, TurnsOf
  <2>5. PriorOK(w)' /\ Forkless(w)' /\ MinedOK(w)'
    BY <2>3, <2>4 DEF PriorOK, Forkless, MinedOK, At
  <2> QED BY <1>3, <2>3, <2>5 DEF HistoryOK
<1> QED BY <1>5, <1>6

(* A failure that is swallowed before the context is there leaves none, and *)
(* the request is marked as hit.                                            *)
LEMMA LossHistory ==
    ASSUME HInv, NEW w \in Workers, HistoryNext, Swallowed(w),
           ResolveOutage(w) \/ ContextOutage(w)
    PROVE  HistoryOK(w)'
<1>1. Receive(w) \/ Work(w)
  BY DEF Work
<1>2. /\ HistoryOK(w) /\ job[w] \in Jobs /\ job \in [Workers -> Jobs]
      /\ job[w].pc \in {"resolve", "page", "turns"}
  BY DEF HInv, IInv, TypeOK, ResolveOutage, ContextOutage, At
<1>3. arrived'[w] \in 0..Len(turns') /\ (job'[w].pc # "idle" => lost'[w])
  BY <1>1, HistoryStep
<1>4. job'[w].pc = "detect" /\ job'[w].context = {}
  BY <1>2 DEF ResolveOutage, ContextOutage, Goto, HistoryOK, Jobs
<1>5. PriorOK(w)' /\ Forkless(w)' /\ MinedOK(w)'
  BY <1>3, <1>4 DEF PriorOK, Forkless, MinedOK, At
<1> QED BY <1>3, <1>4, <1>5 DEF HistoryOK

(* The turn a detection chooses was not corrected when the request arrived: *)
(* that correction would be later in the context.                           *)
LEMMA DetectHistory ==
    ASSUME HInv, NEW w \in Workers, HistoryNext, SkipDetection(w) \/ Detect(w)
    PROVE  HistoryOK(w)'
<1>1. Receive(w) \/ Work(w)
  BY DEF Work
<1>2. /\ IInv /\ HistoryOK(w) /\ Sound(job[w]) /\ job[w] \in Jobs
      /\ job[w].pc = "detect" /\ UNCHANGED <<sessions, turns, mined>>
  BY DEF HInv, IInv, TypeOK, JobsInv, SkipDetection, Detect, At
<1>3. CASE Reply(w, "clarified")
  BY <1>1, <1>2, <1>3, ReplyLocals, NothingLoaded
<1>4. CASE Pipeline(w, 0)
  <2>1. Forkless(w)'
    BY <1>2, <1>4, PipelineLocals DEF Forkless
  <2> QED BY <1>1, <1>2, <1>4, <2>1, PipelineLocals, ContextKept DEF Loaded
<1>5. ASSUME NEW i \in job[w].context, IsLatest(job[w].context, i), Pipeline(w, i)
      PROVE  HistoryOK(w)'
  <2>1. /\ job'[w].pc = "generate" /\ job'[w].previous = i
        /\ job'[w].session = job[w].session /\ job'[w].context = job[w].context
        /\ job'[w].tenant = job[w].tenant
    BY <1>2, <1>5, PipelineLocals
  <2>2. arrived'[w] = arrived[w]
    BY <1>1, <1>2, <2>1, HistoryStep
  <2>3. SeesPrior(w)
    BY <1>2, <1>5 DEF HistoryOK, PriorOK, Loaded
  <2>4. i \in 1..Len(turns) /\ turns[i].session = job[w].session
    BY <1>2, <1>5 DEF Sound
  <2>5. ASSUME NEW k \in 1..Len(turns), turns[k].supersedes = i PROVE k > arrived[w]
    <3>1. WellFormed(turns[k], k)
      BY <1>2 DEF IInv, LogInv
    <3>2. i < k /\ turns[k].session = job[w].session
      BY <2>4, <2>5, <3>1 DEF WellFormed
    <3>3. k \notin job[w].context
      BY <1>5, <2>4, <3>2 DEF IsLatest
    <3>4. ~(k <= arrived[w])
      BY <2>3, <3>2, <3>3 DEF SeesPrior, TurnsOf
    <3>5. arrived[w] \in Nat
      BY <1>2 DEF HistoryOK, IInv, TypeOK
    <3> QED BY <3>4, <3>5
  <2>6. Forkless(w)'
    BY <1>2, <2>1, <2>2, <2>5 DEF Forkless
  <2> QED BY <1>1, <1>2, <2>1, <2>6, ContextKept DEF Loaded
<1> QED BY <1>3, <1>4, <1>5, DetectEnds DEF SkipDetection

(* The reply to a correction: it is mined, or nothing was to be mined, or   *)
(* the mining failed.                                                       *)
LEMMA MineHistory ==
    ASSUME HInv, NEW w \in Workers, HistoryNext, Mine(w) \/ SkipMining(w)
    PROVE  HistoryOK(w)'
<1>1. Receive(w) \/ Work(w)
  BY DEF Work
<1>2. Answer(w) /\ IInv
  BY DEF HInv, Mine, SkipMining
<1>3. /\ job'[w].pc = "reply" /\ job'[w].history = job[w].history
      /\ job'[w].previous = job[w].previous /\ job'[w].channel = job[w].channel
  BY <1>2, AnswerLocals
<1>4. arrived'[w] \in 0..Len(turns') /\ (~lost'[w] => ~Swallowed(w))
  BY <1>1, <1>3, HistoryStep
<1>5. MinedOK(w)'
  <2>1. CASE Mine(w)
    <3>1. PICK i \in job[w].context : mined' = mined \cup {MinedRow(w, i)}
      BY <2>1 DEF Mine
    <3>2. MinedRow(w, i) \in mined' /\ MinedRow(w, i).history = job[w].history
      BY <3>1 DEF MinedRow
    <3> QED BY <1>3, <3>2 DEF MinedOK
  <2>2. CASE SkipMining(w)
    BY <1>3, <1>4, <2>2 DEF MinedOK, Swallowed, Mines
  <2> QED BY <2>1, <2>2
<1>6. PriorOK(w)' /\ Forkless(w)'
  BY <1>3 DEF PriorOK, Loaded, Forkless
<1> QED BY <1>3, <1>4, <1>5, <1>6 DEF HistoryOK

LEMMA HInvNext == HInv /\ [HistoryNext]_historyVars => HInv'
<1> SUFFICES ASSUME HInv, [HistoryNext]_historyVars PROVE HInv'
  OBVIOUS
<1>1. CASE UNCHANGED historyVars
  <2>1. IInv'
    BY <1>1, NextIInv DEF HInv, historyVars
  <2>2. ASSUME NEW v \in Workers PROVE HistoryOK(v)'
    <3>1. HistoryOK(v) /\ UNCHANGED <<sessions, turns, mined, job, arrived, lost>>
      BY <1>1 DEF HInv, historyVars, vars
    <3> QED BY <3>1 DEF HistoryOK, PriorOK, Loaded, Fits, SessionsOf, SeesPrior, TurnsOf,
              Forkless, MinedOK, At
  <2> QED BY <2>1, <2>2 DEF HInv
<1>2. CASE HistoryNext
  <2>1. IInv' /\ IInv
    BY <1>2, NextIInv DEF HInv, HistoryNext
  <2>2. PICK w \in Workers : Receive(w) \/ Work(w)
    BY <1>2 DEF HistoryNext, Next
  <2>3. /\ HistoryOK(w) /\ Sound(job[w]) /\ job[w] \in Jobs /\ job \in [Workers -> Jobs]
    BY DEF HInv, IInv, TypeOK, JobsInv
  <2>4. HistoryOK(w)'
    <3>1. CASE Receive(w)
      BY <1>2, <2>1, <2>2, <3>1, ReceiveLocals, NothingLoaded
    <3>2. CASE ResolveGiven(w) \/ CreateSession(w)
      <4>1. CASE Reply(w, "INVALID_SESSION")
        BY <1>2, <2>1, <2>2, <4>1, ReplyLocals, NothingLoaded
      <4>2. CASE ~Reply(w, "INVALID_SESSION")
        <5>1. job[w].context = {}
          BY <2>3, <3>2 DEF ResolveGiven, CreateSession, At, HistoryOK
        <5>2. CASE ResolveGiven(w)
          <6>1. job' = [job EXCEPT ![w].pc = "page", ![w].session = job[w].given, ![w].given = 0]
            BY <4>2, <5>2 DEF ResolveGiven
          <6>2. job'[w].pc = "page" /\ job'[w].context = {}
            BY <2>3, <5>1, <6>1 DEF Jobs
          <6> QED BY <1>2, <2>2, <6>2, NothingLoaded
        <5>3. CASE CreateSession(w)
          <6>1. job'[w].pc = "page" /\ job'[w].context = {}
            BY <2>3, <5>1, <5>3 DEF CreateSession, Jobs
          <6> QED BY <1>2, <2>2, <6>1, NothingLoaded
        <5> QED BY <3>2, <5>2, <5>3
      <4> QED BY <4>1, <4>2
    <3>3. CASE ResolveOutage(w)
      BY <1>2, <3>3, LossHistory DEF Swallowed
    <3>4. CASE LoadPage(w) \/ LoadTurns(w)
      BY <1>2, <3>4, LoadHistory
    <3>5. CASE ContextOutage(w)
      BY <1>2, <3>5, LoadHistory, LossHistory DEF Swallowed
    <3>6. CASE Greet(w) \/ ClassifierFails(w) \/ GenerateFails(w) \/ GenerateRaises(w)
      <4>1. \E status : Reply(w, status)
        BY <3>6 DEF Greet, ClassifierFails, GenerateFails, GenerateRaises
      <4> QED BY <1>2, <2>1, <2>2, <4>1, ReplyLocals, NothingLoaded
    <3>7. CASE SkipDetection(w) \/ Detect(w)
      BY <1>2, <3>7, DetectHistory
    <3>8. CASE Generate(w)
      <4>1. job[w].pc = "generate" /\ Goto(w, "record") /\ Forkless(w)
        BY <2>3, <3>8 DEF Generate, At, HistoryOK
      <4>2. Forkless(w)'
        BY <1>2, <2>1, <2>2, <4>1, GotoLocals, PriorKept
      <4> QED BY <1>2, <2>1, <2>2, <4>1, <4>2, GotoLocals, ContextKept DEF Loaded
    <3>9. CASE RecordTurn(w) \/ RecordNothing(w) \/ RecordOutage(w)
      <4>1. job'[w].pc = "mine"
        BY <2>3, <3>9 DEF RecordTurn, RecordNothing, RecordOutage, Goto, Jobs
      <4> QED BY <1>2, <2>2, <4>1, NothingLoaded
    <3>10. CASE Mine(w) \/ SkipMining(w)
      BY <1>2, <3>10, MineHistory
    <3>11. CASE Deliver(w)
      <4>1. job'[w].pc = "idle"
        BY <2>3, <3>11 DEF Deliver, NoJob
      <4> QED BY <1>2, <2>2, <4>1, NothingLoaded
    <3> QED BY <2>2, <3>1, <3>2, <3>3, <3>4, <3>5, <3>6, <3>7, <3>8, <3>9, <3>10, <3>11
            DEF Work
  <2>5. \A v \in Workers : HistoryOK(v)'
    BY <1>2, <2>2, <2>4, OthersHistory
  <2> QED BY <2>1, <2>5 DEF HInv
<1> QED BY <1>1, <1>2

LEMMA HInvAlways == HistorySpec => []HInv
BY HInvInit, HInvNext, PTL DEF HistorySpec

\* Unless the store failed under a request, or its tenant has outgrown the
\* page, the request works with every turn recorded before it arrived.
THEOREM PriorTurnsAreSeen == HistorySpec => []ContextSeesPriorTurns
<1>1. HInv => ContextSeesPriorTurns
  BY DEF HInv, HistoryOK, PriorOK, Loaded, Fits, SeesPrior, ContextSeesPriorTurns
<1> QED BY <1>1, HInvAlways, PTL

\* A turn is corrected twice by overlapping requests only.
THEOREM ForksOverlap == HistorySpec => []ForksOnlyByOverlap
<1>1. HInv => ForksOnlyByOverlap
  BY DEF HInv, HistoryOK, Forkless, ForksOnlyByOverlap, At
<1> QED BY <1>1, HInvAlways, PTL

\* A correction the sync route answered is in the review queue, unless a
\* store failed under the request.
THEOREM CorrectionsReachReview == HistorySpec => []CorrectionsAreMined
<1>1. HInv => CorrectionsAreMined
  BY DEF HInv, HistoryOK, MinedOK, CorrectionsAreMined
<1> QED BY <1>1, HInvAlways, PTL

-----------------------------------------------------------------------------
(* Requests make headway *)

(* How many steps a request standing at a step has at most before it.       *)
Ahead(step) ==
    CASE step = "idle"     -> 0
      [] step = "reply"    -> 1
      [] step = "mine"     -> 2
      [] step = "record"   -> 3
      [] step = "generate" -> 4
      [] step = "detect"   -> 5
      [] step = "turns"    -> 6
      [] step = "page"     -> 7
      [] step = "resolve"  -> 8

LEMMA AheadValues ==
    /\ Ahead("idle") = 0 /\ Ahead("reply") = 1 /\ Ahead("mine") = 2
    /\ Ahead("record") = 3 /\ Ahead("generate") = 4 /\ Ahead("detect") = 5
    /\ Ahead("turns") = 6 /\ Ahead("page") = 7 /\ Ahead("resolve") = 8
BY DEF Ahead

(* Every step of the program brings its request nearer to its end. *)
LEMMA WorkMakesHeadway ==
    ASSUME IInv, NEW w \in Workers, Work(w)
    PROVE  Ahead(job'[w].pc) < Ahead(job[w].pc)
<1>1. job \in [Workers -> Jobs] /\ job[w] \in Jobs
  BY DEF IInv, TypeOK
<1>2. NoJob.pc = "idle"
  BY DEF NoJob
<1>3. CASE ResolveGiven(w)
  <2>1. job[w].pc = "resolve"
    BY <1>3 DEF ResolveGiven, At
  <2>2. CASE OwnSession(w)
    <3>1. job'[w].pc = "page"
      BY <1>1, <1>3, <2>2 DEF ResolveGiven, Jobs
    <3> QED BY <2>1, <3>1, AheadValues
  <2>3. CASE ~OwnSession(w)
    <3>1. Reply(w, "INVALID_SESSION")
      BY <1>3, <2>3 DEF ResolveGiven
    <3> QED BY <2>1, <3>1, ReplyLocals, AheadValues
  <2> QED BY <2>2, <2>3
<1>4. CASE CreateSession(w)
  <2>1. job[w].pc = "resolve" /\ job'[w].pc = "page"
    BY <1>1, <1>4 DEF CreateSession, At, Jobs
  <2> QED BY <2>1, AheadValues
<1>5. CASE ResolveOutage(w)
  <2>1. job[w].pc = "resolve" /\ job'[w].pc = "detect"
    BY <1>1, <1>5 DEF ResolveOutage, At, Jobs
  <2> QED BY <2>1, AheadValues
<1>6. CASE LoadPage(w)
  <2>1. job[w].pc = "page" /\ job'[w].pc \in {"turns", "detect"}
    BY <1>6, GotoLocals DEF LoadPage, At
  <2> QED BY <2>1, AheadValues
<1>7. CASE LoadTurns(w)
  <2>1. job[w].pc = "turns" /\ job'[w].pc = "detect"
    BY <1>1, <1>7 DEF LoadTurns, At, Jobs
  <2> QED BY <2>1, AheadValues
<1>8. CASE ContextOutage(w)
  <2>1. job[w].pc \in {"page", "turns"} /\ job'[w].pc = "detect"
    BY <1>8, GotoLocals DEF ContextOutage, At
  <2> QED BY <2>1, AheadValues
<1>9. CASE Greet(w) \/ ClassifierFails(w)
  <2>1. job[w].pc = "detect" /\ job'[w].pc = "reply"
    BY <1>9, ReplyLocals DEF Greet, ClassifierFails, At
  <2> QED BY <2>1, AheadValues
<1>10. CASE SkipDetection(w) \/ Detect(w)
  <2>1. job[w].pc = "detect" /\ job'[w].pc \in {"generate", "reply"}
    BY <1>10, PipelineLocals, ReplyLocals, DetectEnds DEF SkipDetection, Detect, At
  <2> QED BY <2>1, AheadValues
<1>11. CASE Generate(w)
  <2>1. job[w].pc = "generate" /\ job'[w].pc = "record"
    BY <1>11, GotoLocals DEF Generate, At
  <2> QED BY <2>1, AheadValues
<1>12. CASE GenerateFails(w) \/ GenerateRaises(w)
  <2>1. job[w].pc = "generate" /\ job'[w].pc = "reply"
    BY <1>12, ReplyLocals DEF GenerateFails, GenerateRaises, At
  <2> QED BY <2>1, AheadValues
<1>13. CASE RecordTurn(w)
  <2>1. job[w].pc = "record" /\ job'[w].pc = "mine"
    BY <1>1, <1>13 DEF RecordTurn, At, Jobs
  <2> QED BY <2>1, AheadValues
<1>14. CASE RecordNothing(w) \/ RecordOutage(w)
  <2>1. job[w].pc = "record" /\ job'[w].pc = "mine"
    BY <1>14, GotoLocals DEF RecordNothing, RecordOutage, At
  <2> QED BY <2>1, AheadValues
<1>15. CASE Mine(w) \/ SkipMining(w)
  <2>1. job[w].pc = "mine" /\ job'[w].pc = "reply"
    BY <1>15, AnswerLocals DEF Mine, SkipMining, At
  <2> QED BY <2>1, AheadValues
<1>16. CASE Deliver(w)
  <2>1. job[w].pc = "reply" /\ job'[w].pc = "idle"
    BY <1>1, <1>2, <1>16 DEF Deliver, At
  <2> QED BY <2>1, AheadValues
<1> QED BY <1>3, <1>4, <1>5, <1>6, <1>7, <1>8, <1>9, <1>10, <1>11, <1>12, <1>13,
           <1>14, <1>15, <1>16 DEF Work

(* A request under way is left alone or brought nearer to its reply.        *)
Nearer(w) ==
    job[w].pc # "idle" =>
        job'[w] = job[w] \/ Ahead(job'[w].pc) < Ahead(job[w].pc)

\* A request is replied to within eight steps of its worker, from the
\* session to the delivery of the envelope: no step of run_recorded is ever
\* repeated, whatever the stores, the model or the other workers do.
THEOREM RequestsMakeHeadway == Spec => [][\A w \in Workers : Nearer(w)]_vars
<1>1. IInv /\ [Next]_vars => [\A w \in Workers : Nearer(w)]_vars
  <2> SUFFICES ASSUME IInv, Next, NEW w \in Workers, job[w].pc # "idle"
               PROVE  job'[w] = job[w] \/ Ahead(job'[w].pc) < Ahead(job[w].pc)
    BY DEF Nearer
  <2>1. PICK v \in Workers : Receive(v) \/ Work(v)
    BY DEF Next
  <2>2. CASE v # w
    BY <2>1, <2>2, OthersKeep
  <2>3. CASE v = w
    <3>1. Work(w)
      BY <2>1, <2>3 DEF Receive, At
    <3> QED BY <3>1, WorkMakesHeadway
  <2> QED BY <2>2, <2>3
<1> QED BY <1>1, SpecIInv, PTL DEF Spec
=============================================================================
