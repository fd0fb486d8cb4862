----------------------- MODULE OnboardingWizardProofs -----------------------
(***************************************************************************)
(* Proofs about OnboardingWizard: aliases lead to registered keys and      *)
(* approved candidates are known, for any number of admins, candidates,    *)
(* keys and aliases, wherever a promotion breaks off.                      *)
(***************************************************************************)
EXTENDS OnboardingWizard, TLAPS

-----------------------------------------------------------------------------
(* The inductive invariant *)

Rows == 1..Len(candidates)

(* What a promotion has done before the step it is at: the candidate is in  *)
(* the queue, then its key in the registry, then its alias taken.           *)
PromotionOK(request) ==
    /\ request.pc \in {"read", "registry", "alias", "mark"} => request.row \in Rows
    /\ request.pc \in {"alias", "mark"} => candidates[request.row].key \in registry
    /\ request.pc = "mark" =>
          aliases[candidates[request.row].alias] \in StagedWith(candidates[request.row].alias)

(* No alias leads to a key that nobody staged with it. *)
AliasesAreStaged == \A a \in Aliases : aliases[a] # NoKey => aliases[a] \in StagedWith(a)

IInv ==
    /\ TypeOK
    /\ AliasesAreRegistered
    /\ ApprovedIsKnown
    /\ AliasesAreStaged
    /\ \A m \in Admins : PromotionOK(admin[m])


LEMMA NoRequestType == NoRequest \in Requests /\ NoRequest.pc = "idle"
  BY WizardAssumption DEF NoRequest, Requests

LEMMA IInvInit == Init => IInv
<1> SUFFICES ASSUME Init PROVE IInv
  OBVIOUS
<1>1. TypeOK
  BY NoRequestType, WizardAssumption DEF Init, TypeOK
<1>2. AliasesAreRegistered /\ ApprovedIsKnown /\ AliasesAreStaged
  BY DEF Init, AliasesAreRegistered, ApprovedIsKnown, AliasesAreStaged
<1>3. \A m \in Admins : PromotionOK(admin[m])
  BY NoRequestType DEF Init, PromotionOK
<1> QED
  BY <1>1, <1>2, <1>3 DEF IInv

(* Type facts of a candidate of the queue. *)
LEMMA CandidateType ==
    ASSUME TypeOK, NEW i \in Rows
    PROVE  /\ candidates[i] \in Candidates
           /\ candidates[i].key \in Keys /\ candidates[i].alias \in Aliases
<1>1. candidates[i] \in Candidates
  BY DEF TypeOK, Rows
<1> QED
  BY <1>1 DEF Candidates

-----------------------------------------------------------------------------
(* Steps that leave the queue, the registry and the aliases alone *)

LEMMA RequestStep ==
    ASSUME IInv, NEW m \in Admins, NEW request \in Requests,
           admin' = [admin EXCEPT ![m] = request],
           UNCHANGED knowledge, probe' \in {"none", "full", "emptied"},
           PromotionOK(request)
    PROVE  IInv'
<1>1. UNCHANGED <<candidates, registry, aliases>>
  BY DEF knowledge
<1>2. TypeOK'
  BY <1>1 DEF IInv, TypeOK
<1>3. (AliasesAreRegistered /\ ApprovedIsKnown /\ AliasesAreStaged)'
  BY <1>1 DEF IInv, AliasesAreRegistered, ApprovedIsKnown, AliasesAreStaged, StagedWith
<1>4. ASSUME NEW n \in Admins PROVE PromotionOK(admin[n])'
  <2>1. PICK r \in {request, admin[n]} : admin'[n] = r /\ PromotionOK(r)
    BY DEF IInv, TypeOK
  <2> QED
    BY <1>1, <2>1 DEF PromotionOK, StagedWith, Rows
<1> QED
  BY <1>2, <1>3, <1>4 DEF IInv

(* Going to a step that asks nothing of the queue. *)
LEMMA GotoStep ==
    ASSUME IInv, NEW m \in Admins, NEW emptied \in BOOLEAN,
           NEW step \in {"stage", "keys", "events", "save", "reply"},
           NEW reply \in {"none", "staged", "promoted", "probed", "NOT_FOUND",
                          "STORE_UNAVAILABLE", "failed"},
           admin' = [admin EXCEPT ![m] = [admin[m] EXCEPT !.pc = step, !.emptied = emptied,
                                                          !.reply = reply]],
           UNCHANGED knowledge, probe' \in {"none", "full", "emptied"}
    PROVE  IInv'
<1>1. admin[m] \in Requests
  BY DEF IInv, TypeOK
<1>2. PICK request : request = [admin[m] EXCEPT !.pc = step, !.emptied = emptied, !.reply = reply]
  OBVIOUS
<1>3. request \in Requests /\ request.pc = step
  BY <1>1, <1>2 DEF Requests
<1>4. PromotionOK(request)
  BY <1>3 DEF PromotionOK
<1> QED
  BY <1>2, <1>3, <1>4, RequestStep

(* A reply without a write, from whatever step. *)
LEMMA ReplyStep ==
    ASSUME IInv, NEW m \in Admins,
           NEW reply \in {"staged", "probed", "NOT_FOUND", "STORE_UNAVAILABLE", "failed"},
           Reply(m, reply), UNCHANGED knowledge, probe' \in {"none", "full", "emptied"}
    PROVE  IInv'
<1>1. admin[m] \in Requests /\ admin \in [Admins -> Requests]
  BY DEF IInv, TypeOK
<1>2. PICK request : request = [admin[m] EXCEPT !.pc = "reply", !.reply = reply]
  OBVIOUS
<1>3. request \in Requests /\ request.pc = "reply"
  BY <1>1, <1>2 DEF Requests
<1>4. admin' = [admin EXCEPT ![m] = request]
  BY <1>1, <1>2 DEF Reply
<1>5. PromotionOK(request)
  BY <1>3 DEF PromotionOK
<1> QED
  BY <1>3, <1>4, <1>5, RequestStep

LEMMA StartStep ==
    ASSUME IInv, NEW m \in Admins,
           StartStage(m) \/ StartPromote(m) \/ StartProbe(m) \/ Deliver(m)
    PROVE  IInv'
<1>1. probe' \in {"none", "full", "emptied"} /\ UNCHANGED knowledge
  BY DEF StartStage, StartPromote, StartProbe, Deliver, IInv, TypeOK
<1>2. CASE StartStage(m)
  <2>1. PICK queue \in SUBSET (Keys \X Aliases) :
           admin' = [admin EXCEPT ![m] = [NoRequest EXCEPT !.pc = "stage", !.queue = queue]]
    BY <1>2 DEF StartStage
  <2>2. PICK request : request = [NoRequest EXCEPT !.pc = "stage", !.queue = queue]
    OBVIOUS
  <2>3. request \in Requests /\ request.pc = "stage"
    BY <2>2, NoRequestType DEF Requests
  <2>4. PromotionOK(request)
    BY <2>3 DEF PromotionOK
  <2> QED
    BY <1>1, <2>1, <2>2, <2>3, <2>4, RequestStep
<1>3. CASE StartPromote(m)
  <2>1. PICK i \in Rows :
           admin' = [admin EXCEPT ![m] = [NoRequest EXCEPT !.pc = "read", !.row = i]]
    BY <1>3 DEF StartPromote, Rows
  <2>2. i \in 0..MaxCandidates
    <3>1. Len(candidates) \in Nat /\ Len(candidates) <= MaxCandidates /\ MaxCandidates \in Nat
      BY WizardAssumption DEF IInv, TypeOK
    <3> QED
      BY <3>1 DEF Rows
  <2>3. PICK request : request = [NoRequest EXCEPT !.pc = "read", !.row = i]
    OBVIOUS
  <2>4. request \in Requests /\ request.pc = "read" /\ request.row = i
    BY <2>2, <2>3, NoRequestType DEF Requests
  <2>5. PromotionOK(request)
    BY <2>4 DEF PromotionOK
  <2> QED
    BY <1>1, <2>1, <2>3, <2>4, <2>5, RequestStep
<1>4. CASE StartProbe(m)
  <2>1. PICK request : request = [NoRequest EXCEPT !.pc = "keys"]
    OBVIOUS
  <2>2. request \in Requests /\ request.pc = "keys"
    BY <2>1, NoRequestType DEF Requests
  <2>3. PromotionOK(request)
    BY <2>2 DEF PromotionOK
  <2> QED
    BY <1>1, <1>4, <2>1, <2>2, <2>3, RequestStep DEF StartProbe
<1>5. CASE Deliver(m)
  <2>1. PromotionOK(NoRequest)
    BY NoRequestType DEF PromotionOK
  <2> QED
    BY <1>1, <1>5, <2>1, NoRequestType, RequestStep DEF Deliver
<1> QED
  BY <1>2, <1>3, <1>4, <1>5

LEMMA ProbeStep ==
    ASSUME IInv, NEW m \in Admins, ProbeKeys(m) \/ ProbeEvents(m) \/ SaveProbe(m)
    PROVE  IInv'
<1>1. admin \in [Admins -> Requests] /\ admin[m] \in Requests
  BY DEF IInv, TypeOK
<1>2. UNCHANGED knowledge /\ probe' \in {"none", "full", "emptied"}
  BY DEF ProbeKeys, ProbeEvents, SaveProbe, IInv, TypeOK
<1>3. CASE SaveProbe(m)
  BY <1>2, <1>3, ReplyStep DEF SaveProbe
<1>4. CASE ProbeKeys(m) \/ ProbeEvents(m)
  <2>1. PICK step \in {"events", "save"} : Introspect(m, step)
    BY <1>4 DEF ProbeKeys, ProbeEvents
  <2>2. CASE Reply(m, "STORE_UNAVAILABLE")
    BY <1>2, <2>2, ReplyStep
  <2>3. CASE ~Reply(m, "STORE_UNAVAILABLE")
    <3>1. PICK emptied \in {admin[m].emptied, TRUE} :
             admin' = [admin EXCEPT ![m].pc = step, ![m].emptied = emptied]
      BY <1>1, <2>1, <2>3 DEF Introspect, Goto, Requests
    <3>2. emptied \in BOOLEAN /\ admin[m].reply \in {"none", "staged", "promoted", "probed",
             "NOT_FOUND", "STORE_UNAVAILABLE", "failed"}
      BY <1>1, <3>1 DEF Requests
    <3>3. admin' = [admin EXCEPT ![m] = [admin[m] EXCEPT !.pc = step, !.emptied = emptied,
                                                         !.reply = admin[m].reply]]
      BY <1>1, <3>1 DEF Requests
    <3> QED
      BY <1>2, <3>2, <3>3, GotoStep
  <2> QED
    BY <2>2, <2>3
<1> QED
  BY <1>3, <1>4

-----------------------------------------------------------------------------
(* Staging *)

LEMMA StageStep ==
    ASSUME IInv, NEW m \in Admins, StageNext(m)
    PROVE  IInv'
<1>1. admin \in [Admins -> Requests] /\ admin[m] \in Requests /\ admin[m].pc = "stage"
  BY DEF IInv, TypeOK, StageNext, At
<1>2. PICK pair \in admin[m].queue :
         /\ IF Staged(pair[1], pair[2])
            THEN UNCHANGED candidates
            ELSE /\ Len(candidates) < MaxCandidates
                 /\ candidates' = Append(candidates,
                       [key |-> pair[1], alias |-> pair[2], status |-> "pending"])
         /\ admin' = [admin EXCEPT ![m].queue = @ \ {pair}]
  BY DEF StageNext
<1>3. PICK request : request = [admin[m] EXCEPT !.queue = admin[m].queue \ {pair}]
  OBVIOUS
<1>4. request \in Requests /\ request.pc = "stage"
  BY <1>1, <1>3 DEF Requests
<1>5. admin' = [admin EXCEPT ![m] = request] /\ UNCHANGED <<registry, aliases, probe>>
  BY <1>1, <1>2, <1>3 DEF StageNext
<1>6. PromotionOK(request)
  BY <1>4 DEF PromotionOK
<1>7. CASE UNCHANGED candidates
  BY <1>4, <1>5, <1>6, <1>7, RequestStep DEF knowledge, IInv, TypeOK
<1>8. CASE ~UNCHANGED candidates
  <2>1. PICK new : new = [key |-> pair[1], alias |-> pair[2], status |-> "pending"]
    OBVIOUS
  <2>2. new \in Candidates /\ new.status = "pending"
    BY <1>1, <2>1 DEF Requests, Candidates
  <2>3. /\ candidates \in Seq(Candidates) /\ Len(candidates) \in Nat /\ MaxCandidates \in Nat
        /\ Len(candidates) < MaxCandidates
        /\ candidates' = Append(candidates, new)
    BY <1>2, <1>8, <2>1, WizardAssumption DEF IInv, TypeOK
  <2>4. /\ Len(candidates') = Len(candidates) + 1
        /\ \A i \in Rows : candidates'[i] = candidates[i]
        /\ candidates'[Len(candidates) + 1] = new
        /\ candidates' \in Seq(Candidates) /\ Len(candidates') <= MaxCandidates
    BY <2>2, <2>3 DEF Rows
  <2>5. Rows \subseteq Rows' /\ \A i \in Rows' : i \in Rows \/ candidates'[i] = new
    BY <2>3, <2>4 DEF Rows
  <2>6. \A a \in Aliases : StagedWith(a) \subseteq StagedWith(a)'
    BY <2>4, <2>5 DEF StagedWith, Rows
  <2>7. TypeOK'
    BY <1>4, <1>5, <2>4 DEF IInv, TypeOK
  <2>8. AliasesAreRegistered' /\ AliasesAreStaged'
    BY <1>5, <2>6 DEF IInv, AliasesAreRegistered, AliasesAreStaged
  <2>9. ApprovedIsKnown'
    <3>1. ASSUME NEW i \in Rows', candidates'[i].status = "approved"
          PROVE  /\ candidates'[i].key \in registry'
                 /\ (aliases[candidates[i].alias] \in StagedWith(candidates[i].alias))'
      <4>1. i \in Rows /\ candidates'[i] = candidates[i]
        BY <2>2, <2>4, <2>5, <3>1
      <4>2. PICK a \in Aliases : a = candidates[i].alias
        BY <4>1, CandidateType DEF IInv
      <4>3. candidates[i].key \in registry /\ aliases[a] \in StagedWith(a)
        BY <3>1, <4>1, <4>2 DEF IInv, ApprovedIsKnown, Rows
      <4>4. aliases[a] \in StagedWith(a)'
        BY <2>6, <4>3
      <4> QED
        BY <1>5, <4>1, <4>2, <4>3, <4>4
    <3> QED
      BY <3>1 DEF ApprovedIsKnown, Rows
  <2>10. ASSUME NEW n \in Admins PROVE PromotionOK(admin[n])'
    <3>1. PICK r \in {request, admin[n]} : admin'[n] = r /\ PromotionOK(r)
      BY <1>1, <1>5, <1>6 DEF IInv
    <3>2. ASSUME r.row \in Rows
          PROVE  /\ r.row \in Rows' /\ candidates'[r.row] = candidates[r.row]
                 /\ StagedWith(candidates[r.row].alias) \subseteq StagedWith(candidates[r.row].alias)'
      BY <2>4, <2>5, <2>6, <3>2, CandidateType DEF IInv
    <3> QED
      BY <1>5, <3>1, <3>2 DEF PromotionOK
  <2> QED
    BY <2>7, <2>8, <2>9, <2>10 DEF IInv
<1> QED
  BY <1>7, <1>8

-----------------------------------------------------------------------------
(* Promotion *)

(* A promotion goes on, with more in the registry and the aliases than      *)
(* before, and the same queue.                                              *)
LEMMA PromoteStep ==
    ASSUME IInv, NEW m \in Admins, admin[m].pc \in {"read", "registry", "alias"},
           NEW step \in {"registry", "alias", "mark"}, Goto(m, step),
           UNCHANGED <<candidates, probe>>,
           registry \subseteq registry', registry' \subseteq Keys,
           aliases' \in [Aliases -> Keys \cup {NoKey}],
           \A a \in Aliases :
              \/ aliases'[a] = aliases[a]
              \/ aliases'[a] \in registry /\ aliases'[a] \in StagedWith(a),
           step \in {"alias", "mark"} => candidates[admin[m].row].key \in registry',
           \A a \in Aliases : aliases[a] # NoKey => aliases'[a] = aliases[a],
           step = "mark" => aliases'[candidates[admin[m].row].alias]
                              \in StagedWith(candidates[admin[m].row].alias)
    PROVE  IInv'
<1>1. admin \in [Admins -> Requests] /\ admin[m] \in Requests
  BY DEF IInv, TypeOK
<1>2. PICK request : request = [admin[m] EXCEPT !.pc = step]
  OBVIOUS
<1>3. request \in Requests /\ request.pc = step /\ request.row = admin[m].row
  BY <1>1, <1>2 DEF Requests
<1>4. admin' = [admin EXCEPT ![m] = request]
  BY <1>1, <1>2 DEF Goto
<1>5. TypeOK'
  BY <1>3, <1>4 DEF IInv, TypeOK
<1>6. \A a : StagedWith(a)' = StagedWith(a)
  BY DEF StagedWith
<1>7. \A a : NoKey \notin StagedWith(a)
  <2>1. \A i \in Rows : candidates[i].key # NoKey
    BY CandidateType, WizardAssumption DEF IInv
  <2> QED
    BY <2>1 DEF StagedWith, Rows
<1>8. AliasesAreRegistered' /\ AliasesAreStaged'
  BY <1>6 DEF IInv, AliasesAreRegistered, AliasesAreStaged
<1>9. ASSUME NEW i \in Rows,
             aliases[candidates[i].alias] \in StagedWith(candidates[i].alias)
      PROVE  aliases'[candidates[i].alias] \in StagedWith(candidates[i].alias)
  <2>1. candidates[i].alias \in Aliases
    BY CandidateType DEF IInv
  <2> QED
    BY <1>7, <1>9, <2>1
<1>10. ApprovedIsKnown'
  BY <1>6, <1>9 DEF IInv, ApprovedIsKnown, Rows
<1>11. ASSUME NEW n \in Admins PROVE PromotionOK(admin[n])'
  <2>1. CASE n = m
    <3>1. admin'[n] = request /\ PromotionOK(admin[m])
      BY <1>1, <1>4, <2>1 DEF IInv
    <3>2. request.row \in Rows
      BY <1>3, <3>1 DEF PromotionOK
    <3> QED
      BY <1>3, <1>6, <3>1, <3>2 DEF PromotionOK, Rows
  <2>2. CASE n # m
    <3>1. admin'[n] = admin[n] /\ PromotionOK(admin[n])
      BY <1>1, <1>4, <2>2 DEF IInv
    <3> QED
      BY <1>6, <1>9, <3>1 DEF PromotionOK, Rows
  <2> QED
    BY <2>1, <2>2
<1> QED
  BY <1>5, <1>8, <1>10, <1>11 DEF IInv

LEMMA ReadStep ==
    ASSUME IInv, NEW m \in Admins, ReadCandidate(m)
    PROVE  IInv'
<1>1. admin[m].pc = "read" /\ UNCHANGED knowledge /\ UNCHANGED <<candidates, registry, aliases, probe>>
  BY DEF ReadCandidate, At, knowledge
<1>2. registry \subseteq Keys /\ aliases \in [Aliases -> Keys \cup {NoKey}]
      /\ probe \in {"none", "full", "emptied"}
  BY DEF IInv, TypeOK
<1>3. CASE Reply(m, "NOT_FOUND")
  BY <1>1, <1>2, <1>3, ReplyStep
<1>4. CASE Goto(m, "registry")
  BY <1>1, <1>2, <1>4, PromoteStep
<1> QED
  BY <1>3, <1>4 DEF ReadCandidate, FirstWrite

LEMMA RegistryStep ==
    ASSUME IInv, NEW m \in Admins, WriteRegistry(m)
    PROVE  IInv'
<1>1. /\ admin[m].pc = "registry" /\ UNCHANGED <<candidates, aliases, probe>>
      /\ registry' = registry \cup {candidates[admin[m].row].key} /\ Goto(m, "alias")
  BY DEF WriteRegistry, At
<1>2. registry \subseteq Keys /\ aliases \in [Aliases -> Keys \cup {NoKey}]
  BY DEF IInv, TypeOK
<1>3. admin[m].row \in Rows
  BY <1>1 DEF IInv, PromotionOK
<1>4. candidates[admin[m].row].key \in Keys
  BY <1>3, CandidateType DEF IInv
<1> QED
  BY <1>1, <1>2, <1>4, PromoteStep

LEMMA AliasStep ==
    ASSUME IInv, NEW m \in Admins, WriteAlias(m)
    PROVE  IInv'
<1>1. PICK row : row = candidates[admin[m].row]
  OBVIOUS
<1>2. /\ admin[m].pc = "alias" /\ UNCHANGED <<candidates, registry, probe>>
      /\ aliases' = AliasAdded(row.alias, row.key) /\ Goto(m, "mark")
  BY <1>1 DEF WriteAlias, At
<1>3. admin[m].row \in Rows /\ row.key \in registry
  BY <1>1, <1>2 DEF IInv, PromotionOK
<1>4. row.key \in Keys /\ row.alias \in Aliases
  BY <1>1, <1>3, CandidateType DEF IInv
<1>5. registry \subseteq Keys /\ aliases \in [Aliases -> Keys \cup {NoKey}]
  BY DEF IInv, TypeOK
<1>6. row.key \in StagedWith(row.alias)
  BY <1>1, <1>3 DEF StagedWith, Rows
<1>7. /\ aliases' \in [Aliases -> Keys \cup {NoKey}]
      /\ \A a \in Aliases : a # row.alias => aliases'[a] = aliases[a]
      /\ aliases'[row.alias] = IF aliases[row.alias] = NoKey THEN row.key ELSE aliases[row.alias]
  BY <1>2, <1>4, <1>5 DEF AliasAdded
<1>8. aliases'[row.alias] \in StagedWith(row.alias)
  BY <1>4, <1>6, <1>7 DEF IInv, AliasesAreStaged
<1>9. \A a \in Aliases :
         \/ aliases'[a] = aliases[a]
         \/ aliases'[a] \in registry /\ aliases'[a] \in StagedWith(a)
  BY <1>3, <1>6, <1>7
<1>10. \A a \in Aliases : aliases[a] # NoKey => aliases'[a] = aliases[a]
  BY <1>7
<1>11. candidates[admin[m].row].key \in registry
       /\ aliases'[candidates[admin[m].row].alias] \in StagedWith(candidates[admin[m].row].alias)
  BY <1>1, <1>3, <1>8
<1> QED
  BY <1>2, <1>5, <1>7, <1>9, <1>10, <1>11, PromoteStep

LEMMA MarkStep ==
    ASSUME IInv, NEW m \in Admins, MarkCandidate(m)
    PROVE  IInv'
<1>1. admin \in [Admins -> Requests] /\ admin[m] \in Requests
  BY DEF IInv, TypeOK
<1>2. PICK id : id = admin[m].row
  OBVIOUS
<1>3. /\ admin[m].pc = "mark" /\ UNCHANGED <<registry, aliases, probe>>
      /\ candidates' = [candidates EXCEPT ![id].status = "approved"] /\ Reply(m, "promoted")
  BY <1>2 DEF MarkCandidate, Marked, At
<1>4. PICK request : request = [admin[m] EXCEPT !.pc = "reply", !.reply = "promoted"]
  OBVIOUS
<1>5. request \in Requests /\ request.pc = "reply" /\ admin' = [admin EXCEPT ![m] = request]
  BY <1>1, <1>3, <1>4 DEF Requests, Reply
<1>6. /\ id \in Rows /\ candidates[id].key \in registry
      /\ aliases[candidates[id].alias] \in StagedWith(candidates[id].alias)
  BY <1>2, <1>3 DEF IInv, PromotionOK
<1>7. /\ candidates \in Seq(Candidates) /\ Len(candidates) <= MaxCandidates
      /\ candidates[id] \in Candidates
  BY <1>6, CandidateType DEF IInv, TypeOK
<1>8. PICK marked \in Candidates : marked = [candidates[id] EXCEPT !.status = "approved"]
  BY <1>7 DEF Candidates
<1>9. candidates' = [candidates EXCEPT ![id] = marked]
  BY <1>3, <1>6, <1>7, <1>8 DEF Rows
<1>10. candidates' \in Seq(Candidates) /\ Len(candidates') = Len(candidates)
  BY <1>6, <1>7, <1>8, <1>9 DEF Rows
<1>11. \A i \in Rows : candidates'[i].key = candidates[i].key
                       /\ candidates'[i].alias = candidates[i].alias
  <2>1. marked.key = candidates[id].key /\ marked.alias = candidates[id].alias
    BY <1>7, <1>8 DEF Candidates
  <2>2. \A i \in Rows : candidates'[i] = IF i = id THEN marked ELSE candidates[i]
    BY <1>7, <1>9 DEF Rows
  <2> QED
    BY <2>1, <2>2
<1>12. \A i \in Rows : i # id => candidates'[i] = candidates[i]
  BY <1>7, <1>9 DEF Rows
<1>13. Rows' = Rows /\ \A a : StagedWith(a)' = StagedWith(a)
  BY <1>10, <1>11 DEF StagedWith, Rows
<1>14. TypeOK'
  BY <1>3, <1>5, <1>7, <1>10 DEF IInv, TypeOK
<1>15. AliasesAreRegistered' /\ AliasesAreStaged'
  BY <1>3, <1>13 DEF IInv, AliasesAreRegistered, AliasesAreStaged
<1>16. ApprovedIsKnown'
  <2>1. ASSUME NEW i \in Rows, candidates'[i].status = "approved"
        PROVE  /\ candidates[i].key \in registry
               /\ aliases[candidates[i].alias] \in StagedWith(candidates[i].alias)
    BY <1>6, <1>12, <2>1 DEF IInv, ApprovedIsKnown, Rows
  <2> QED
    BY <1>3, <1>11, <1>13, <2>1 DEF ApprovedIsKnown, Rows
<1>17. ASSUME NEW n \in Admins PROVE PromotionOK(admin[n])'
  <2>1. PICK r \in {request, admin[n]} : admin'[n] = r /\ PromotionOK(r)
    <3>1. PromotionOK(request)
      BY <1>5 DEF PromotionOK
    <3> QED
      BY <1>1, <1>5, <3>1 DEF IInv
  <2> QED
    BY <1>3, <1>11, <1>13, <2>1 DEF PromotionOK
<1> QED
  BY <1>14, <1>15, <1>16, <1>17 DEF IInv

-----------------------------------------------------------------------------

LEMMA UnchangedStep ==
    ASSUME IInv, UNCHANGED vars
    PROVE  IInv'
<1>1. UNCHANGED <<candidates, registry, aliases, probe, admin>>
  BY DEF vars, knowledge
<1>2. TypeOK'
  BY <1>1 DEF IInv, TypeOK
<1>3. (AliasesAreRegistered /\ ApprovedIsKnown /\ AliasesAreStaged)'
  BY <1>1 DEF IInv, AliasesAreRegistered, ApprovedIsKnown, AliasesAreStaged, StagedWith
<1>4. (\A m \in Admins : PromotionOK(admin[m]))'
  BY <1>1 DEF IInv, PromotionOK, StagedWith, Rows
<1> QED
  BY <1>2, <1>3, <1>4 DEF IInv

LEMMA IInvNext == IInv /\ [Next]_vars => IInv'
<1> SUFFICES ASSUME IInv, [Next]_vars PROVE IInv'
  OBVIOUS
<1>1. CASE UNCHANGED vars
  BY <1>1, UnchangedStep
<1>2. ASSUME NEW m \in Admins, StartStage(m) \/ StartPromote(m) \/ StartProbe(m) \/ Work(m)
      PROVE  IInv'
  <2>1. CASE StartStage(m) \/ StartPromote(m) \/ StartProbe(m) \/ Deliver(m)
    BY <2>1, StartStep
  <2>2. CASE ProbeKeys(m) \/ ProbeEvents(m) \/ SaveProbe(m)
    BY <2>2, ProbeStep
  <2>3. CASE StageNext(m)
    BY <2>3, StageStep
  <2>4. CASE StageEnds(m) \/ Fails(m)
    BY <2>4, ReplyStep DEF StageEnds, Fails, IInv, TypeOK
  <2>5. CASE ReadCandidate(m)
    BY <2>5, ReadStep
  <2>6. CASE WriteRegistry(m)
    BY <2>6, RegistryStep
  <2>7. CASE WriteAlias(m)
    BY <2>7, AliasStep
  <2>8. CASE MarkCandidate(m)
    BY <2>8, MarkStep
  <2> QED
    BY <1>2, <2>1, <2>2, <2>3, <2>4, <2>5, <2>6, <2>7, <2>8 DEF Work
<1> QED
  BY <1>1, <1>2 DEF Next

LEMMA IInvAlways == Spec => []IInv
<1> QED
  BY IInvInit, IInvNext, PTL DEF Spec

(* Staging and promotion keep the types of the queue, the registry, the     *)
(* aliases and the requests (onboarding/wizard.py).                         *)
THEOREM WizardTypeCorrect == Spec => []TypeOK
<1>1. IInv => TypeOK
  BY DEF IInv
<1> QED
  BY <1>1, IInvAlways, PTL

(* An alias never leads to a key that is missing from the registry: the     *)
(* registry row of promote_candidate is committed before the alias row.     *)
THEOREM AliasesLeadToKeys == Spec => []AliasesAreRegistered
<1>1. IInv => AliasesAreRegistered
  BY DEF IInv
<1> QED
  BY <1>1, IInvAlways, PTL

(* What the review queue calls approved is known: promote_candidate marks   *)
(* the candidate last.                                                      *)
THEOREM ApprovalsAreKnown == Spec => []ApprovedIsKnown
<1>1. IInv => ApprovedIsKnown
  BY DEF IInv
<1> QED
  BY <1>1, IInvAlways, PTL
=============================================================================
