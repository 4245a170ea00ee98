---------------------------- MODULE TenantsProofs ----------------------------
(***************************************************************************)
(* Theorems of Tenants, for every set of ids, of subdomains and of request *)
(* slots.                                                                  *)
(*                                                                         *)
(* The inductive invariant is IInv.  BarredGetNothingDone is not inductive *)
(* alone: that a barred request is refused when it comes to authenticate   *)
(* depends on its caller's tenant being out of service still, which is     *)
(* what BarredInactive adds.                                               *)
(***************************************************************************)
EXTENDS Tenants, TLAPS

\* A barred request is over or waits for a check that it cannot pass.
BarredInactive ==
  \A r \in barred :
    /\ req[r].phase \in {"auth", "done"}
    /\ req[r].phase = "auth" => ~Active(req[r].caller)

IInv ==
  /\ TypeOK
  /\ StatusMatchesActive
  /\ SubdomainsUnique
  /\ BarredInactive

-----------------------------------------------------------------------------
(* Values                                                                  *)

\* There is a subdomain to stand for all that does not matter.
LEMMA AnySubdomainType == AnySubdomain \in Subdomains
BY TenantsAssumption DEF TenantsAssumption, AnySubdomain

\* Rows and requests that the actions make are of the right types.
LEMMA ValueTypes ==
  /\ \A p \in Presence, s \in Subdomains : ARow(p, s) \in Row
  /\ \A o \in Op, c, t \in Ids, s \in Subdomains : NewReq(o, c, t, s) \in Req
  /\ \A a \in {"ok", "refused", "rejected", "error"} :
       /\ Answered(a) \in Req
       /\ Answered(a).phase = "done"
       /\ Answered(a).answer = a
<1>1. \A p \in Presence, s \in Subdomains : ARow(p, s) \in Row
  BY DEF ARow, Row
<1>2. \A o \in Op, c, t \in Ids, s \in Subdomains : NewReq(o, c, t, s) \in Req
  BY DEF NewReq, Req, Phase
<1>3. ASSUME NEW a \in {"ok", "refused", "rejected", "error"}
      PROVE  /\ Answered(a) \in Req
             /\ Answered(a).phase = "done"
             /\ Answered(a).answer = a
  BY AnySubdomainType, TenantsAssumption
     DEF TenantsAssumption, Answered, NewReq, Req, Op, Phase
<1> QED  BY <1>1, <1>2, <1>3

\* A toggled row has matching columns, and the subdomain it had.
LEMMA ToggledRow ==
  ASSUME NEW b \in Row, NEW seen \in BOOLEAN
  PROVE  /\ Toggled(b, seen) \in Row
         /\ Toggled(b, seen).isActive <=> Toggled(b, seen).status = "active"
         /\ Toggled(b, seen).presence = b.presence
         /\ Toggled(b, seen).subdomain = b.subdomain
<1> DEFINE c == [b EXCEPT !.isActive = ~seen]
           s == IF seen THEN "inactive" ELSE "active"
           d == [c EXCEPT !.status = s]
<1>1. /\ c \in Row /\ c.isActive = ~seen
      /\ c.presence = b.presence /\ c.subdomain = b.subdomain
  BY DEF Row
<1>2. s \in {"active", "inactive"} /\ (~seen <=> s = "active")
  OBVIOUS
<1>3. /\ d \in Row /\ d.isActive = c.isActive /\ d.status = s
      /\ d.presence = c.presence /\ d.subdomain = c.subdomain
  <2> HIDE DEF c, s
  <2> QED  BY <1>1, <1>2 DEF Row
<1>4. Toggled(b, seen) = d
  BY DEF Toggled
<1> HIDE DEF c, d, s
<1> QED  BY <1>1, <1>2, <1>3, <1>4

-----------------------------------------------------------------------------
(* Steps                                                                   *)

\* Continue() replaces one request.
LEMMA ContinueOne ==
  ASSUME TypeOK, NEW r \in Requests, NEW q \in Req, Continue(r, q)
  PROVE  /\ req' \in [Requests -> Req]
         /\ req'[r] = q
         /\ \A p \in Requests : p # r => req'[p] = req[p]
BY DEF TypeOK, Continue

\* A step that writes nothing keeps the invariant, if a barred request ends.
LEMMA QuietStep ==
  ASSUME IInv, NEW r \in Requests, NEW q \in Req, Continue(r, q), Unwritten,
         r \in barred => q.phase = "done"
  PROVE  IInv'
<1>1. /\ req' \in [Requests -> Req]
      /\ req'[r] = q
      /\ \A p \in Requests : p # r => req'[p] = req[p]
  BY ContinueOne DEF IInv
<1>2. TypeOK'
  BY <1>1 DEF IInv, TypeOK, Unwritten
<1>3. StatusMatchesActive' /\ SubdomainsUnique'
  BY DEF IInv, Unwritten, StatusMatchesActive, SubdomainsUnique, Here
<1>4. BarredInactive'
  <2> SUFFICES ASSUME NEW p \in barred
               PROVE  /\ req'[p].phase \in {"auth", "done"}
                      /\ (req[p].phase = "auth" => ~Active(req[p].caller))'
    BY DEF BarredInactive, Unwritten, Active, Here
  <2>1. p \in Requests
    BY DEF IInv, TypeOK
  <2>2. CASE p = r
    BY <1>1, <2>2
  <2>3. CASE p # r
    BY <1>1, <2>1, <2>3 DEF IInv, BarredInactive, Unwritten, Active, Here
  <2> QED  BY <2>2, <2>3
<1> QED  BY <1>2, <1>3, <1>4 DEF IInv

\* A request that is not barred keeps the invariant when it writes a row with
\* matching columns and a subdomain that no other row has.
LEMMA WritingStep ==
  ASSUME IInv, NEW r \in Requests, NEW q \in Req, Continue(r, q),
         NEW x \in Ids, NEW b \in Row, NEW failed \in SUBSET {r},
         WriteRow(r, x, b, failed),
         r \notin barred,
         b.isActive <=> b.status = "active",
         b.presence = "here" =>
           \A y \in Ids : y # x /\ Here(y) => row[y].subdomain # b.subdomain
  PROVE  IInv'
<1>1. /\ req' \in [Requests -> Req]
      /\ req'[r] = q
      /\ \A p \in Requests : p # r => req'[p] = req[p]
  BY ContinueOne DEF IInv
<1>2. /\ row' \in [Ids -> Row]
      /\ row'[x] = b
      /\ \A y \in Ids : y # x => row'[y] = row[y]
  BY DEF IInv, TypeOK, WriteRow
<1>3. TypeOK'
  BY <1>1, <1>2 DEF IInv, TypeOK, WriteRow
<1>4. StatusMatchesActive'
  BY <1>2 DEF IInv, StatusMatchesActive
<1>5. SubdomainsUnique'
  <2> SUFFICES ASSUME NEW y \in Ids, NEW z \in Ids, Here(y)', Here(z)',
                      row'[y].subdomain = row'[z].subdomain
               PROVE  y = z
    BY DEF SubdomainsUnique
  <2>1. CASE y = x /\ z # x
    BY <1>2, <2>1 DEF Here
  <2>2. CASE z = x /\ y # x
    BY <1>2, <2>2 DEF Here
  <2>3. CASE y # x /\ z # x
    BY <1>2, <2>3 DEF IInv, SubdomainsUnique, Here
  <2> QED  BY <2>1, <2>2, <2>3
<1>6. BarredInactive'
  <2> SUFFICES ASSUME NEW p \in barred'
               PROVE  /\ req'[p].phase \in {"auth", "done"}
                      /\ (req[p].phase = "auth" => ~Active(req[p].caller))'
    BY DEF BarredInactive, Active, Here
  <2>1. /\ p \in barred /\ p \in Requests /\ p # r
        /\ ~(b.presence = "here" /\ b.isActive /\ req[p].caller = x)
    BY DEF WriteRow, IInv, TypeOK
  <2>2. /\ req'[p] = req[p]
        /\ req[p].phase \in {"auth", "done"}
        /\ req[p].phase = "auth" => ~Active(req[p].caller)
        /\ req[p].caller \in Ids
    BY <1>1, <2>1 DEF IInv, BarredInactive, TypeOK, Req
  <2>3. CASE req[p].caller = x
    BY <1>2, <2>1, <2>2, <2>3 DEF Active, Here
  <2>4. CASE req[p].caller # x
    BY <1>2, <2>2, <2>4 DEF Active, Here
  <2> QED  BY <2>3, <2>4
<1> QED  BY <1>3, <1>4, <1>5, <1>6 DEF IInv

\* A request in one of these phases has passed its check.
LEMMA PassedNotBarred ==
  ASSUME IInv, NEW r \in Requests, req[r].phase \in {"read", "write", "reread"}
  PROVE  r \notin barred
BY DEF IInv, BarredInactive

\* A request that moves on to another phase is of the right type.
LEMMA PhaseMoves ==
  ASSUME TypeOK, NEW r \in Requests, NEW ph \in Phase
  PROVE  /\ [req[r] EXCEPT !.phase = ph] \in Req
         /\ [req[r] EXCEPT !.phase = ph].phase = ph
         /\ req[r] \in Req /\ req[r].target \in Ids /\ req[r].caller \in Ids
         /\ req[r].sub \in Subdomains /\ req[r].seen \in BOOLEAN
BY DEF TypeOK, Req

-----------------------------------------------------------------------------
(* Requests                                                                *)

\* The seeded tenant and idle slots satisfy the invariant.
LEMMA InitOK == Init => IInv
<1> SUFFICES ASSUME Init PROVE IInv
  OBVIOUS
<1>1. AnySubdomain \in Subdomains
  BY AnySubdomainType
<1>2. TypeOK
  BY <1>1, ValueTypes DEF Init, TypeOK, Presence
<1>3. StatusMatchesActive
  BY DEF Init, StatusMatchesActive, ARow
<1>4. SubdomainsUnique
  BY DEF Init, SubdomainsUnique, Here, ARow
<1>5. BarredInactive
  BY DEF Init, BarredInactive
<1> QED  BY <1>2, <1>3, <1>4, <1>5 DEF IInv

\* An arriving request is barred exactly if its tenant is out of service.
LEMMA ArriveOK ==
  ASSUME IInv, NEW r \in Requests, NEW op \in Op, NEW caller \in Ids,
         NEW target \in Ids, NEW sub \in Subdomains,
         Arrive(r, op, caller, target, sub)
  PROVE  IInv'
<1> DEFINE q == NewReq(op, caller, target, sub)
<1>1. q \in Req /\ q.phase = "auth" /\ q.caller = caller
  BY ValueTypes DEF NewReq
<1>2. /\ req' \in [Requests -> Req]
      /\ req'[r] = q
      /\ \A p \in Requests : p # r => req'[p] = req[p]
  BY <1>1, ContinueOne DEF IInv, Arrive
<1>3. TypeOK'
  BY <1>2 DEF IInv, TypeOK, Arrive
<1>4. StatusMatchesActive' /\ SubdomainsUnique'
  BY DEF IInv, Arrive, StatusMatchesActive, SubdomainsUnique, Here
<1>5. BarredInactive'
  <2> SUFFICES ASSUME NEW p \in barred'
               PROVE  /\ req'[p].phase \in {"auth", "done"}
                      /\ (req[p].phase = "auth" => ~Active(req[p].caller))'
    BY DEF BarredInactive
  <2> HIDE DEF q
  <2>1. p \in Requests /\ row' = row
    BY <1>3 DEF TypeOK, Arrive
  <2>2. CASE p = r
    BY <1>1, <1>2, <2>1, <2>2 DEF Arrive, Active, Here
  <2>3. CASE p # r
    BY <1>2, <2>1, <2>3 DEF IInv, BarredInactive, Arrive, Active, Here
  <2> QED  BY <2>2, <2>3
<1> QED  BY <1>3, <1>4, <1>5 DEF IInv

\* A barred request is refused here.
LEMMA AuthenticateOK ==
  ASSUME IInv, NEW r \in Requests, Authenticate(r)
  PROVE  IInv'
<1>1. CASE ~Admissible(req[r].caller)
  BY <1>1, ValueTypes, QuietStep DEF Authenticate, Answer
<1>2. CASE Admissible(req[r].caller)
  <2> DEFINE ph == IF req[r].op = "login" THEN "write" ELSE "read"
             q == [req[r] EXCEPT !.phase = ph, !.caller = Seeded]
  <2>1. q \in Req
    <3>1. ph \in Phase
      BY DEF Phase
    <3>2. req[r] \in Req
      BY DEF IInv, TypeOK
    <3> HIDE DEF ph
    <3> QED  BY <3>1, <3>2, TenantsAssumption DEF TenantsAssumption, Req
  <2>2. r \notin barred
    BY <1>2 DEF IInv, BarredInactive, Authenticate, Admissible
  <2>3. Continue(r, q) /\ Unwritten
    BY <1>2 DEF Authenticate
  <2> HIDE DEF q
  <2> QED  BY <2>1, <2>2, <2>3, QuietStep
<1> QED  BY <1>1, <1>2

\* The checks write nothing.
LEMMA ChecksOK ==
  ASSUME IInv, NEW r \in Requests, ReadForCreate(r) \/ Read(r) \/ Reread(r)
  PROVE  IInv'
<1>1. r \notin barred
  BY PassedNotBarred DEF ReadForCreate, Read, Reread
<1>2. req[r] \in Req /\ Unwritten
  BY DEF IInv, TypeOK, ReadForCreate, Read, Reread
<1>3. \E q \in Req : Continue(r, q)
  <2>1. CASE ReadForCreate(r)
    BY <2>1, ValueTypes, PhaseMoves DEF ReadForCreate, Answer, IInv, Phase
  <2>2. CASE Read(r)
    <3> DEFINE seen == req[r].op = "toggle" /\ row[req[r].target].isActive
               u == [req[r] EXCEPT !.phase = "write"]
               q == [u EXCEPT !.seen = seen]
    <3>1. CASE ~Here(req[r].target)
      BY <2>2, <3>1, ValueTypes DEF Read, Answer
    <3>2. CASE Here(req[r].target)
      <4>1. u \in Req /\ row[req[r].target] \in Row
        BY PhaseMoves DEF IInv, TypeOK, Phase
      <4>2. seen \in BOOLEAN
        BY <4>1 DEF Row
      <4>3. q \in Req
        <5> HIDE DEF u, seen
        <5> QED  BY <4>1, <4>2 DEF Req
      <4>4. Continue(r, q)
        BY <2>2, <3>2 DEF Read
      <4> QED  BY <4>3, <4>4
    <3> QED  BY <3>1, <3>2
  <2>3. CASE Reread(r)
    BY <2>3, ValueTypes DEF Reread, Answer
  <2> QED  BY <2>1, <2>2, <2>3
<1> QED  BY <1>1, <1>2, <1>3, QuietStep

\* A statement that finds no row writes nothing.
LEMMA NoSuchRowOK ==
  ASSUME IInv, NEW r \in Requests, NoSuchRow(r), req[r].phase = "write"
  PROVE  IInv'
BY ValueTypes, QuietStep DEF NoSuchRow, Answer

\* create() inserts a row only for a subdomain that no row has.
LEMMA InsertOK ==
  ASSUME IInv, NEW r \in Requests, Insert(r)
  PROVE  IInv'
<1>1. r \notin barred
  BY PassedNotBarred DEF Insert, Writing
<1>2. CASE ViolatesUnique(req[r].sub)
  BY <1>1, <1>2, ValueTypes, QuietStep DEF Insert, Answer
<1>3. CASE ~ViolatesUnique(req[r].sub)
  <2> DEFINE b == ARow("here", req[r].sub)
  <2>1. PICK x \in Ids :
          /\ WriteRow(r, x, b, {})
          /\ Continue(r, [req[r] EXCEPT !.phase = "reread", !.target = x])
    BY <1>3 DEF Insert
  <2> DEFINE q == [req[r] EXCEPT !.phase = "reread", !.target = x]
  <2>2. q \in Req
    BY DEF IInv, TypeOK, Req, Phase
  <2>3. /\ b \in Row /\ b.isActive /\ b.status = "active"
        /\ b.subdomain = req[r].sub
    BY ValueTypes, PhaseMoves DEF IInv, ARow, Presence, Phase
  <2>4. \A y \in Ids : y # x /\ Here(y) => row[y].subdomain # b.subdomain
    BY <1>3, <2>3 DEF ViolatesUnique
  <2> HIDE DEF b, q
  <2> QED  BY <1>1, <2>1, <2>2, <2>3, <2>4, WritingStep DEF q
<1> QED  BY <1>2, <1>3

\* update() leaves the modelled columns alone.
LEMMA UpdateOK ==
  ASSUME IInv, NEW r \in Requests, Update(r)
  PROVE  IInv'
<1>1. r \notin barred
  BY PassedNotBarred DEF Update, Writing
<1>2. CASE NoSuchRow(r)
  BY <1>2, NoSuchRowOK DEF Update, Writing
<1>3. CASE ~NoSuchRow(r)
  BY <1>1, <1>3, PhaseMoves, QuietStep DEF Update, IInv, Phase
<1> QED  BY <1>2, <1>3

\* A toggle writes both columns from the one value it has read.
LEMMA ToggleOK ==
  ASSUME IInv, NEW r \in Requests, Toggle(r)
  PROVE  IInv'
<1>1. r \notin barred
  BY PassedNotBarred DEF Toggle, Writing
<1>2. CASE NoSuchRow(r)
  BY <1>2, NoSuchRowOK DEF Toggle, Writing
<1>3. CASE ~NoSuchRow(r)
  <2> DEFINE x == req[r].target
             b == Toggled(row[x], req[r].seen)
  <2>1. x \in Ids /\ row[x] \in Row /\ req[r].seen \in BOOLEAN
    BY DEF IInv, TypeOK, Req
  <2>2. Here(x) /\ WriteRow(r, x, b, {}) /\ Answer(r, "ok")
    BY <1>3 DEF Toggle
  <2>3. /\ b \in Row /\ (b.isActive <=> b.status = "active")
        /\ b.presence = row[x].presence /\ b.subdomain = row[x].subdomain
    BY <2>1, ToggledRow
  <2>4. \A y \in Ids : y # x /\ Here(y) => row[y].subdomain # b.subdomain
    BY <2>1, <2>2, <2>3 DEF IInv, SubdomainsUnique
  <2> HIDE DEF b, x
  <2> QED  BY <1>1, <2>1, <2>2, <2>3, <2>4, ValueTypes, WritingStep DEF Answer
<1> QED  BY <1>2, <1>3

\* delete() takes a row out of service.
LEMMA DeleteOK ==
  ASSUME IInv, NEW r \in Requests, Delete(r)
  PROVE  IInv'
<1>1. r \notin barred
  BY PassedNotBarred DEF Delete, Writing
<1>2. CASE NoSuchRow(r)
  BY <1>2, NoSuchRowOK DEF Delete, Writing
<1>3. CASE ~NoSuchRow(r)
  <2> DEFINE x == req[r].target
             b == ARow("deleted", AnySubdomain)
  <2>1. x \in Ids
    BY DEF IInv, TypeOK, Req
  <2>2. WriteRow(r, x, b, {}) /\ Answer(r, "ok")
    BY <1>3 DEF Delete
  <2>3. b \in Row /\ b.isActive /\ b.status = "active" /\ b.presence # "here"
    BY AnySubdomainType, ValueTypes DEF ARow, Presence
  <2> HIDE DEF b, x
  <2> QED  BY <1>1, <2>1, <2>2, <2>3, ValueTypes, WritingStep DEF Answer
<1> QED  BY <1>2, <1>3

\* login() writes no row of this table.
LEMMA LoginOK ==
  ASSUME IInv, NEW r \in Requests, Login(r)
  PROVE  IInv'
<1>1. r \notin barred
  BY PassedNotBarred DEF Login, Writing
<1>2. CASE NoSuchRow(r)
  BY <1>2, NoSuchRowOK DEF Login, Writing
<1>3. CASE ~NoSuchRow(r)
  BY <1>1, <1>3, ValueTypes, QuietStep DEF Login, Answer
<1> QED  BY <1>2, <1>3

\* A failing database writes nothing and ends the request.
LEMMA DatabaseFailsOK ==
  ASSUME IInv, NEW r \in Requests, DatabaseFails(r)
  PROVE  IInv'
<1> DEFINE a == IF req[r].phase = "auth" /\ req[r].op # "login"
                THEN "refused" ELSE "error"
           q == Answered(a)
<1>1. q \in Req /\ q.phase = "done"
  BY ValueTypes
<1>2. Continue(r, q)
  BY DEF DatabaseFails, Answer
<1> HIDE DEF q
<1>3. /\ req' \in [Requests -> Req]
      /\ req'[r] = q
      /\ \A p \in Requests : p # r => req'[p] = req[p]
  BY <1>1, <1>2, ContinueOne DEF IInv
<1>4. TypeOK'
  BY <1>3 DEF IInv, TypeOK, DatabaseFails
<1>5. StatusMatchesActive' /\ SubdomainsUnique'
  BY DEF IInv, DatabaseFails, StatusMatchesActive, SubdomainsUnique, Here
<1>6. BarredInactive'
  <2> SUFFICES ASSUME NEW p \in barred'
               PROVE  /\ req'[p].phase \in {"auth", "done"}
                      /\ (req[p].phase = "auth" => ~Active(req[p].caller))'
    BY DEF BarredInactive
  <2>1. p \in Requests /\ p \in barred /\ row' = row
    BY <1>4 DEF TypeOK, DatabaseFails
  <2>2. CASE p = r
    BY <1>1, <1>3, <2>2
  <2>3. CASE p # r
    BY <1>3, <2>1, <2>3 DEF IInv, BarredInactive, Active, Here
  <2> QED  BY <2>2, <2>3
<1> QED  BY <1>4, <1>5, <1>6 DEF IInv

-----------------------------------------------------------------------------
(* Theorems                                                                *)

\* A statement whose answer is lost has written what it would have written.
LEMMA AnswerLostOK ==
  ASSUME IInv, NEW r \in Requests, AnswerLost(r)
  PROVE  IInv'
<1>1. r \notin barred
  BY PassedNotBarred DEF AnswerLost, Writing
<1>2. /\ req[r].target \in Ids /\ row[req[r].target] \in Row
      /\ req[r].seen \in BOOLEAN /\ req[r].sub \in Subdomains
  BY DEF IInv, TypeOK, Req
<1>3. \E x \in Ids, b \in Row :
        /\ WriteRow(r, x, b, {r})
        /\ b.isActive <=> b.status = "active"
        /\ b.presence = "here" =>
             \A y \in Ids : y # x /\ Here(y) => row[y].subdomain # b.subdomain
  <2>1. CASE Writing(r, "create")
    <3> DEFINE b == ARow("here", req[r].sub)
    <3>1. /\ b \in Row /\ b.isActive /\ b.status = "active"
          /\ b.subdomain = req[r].sub
      BY <1>2, ValueTypes DEF ARow, Presence
    <3>2. PICK x \in Ids : WriteRow(r, x, b, {r})
      BY <2>1 DEF AnswerLost, Writing
    <3>3. \A y \in Ids : Here(y) => row[y].subdomain # b.subdomain
      BY <2>1, <3>1 DEF AnswerLost, Writing, ViolatesUnique
    <3> HIDE DEF b
    <3> QED  BY <3>1, <3>2, <3>3
  <2>2. CASE Writing(r, "toggle")
    <3> DEFINE x == req[r].target
               b == Toggled(row[x], req[r].seen)
    <3>1. Here(x) /\ WriteRow(r, x, b, {r})
      BY <2>2 DEF AnswerLost, Writing
    <3>2. /\ b \in Row /\ (b.isActive <=> b.status = "active")
          /\ b.subdomain = row[x].subdomain
      BY <1>2, ToggledRow
    <3>3. \A y \in Ids : y # x /\ Here(y) => row[y].subdomain # b.subdomain
      BY <1>2, <3>1, <3>2 DEF IInv, SubdomainsUnique
    <3> HIDE DEF b
    <3> QED  BY <1>2, <3>1, <3>2, <3>3
  <2>3. CASE Writing(r, "delete")
    <3> DEFINE b == ARow("deleted", AnySubdomain)
    <3>1. WriteRow(r, req[r].target, b, {r})
      BY <2>3 DEF AnswerLost, Writing
    <3>2. b \in Row /\ b.isActive /\ b.status = "active" /\ b.presence # "here"
      BY AnySubdomainType, ValueTypes DEF ARow, Presence
    <3> HIDE DEF b
    <3> QED  BY <1>2, <3>1, <3>2
  <2> QED  BY <2>1, <2>2, <2>3 DEF AnswerLost
<1>4. Continue(r, Answered("error")) /\ Answered("error") \in Req
  BY ValueTypes DEF AnswerLost, Answer
<1> QED  BY <1>1, <1>3, <1>4, WritingStep

\* The invariant holds in every reachable state.
THEOREM InvHolds == Spec => []IInv
<1>1. IInv /\ [Next]_tenantVars => IInv'
  <2> SUFFICES ASSUME IInv, [Next]_tenantVars PROVE IInv'
    OBVIOUS
  <2>1. CASE UNCHANGED tenantVars
    BY <2>1 DEF tenantVars, IInv, TypeOK, StatusMatchesActive, SubdomainsUnique,
                BarredInactive, Active, Here
  <2>2. CASE Next
    <3>1. PICK r \in Requests :
            \/ \E op \in Op, caller, target \in Ids, sub \in Subdomains :
                 Arrive(r, op, caller, target, sub)
            \/ Authenticate(r)
            \/ ReadForCreate(r) \/ Read(r)
            \/ Insert(r) \/ Update(r) \/ Toggle(r) \/ Delete(r) \/ Login(r)
            \/ Reread(r)
            \/ DatabaseFails(r) \/ AnswerLost(r)
      BY <2>2 DEF Next
    <3>2. CASE \E op \in Op, caller, target \in Ids, sub \in Subdomains :
                 Arrive(r, op, caller, target, sub)
      BY <3>2, ArriveOK
    <3>3. CASE Authenticate(r)
      BY <3>3, AuthenticateOK
    <3>4. CASE ReadForCreate(r) \/ Read(r) \/ Reread(r)
      BY <3>4, ChecksOK
    <3>5. CASE Insert(r)
      BY <3>5, InsertOK
    <3>6. CASE Update(r)
      BY <3>6, UpdateOK
    <3>7. CASE Toggle(r)
      BY <3>7, ToggleOK
    <3>8. CASE Delete(r)
      BY <3>8, DeleteOK
    <3>9. CASE Login(r)
      BY <3>9, LoginOK
    <3>10. CASE DatabaseFails(r)
      BY <3>10, DatabaseFailsOK
    <3>11. CASE AnswerLost(r)
      BY <3>11, AnswerLostOK
    <3> QED  BY <3>1, <3>2, <3>3, <3>4, <3>5, <3>6, <3>7, <3>8, <3>9, <3>10, <3>11
  <2> QED  BY <2>1, <2>2
<1> QED  BY InitOK, <1>1, PTL DEF Spec

\* Rows, requests and history are well-typed in every reachable state.
THEOREM TypeCorrect == Spec => []TypeOK
<1>1. IInv => TypeOK
  BY DEF IInv
<1> QED  BY InvHolds, <1>1, PTL

\* isActive and status agree, whatever toggles overlap.
THEOREM StatusMatchesActiveHolds == Spec => []StatusMatchesActive
<1>1. IInv => StatusMatchesActive
  BY DEF IInv
<1> QED  BY InvHolds, <1>1, PTL

\* No two tenants have the same subdomain, however many creates overlap.
THEOREM SubdomainsUniqueHolds == Spec => []SubdomainsUnique
<1>1. IInv => SubdomainsUnique
  BY DEF IInv
<1> QED  BY InvHolds, <1>1, PTL

\* A request whose tenant is out of service gets nothing done.
THEOREM BarredGetNothingDoneHolds == Spec => []BarredGetNothingDone
<1>1. IInv => BarredGetNothingDone
  BY DEF IInv, BarredInactive, BarredGetNothingDone
<1> QED  BY InvHolds, <1>1, PTL

\* A deleted tenant is never brought back.
THEOREM DeletedStaysDeletedHolds == Spec => DeletedStaysDeleted
<1> DEFINE Kept == \A x \in Ids :
                     row[x].presence = "deleted" => row'[x].presence = "deleted"
<1>1. IInv /\ [Next]_tenantVars => [Kept]_tenantVars
  <2> SUFFICES ASSUME IInv, Next, NEW x \in Ids, row[x].presence = "deleted"
               PROVE  row'[x].presence = "deleted"
    OBVIOUS
  <2>1. \/ row' = row
        \/ \E y \in Ids : \E b : row[y].presence # "deleted" /\ row' = [row EXCEPT ![y] = b]
    <3>1. PICK r \in Requests :
            \/ \E op \in Op, caller, target \in Ids, sub \in Subdomains :
                 Arrive(r, op, caller, target, sub)
            \/ Authenticate(r)
            \/ ReadForCreate(r) \/ Read(r)
            \/ Insert(r) \/ Update(r) \/ Toggle(r) \/ Delete(r) \/ Login(r)
            \/ Reread(r)
            \/ DatabaseFails(r) \/ AnswerLost(r)
      BY DEF Next
    <3>2. req[r].target \in Ids
      BY DEF IInv, TypeOK, Req
    <3>3. CASE Insert(r)
      BY <3>3 DEF Insert, WriteRow, Unwritten
    <3>4. CASE Toggle(r)
      BY <3>2, <3>4 DEF Toggle, NoSuchRow, Unwritten, WriteRow, Here
    <3>5. CASE Delete(r)
      BY <3>2, <3>5 DEF Delete, NoSuchRow, Unwritten, WriteRow, Here
    <3>6. CASE \/ \E op \in Op, caller, target \in Ids, sub \in Subdomains :
                    Arrive(r, op, caller, target, sub)
               \/ DatabaseFails(r)
      BY <3>6 DEF Arrive, DatabaseFails
    <3>7. CASE Authenticate(r) \/ ReadForCreate(r) \/ Read(r) \/ Reread(r)
      BY <3>7 DEF Authenticate, ReadForCreate, Read, Reread, Unwritten
    <3>8. CASE Update(r) \/ Login(r)
      BY <3>8 DEF Update, Login, NoSuchRow, Unwritten
    <3>9. CASE AnswerLost(r)
      BY <3>2, <3>9 DEF AnswerLost, WriteRow, Here
    <3> QED  BY <3>1, <3>3, <3>4, <3>5, <3>6, <3>7, <3>8, <3>9
  <2>2. row \in [Ids -> Row]
    BY DEF IInv, TypeOK
  <2> QED  BY <2>1, <2>2
<1> QED  BY InvHolds, <1>1, PTL DEF Spec, DeletedStaysDeleted

-----------------------------------------------------------------------------
(* Nobody lets himself in again                                            *)

\* A request that goes on harmlessly, and activates no tenant, keeps everybody
\* locked out.
LEMMA HarmlessStep ==
  ASSUME IInv, LockedOut, NEW r \in Requests, NEW q \in Req, Continue(r, q),
         q.op \in {"create", "toggle"} => q.phase \notin {"read", "write"},
         \A x \in Ids : ~Active(x)'
  PROVE  LockedOut'
<1>1. /\ req'[r] = q
      /\ \A p \in Requests : p # r => req'[p] = req[p]
  BY ContinueOne DEF IInv
<1>2. ASSUME NEW p \in Requests, req'[p].op \in {"create", "toggle"}
      PROVE  req'[p].phase \notin {"read", "write"}
  BY <1>1, <1>2 DEF LockedOut
<1> QED  BY <1>2 DEF LockedOut

\* The same for a step that writes nothing.
LEMMA HarmlessQuiet ==
  ASSUME IInv, LockedOut, NEW r \in Requests, NEW q \in Req, Continue(r, q), row' = row,
         q.op \in {"create", "toggle"} => q.phase \notin {"read", "write"}
  PROVE  LockedOut'
<1>1. \A x \in Ids : ~Active(x)'
  BY DEF LockedOut, Active, Here
<1> QED  BY <1>1, HarmlessStep

\* An answer is harmless.
LEMMA HarmlessAnswer ==
  ASSUME IInv, LockedOut, NEW r \in Requests,
         NEW a \in {"ok", "refused", "rejected", "error"}, Answer(r, a), row' = row
  PROVE  LockedOut'
BY ValueTypes, HarmlessQuiet DEF Answer

\* So is a request of another kind that moves on.
LEMMA HarmlessMove ==
  ASSUME IInv, LockedOut, NEW r \in Requests, NEW q \in Req, Continue(r, q), row' = row,
         q.op = req[r].op, req[r].op \notin {"create", "toggle"}
  PROVE  LockedOut'
BY HarmlessQuiet

\* So is one whose request has deleted its tenant.
LEMMA HarmlessDelete ==
  ASSUME IInv, LockedOut, NEW r \in Requests, NEW a \in {"ok", "error"}, Answer(r, a),
         NEW failed, WriteRow(r, req[r].target, ARow("deleted", AnySubdomain), failed)
  PROVE  LockedOut'
<1> DEFINE b == ARow("deleted", AnySubdomain)
<1>1. row' = [row EXCEPT ![req[r].target] = b]
  BY DEF WriteRow
<1>2. b.presence # "here" /\ req[r].target \in Ids
  BY DEF ARow, IInv, TypeOK, Req
<1>3. \A x \in Ids : ~Active(x)'
  <2> HIDE DEF b
  <2> QED  BY <1>1, <1>2 DEF LockedOut, Active, Here, IInv, TypeOK
<1> QED  BY <1>3, ValueTypes, HarmlessStep DEF Answer

\* Once everybody is locked out, no request lets anybody in again.
THEOREM LockoutIsFinalHolds == Spec => LockoutIsFinal
<1>1. IInv /\ [Next]_tenantVars => [LockedOut => LockedOut']_tenantVars
  <2> SUFFICES ASSUME IInv, Next, LockedOut
               PROVE  LockedOut'
    OBVIOUS
  <2>1. PICK r \in Requests :
          \/ \E op \in Op, caller, target \in Ids, sub \in Subdomains :
               Arrive(r, op, caller, target, sub)
          \/ Authenticate(r)
          \/ ReadForCreate(r) \/ Read(r)
          \/ Insert(r) \/ Update(r) \/ Toggle(r) \/ Delete(r) \/ Login(r)
          \/ Reread(r)
          \/ DatabaseFails(r) \/ AnswerLost(r)
    BY DEF Next
  <2>2. /\ req[r] \in Req /\ req[r].target \in Ids /\ req[r].caller \in Ids
        /\ req[r].op \in {"create", "toggle"} => req[r].phase \notin {"read", "write"}
        /\ ~Active(req[r].caller)
    BY DEF IInv, TypeOK, Req, LockedOut
  <2>3. CASE \E op \in Op, caller, target \in Ids, sub \in Subdomains :
               Arrive(r, op, caller, target, sub)
    <3>1. PICK op \in Op, caller \in Ids, target \in Ids, sub \in Subdomains :
            Arrive(r, op, caller, target, sub)
      BY <2>3
    <3> DEFINE q == NewReq(op, caller, target, sub)
    <3>2. q \in Req /\ q.phase = "auth"
      BY ValueTypes DEF NewReq
    <3>3. Continue(r, q) /\ row' = row
      BY <3>1 DEF Arrive
    <3> HIDE DEF q
    <3> QED  BY <3>2, <3>3, HarmlessQuiet
  <2>4. CASE Authenticate(r)
    BY <2>2, <2>4, HarmlessAnswer DEF Authenticate, Admissible, Unwritten
  <2>5. CASE ReadForCreate(r) \/ Insert(r) \/ Toggle(r)
    BY <2>2, <2>5 DEF ReadForCreate, Insert, Toggle, Writing
  <2>6. CASE Read(r)
    <3>1. CASE ~Here(req[r].target)
      BY <2>6, <3>1, HarmlessAnswer DEF Read, Unwritten
    <3>2. CASE Here(req[r].target)
      <4> DEFINE u == [req[r] EXCEPT !.phase = "write"]
                 q == [u EXCEPT !.seen = FALSE]
      <4>1. req[r].op \notin {"create", "toggle"}
        BY <2>2, <2>6 DEF Read
      <4>2. u \in Req /\ u.op = req[r].op
        BY <2>2 DEF Req, Phase
      <4>3. q \in Req /\ q.op = u.op
        <5> HIDE DEF u
        <5> QED  BY <4>2 DEF Req
      <4>4. Continue(r, q) /\ row' = row
        BY <2>6, <3>2, <4>1 DEF Read, Unwritten
      <4> HIDE DEF u, q
      <4> QED  BY <4>1, <4>2, <4>3, <4>4, HarmlessMove
    <3> QED  BY <3>1, <3>2
  <2>7. CASE Update(r)
    <3>1. CASE NoSuchRow(r)
      BY <3>1, HarmlessAnswer DEF NoSuchRow, Unwritten
    <3>2. CASE ~NoSuchRow(r)
      <4> DEFINE q == [req[r] EXCEPT !.phase = "reread"]
      <4>1. q \in Req /\ q.op = req[r].op /\ req[r].op \notin {"create", "toggle"}
        BY <2>2, <2>7 DEF Update, Writing, Req, Phase
      <4>2. Continue(r, q) /\ row' = row
        BY <2>7, <3>2 DEF Update, Unwritten
      <4> HIDE DEF q
      <4> QED  BY <4>1, <4>2, HarmlessMove
    <3> QED  BY <3>1, <3>2
  <2>8. CASE Delete(r)
    <3>1. CASE NoSuchRow(r)
      BY <3>1, HarmlessAnswer DEF NoSuchRow, Unwritten
    <3>2. CASE ~NoSuchRow(r)
      BY <2>8, <3>2, HarmlessDelete DEF Delete
    <3> QED  BY <3>1, <3>2
  <2>9. CASE Login(r)
    BY <2>9, HarmlessAnswer DEF Login, NoSuchRow, Unwritten
  <2>10. CASE Reread(r)
    BY <2>10, HarmlessAnswer DEF Reread, Unwritten
  <2>11. CASE DatabaseFails(r)
    BY <2>11, HarmlessAnswer DEF DatabaseFails
  <2>12. CASE AnswerLost(r)
    <3>1. WriteRow(r, req[r].target, ARow("deleted", AnySubdomain), {r})
      BY <2>2, <2>12 DEF AnswerLost, Writing
    <3> QED  BY <2>12, <3>1, HarmlessDelete DEF AnswerLost
  <2> QED  BY <2>1, <2>3, <2>4, <2>5, <2>6, <2>7, <2>8, <2>9, <2>10, <2>11, <2>12
<1> QED  BY InvHolds, <1>1, PTL DEF Spec, LockoutIsFinal

-----------------------------------------------------------------------------
(***************************************************************************)
(* Requests that overlap: what fails, and what is lost, fails or is lost   *)
(* through an overlap only.                                                *)
(*                                                                         *)
(* The strengthening is CheckedInv: what a request has checked is still    *)
(* so when it comes to write, unless the history says that it has been     *)
(* disturbed.                                                              *)
(***************************************************************************)

\* Request q finds in the rows rw what it has checked.
Fits(q, rw) ==
  /\ q.phase = "reread" => rw[q.target].presence = "here"
  /\ q.phase = "write" /\ q.op = "create" =>
       \A x \in Ids : rw[x].presence = "here" => rw[x].subdomain # q.sub
  /\ q.phase = "write" /\ q.op # "create" => rw[q.target].presence = "here"
  /\ q.phase = "write" /\ q.op = "toggle" => q.seen = rw[q.target].isActive

\* A login is about the tenant of its caller.
OwnLogin(q) == q.phase = "auth" /\ q.op = "login" => q.target = q.caller

CheckedInv ==
  \A p \in Requests : /\ OwnLogin(req[p])
                      /\ p \notin disturbed => Fits(req[p], row)

-----------------------------------------------------------------------------
(* Steps                                                                   *)

\* A request that is over, or has checked nothing, fits any rows.
LEMMA IdleFits ==
  ASSUME NEW q, NEW rw, q.phase \notin {"write", "reread"}
  PROVE  Fits(q, rw)
BY DEF Fits

\* A step that writes nothing: the request has to fit the rows there are.
LEMMA QuietChecked ==
  ASSUME TypeOK, CheckedInv, NEW r \in Requests, NEW q \in Req, Continue(r, q),
         Unwritten, OwnLogin(q), r \notin disturbed => Fits(q, row)
  PROVE  CheckedInv'
<1>1. /\ req'[r] = q
      /\ \A p \in Requests : p # r => req'[p] = req[p]
  BY ContinueOne
<1>2. row' = row /\ disturbed' = disturbed
  BY DEF Unwritten
<1> SUFFICES ASSUME NEW p \in Requests
             PROVE  /\ OwnLogin(req'[p])
                    /\ p \notin disturbed' => Fits(req'[p], row')
  BY DEF CheckedInv, OwnLogin, Fits
<1>3. CASE p = r
  BY <1>1, <1>2, <1>3
<1>4. CASE p # r
  BY <1>1, <1>2, <1>4 DEF CheckedInv
<1> QED  BY <1>3, <1>4

\* A step that writes a row: the history notes all the requests it concerns.
LEMMA WritingChecked ==
  ASSUME TypeOK, CheckedInv, NEW r \in Requests, NEW q \in Req, Continue(r, q),
         NEW x \in Ids, NEW b \in Row, NEW failed \in SUBSET {r},
         WriteRow(r, x, b, failed), OwnLogin(q),
         q.phase = "reread" => q.target = x /\ b.presence = "here",
         q.phase # "write"
  PROVE  CheckedInv'
<1>1. /\ req'[r] = q
      /\ \A p \in Requests : p # r => req'[p] = req[p]
  BY ContinueOne
<1>2. /\ row' \in [Ids -> Row]
      /\ row'[x] = b
      /\ \A y \in Ids : y # x => row'[y] = row[y]
  BY DEF TypeOK, WriteRow
<1> SUFFICES ASSUME NEW p \in Requests
             PROVE  /\ OwnLogin(req'[p])
                    /\ p \notin disturbed' => Fits(req'[p], row')
  BY DEF CheckedInv, OwnLogin, Fits
<1>3. CASE p = r
  BY <1>1, <1>2, <1>3 DEF Fits
<1>4. CASE p # r /\ b = row[x]
  <2>1. row' = row /\ disturbed \subseteq disturbed'
    BY <1>4 DEF WriteRow, TypeOK
  <2> QED  BY <1>1, <1>4, <2>1 DEF CheckedInv
<1>5. CASE p # r /\ b # row[x]
  <2>1. p \notin disturbed' => p \notin disturbed /\ ~Concerned(p, x, b)
    BY <1>5 DEF WriteRow
  <2>2. req'[p] = req[p] /\ OwnLogin(req[p])
    BY <1>1, <1>5 DEF CheckedInv
  <2>3. ASSUME p \notin disturbed' PROVE Fits(req[p], row')
    <3>1. Fits(req[p], row) /\ ~Concerned(p, x, b)
      BY <1>5, <2>1, <2>3 DEF CheckedInv
    <3>2. req[p].target \in Ids
      BY DEF TypeOK, Req
    <3>3. CASE req[p].phase \notin {"write", "reread"}
      BY <3>3, IdleFits
    <3>4. CASE req[p].phase = "write" /\ req[p].op = "create"
      <4>1. req[p].sub # b.subdomain
        BY <3>1, <3>4 DEF Concerned
      <4> QED  BY <1>2, <3>1, <3>4, <4>1 DEF Fits
    <3>5. CASE /\ req[p].phase \in {"write", "reread"}
               /\ ~(req[p].phase = "write" /\ req[p].op = "create")
      <4>1. req[p].target # x
        BY <3>1, <3>5 DEF Concerned
      <4> QED  BY <1>2, <3>1, <3>2, <3>5, <4>1 DEF Fits
    <3> QED  BY <3>3, <3>4, <3>5
  <2> QED  BY <2>2, <2>3
<1> QED  BY <1>3, <1>4, <1>5

\* An answer leaves nothing to fit.
LEMMA AnswerFits ==
  ASSUME NEW a \in {"ok", "refused", "rejected", "error"}, NEW rw
  PROVE  Answered(a) \in Req /\ OwnLogin(Answered(a)) /\ Fits(Answered(a), rw)
BY ValueTypes DEF OwnLogin, Fits

-----------------------------------------------------------------------------
(* Requests                                                                *)

\* Nothing has been checked at the start.
LEMMA CheckedInit == Init => CheckedInv
<1> SUFFICES ASSUME Init, NEW p \in Requests
             PROVE  OwnLogin(req[p]) /\ Fits(req[p], row)
  BY DEF CheckedInv
<1> QED  BY AnswerFits DEF Init

\* A request arrives unchecked; a login is for the caller's own tenant.
LEMMA ArriveChecked ==
  ASSUME TypeOK, CheckedInv, NEW r \in Requests, NEW op \in Op,
         NEW caller \in Ids, NEW target \in Ids, NEW sub \in Subdomains,
         Arrive(r, op, caller, target, sub)
  PROVE  CheckedInv'
<1> DEFINE q == NewReq(op, caller, target, sub)
<1>1. q \in Req /\ q.phase = "auth" /\ OwnLogin(q)
  BY ValueTypes DEF NewReq, OwnLogin, Arrive
<1>2. row' = row /\ disturbed' = disturbed \ {r} /\ Continue(r, q)
  BY DEF Arrive
<1> HIDE DEF q
<1>3. /\ req'[r] = q
      /\ \A p \in Requests : p # r => req'[p] = req[p]
  BY <1>1, <1>2, ContinueOne
<1> SUFFICES ASSUME NEW p \in Requests
             PROVE  /\ OwnLogin(req'[p])
                    /\ p \notin disturbed' => Fits(req'[p], row')
  BY DEF CheckedInv, OwnLogin, Fits
<1>4. CASE p = r
  BY <1>1, <1>3, <1>4, IdleFits
<1>5. CASE p # r
  BY <1>2, <1>3, <1>5 DEF CheckedInv
<1> QED  BY <1>4, <1>5

\* login() has found its tenant active, the others have checked nothing yet.
LEMMA AuthenticateChecked ==
  ASSUME TypeOK, CheckedInv, NEW r \in Requests, Authenticate(r)
  PROVE  CheckedInv'
<1>1. CASE ~Admissible(req[r].caller)
  BY <1>1, AnswerFits, QuietChecked DEF Authenticate, Answer
<1>2. CASE Admissible(req[r].caller)
  <2> DEFINE ph == IF req[r].op = "login" THEN "write" ELSE "read"
             u == [req[r] EXCEPT !.phase = ph]
             q == [u EXCEPT !.caller = Seeded]
  <2>1. Continue(r, q) /\ Unwritten
    BY <1>2 DEF Authenticate
  <2>2. req[r] \in Req /\ ph \in Phase /\ Seeded \in Ids
    BY TenantsAssumption DEF TenantsAssumption, TypeOK, Phase
  <2>3. /\ q \in Req /\ q.phase = ph /\ q.op = req[r].op
        /\ q.target = req[r].target
    <3> HIDE DEF ph
    <3>1. /\ u \in Req /\ u.phase = ph /\ u.op = req[r].op
          /\ u.target = req[r].target
      BY <2>2 DEF Req
    <3> HIDE DEF u
    <3> QED  BY <2>2, <3>1 DEF Req
  <2>4. req[r].op = "login" => Here(req[r].target)
    BY <1>2 DEF CheckedInv, OwnLogin, Authenticate, Admissible, Active
  <2>5. Fits(q, row)
    BY <2>3, <2>4 DEF Fits, Here
  <2>6. OwnLogin(q)
    BY <2>3 DEF OwnLogin
  <2> HIDE DEF q
  <2> QED  BY <2>1, <2>3, <2>5, <2>6, QuietChecked
<1> QED  BY <1>1, <1>2

\* The checks establish what the write relies on.
LEMMA ChecksChecked ==
  ASSUME TypeOK, CheckedInv, NEW r \in Requests, ReadForCreate(r) \/ Read(r) \/ Reread(r)
  PROVE  CheckedInv'
<1>1. Unwritten
  BY DEF ReadForCreate, Read, Reread
<1>2. \E q \in Req : Continue(r, q) /\ OwnLogin(q) /\ Fits(q, row)
  <2> DEFINE u == [req[r] EXCEPT !.phase = "write"]
  <2>1. /\ u \in Req /\ u.phase = "write" /\ u.op = req[r].op
        /\ u.target = req[r].target /\ u.sub = req[r].sub
        /\ req[r].target \in Ids /\ row[req[r].target] \in Row
    BY DEF TypeOK, Req, Phase
  <2>2. CASE ReadForCreate(r)
    <3>1. CASE Existing(req[r].sub)
      BY <2>2, <3>1, AnswerFits DEF ReadForCreate, Answer
    <3>2. CASE ~Existing(req[r].sub)
      <4>1. Continue(r, u) /\ u.op = "create"
        BY <2>1, <2>2, <3>2 DEF ReadForCreate
      <4> HIDE DEF u
      <4> QED  BY <2>1, <3>2, <4>1 DEF OwnLogin, Fits, Existing, Here
    <3> QED  BY <3>1, <3>2
  <2>3. CASE Read(r)
    <3> DEFINE seen == req[r].op = "toggle" /\ row[req[r].target].isActive
               q == [u EXCEPT !.seen = seen]
    <3>1. CASE ~Here(req[r].target)
      BY <2>3, <3>1, AnswerFits DEF Read, Answer
    <3>2. CASE Here(req[r].target)
      <4>1. Continue(r, q) /\ req[r].op # "create"
        BY <2>3, <3>2 DEF Read
      <4>2. seen \in BOOLEAN /\ (req[r].op = "toggle" => seen = row[req[r].target].isActive)
        BY <2>1 DEF Row
      <4>3. /\ q \in Req /\ q.phase = "write" /\ q.op = req[r].op
            /\ q.target = req[r].target /\ q.seen = seen
        <5> HIDE DEF u, seen
        <5> QED  BY <2>1, <4>2 DEF Req
      <4> HIDE DEF q, seen
      <4> QED  BY <3>2, <4>1, <4>2, <4>3 DEF OwnLogin, Fits, Here
    <3> QED  BY <3>1, <3>2
  <2>4. CASE Reread(r)
    BY <2>4, AnswerFits DEF Reread, Answer
  <2> QED  BY <2>2, <2>3, <2>4
<1> QED  BY <1>1, <1>2, QuietChecked

\* An error, or a login's update of its user, ends the request.
LEMMA AnswerChecked ==
  ASSUME TypeOK, CheckedInv, NEW r \in Requests, Unwritten,
         NEW a \in {"ok", "refused", "rejected", "error"}, Answer(r, a)
  PROVE  CheckedInv'
BY AnswerFits, QuietChecked DEF Answer

\* create() has made the row that it reads again.
LEMMA InsertChecked ==
  ASSUME TypeOK, CheckedInv, NEW r \in Requests, Insert(r)
  PROVE  CheckedInv'
<1>1. CASE ViolatesUnique(req[r].sub)
  BY <1>1, AnswerChecked DEF Insert
<1>2. CASE ~ViolatesUnique(req[r].sub)
  <2> DEFINE b == ARow("here", req[r].sub)
  <2>1. PICK x \in Ids :
          /\ WriteRow(r, x, b, {})
          /\ Continue(r, [req[r] EXCEPT !.phase = "reread", !.target = x])
    BY <1>2 DEF Insert
  <2> DEFINE q == [req[r] EXCEPT !.phase = "reread", !.target = x]
  <2>2. q \in Req /\ q.phase = "reread" /\ q.target = x
    BY DEF TypeOK, Req, Phase
  <2>3. b \in Row /\ b.presence = "here"
    BY ValueTypes, PhaseMoves DEF ARow, Presence, Phase
  <2>4. OwnLogin(q)
    BY <2>2 DEF OwnLogin
  <2> HIDE DEF b, q
  <2> QED  BY <2>1, <2>2, <2>3, <2>4, WritingChecked DEF q
<1> QED  BY <1>1, <1>2

\* update() has found the row that it reads again.
LEMMA UpdateChecked ==
  ASSUME TypeOK, CheckedInv, NEW r \in Requests, Update(r)
  PROVE  CheckedInv'
<1>1. CASE NoSuchRow(r)
  BY <1>1, AnswerChecked DEF NoSuchRow
<1>2. CASE ~NoSuchRow(r)
  <2> DEFINE q == [req[r] EXCEPT !.phase = "reread"]
  <2>1. Continue(r, q) /\ Unwritten /\ Here(req[r].target)
    BY <1>2 DEF Update
  <2>2. q \in Req /\ q.phase = "reread" /\ q.target = req[r].target
    BY DEF TypeOK, Req, Phase
  <2>3. Fits(q, row) /\ OwnLogin(q)
    BY <2>1, <2>2 DEF Fits, OwnLogin, Here
  <2> HIDE DEF q
  <2> QED  BY <2>1, <2>2, <2>3, QuietChecked
<1> QED  BY <1>1, <1>2

\* toggleStatus() and delete() write and are done.
LEMMA ToggleDeleteChecked ==
  ASSUME TypeOK, CheckedInv, NEW r \in Requests, Toggle(r) \/ Delete(r)
  PROVE  CheckedInv'
<1>1. CASE NoSuchRow(r)
  BY <1>1, AnswerChecked DEF NoSuchRow
<1>2. CASE ~NoSuchRow(r)
  <2>1. PICK b \in Row : WriteRow(r, req[r].target, b, {})
    <3>1. /\ req[r].target \in Ids /\ row[req[r].target] \in Row
          /\ req[r].seen \in BOOLEAN
      BY DEF TypeOK, Req
    <3>2. Toggled(row[req[r].target], req[r].seen) \in Row
      BY <3>1, ToggledRow
    <3>3. ARow("deleted", AnySubdomain) \in Row
      BY AnySubdomainType, ValueTypes DEF Presence
    <3> QED  BY <1>2, <3>2, <3>3 DEF Toggle, Delete
  <2>2. Continue(r, Answered("ok"))
    BY <1>2 DEF Toggle, Delete, Answer
  <2>3. req[r].target \in Ids
    BY DEF TypeOK, Req
  <2>4. Answered("ok") \in Req /\ Answered("ok").phase = "done"
    BY ValueTypes
  <2>5. OwnLogin(Answered("ok"))
    BY AnswerFits
  <2> QED  BY <2>1, <2>2, <2>3, <2>4, <2>5, WritingChecked
<1> QED  BY <1>1, <1>2

\* login() ends with the update of its user, found or not.
LEMMA LoginChecked ==
  ASSUME TypeOK, CheckedInv, NEW r \in Requests, Login(r)
  PROVE  CheckedInv'
<1>1. Unwritten /\ (Answer(r, "ok") \/ Answer(r, "error"))
  BY DEF Login, NoSuchRow
<1> QED  BY <1>1, AnswerChecked

\* Whom the database fails counts as disturbed, and is answered.
LEMMA DatabaseFailsChecked ==
  ASSUME TypeOK, CheckedInv, NEW r \in Requests, DatabaseFails(r)
  PROVE  CheckedInv'
<1>1. PICK a \in {"refused", "error"} : Continue(r, Answered(a))
  BY DEF DatabaseFails, Answer
<1>2. Answered(a) \in Req /\ OwnLogin(Answered(a)) /\ Fits(Answered(a), row')
  BY AnswerFits
<1>3. /\ req'[r] = Answered(a)
      /\ \A p \in Requests : p # r => req'[p] = req[p]
  BY <1>1, <1>2, ContinueOne
<1>4. row' = row /\ disturbed' = disturbed \cup {r}
  BY DEF DatabaseFails
<1> SUFFICES ASSUME NEW p \in Requests
             PROVE  /\ OwnLogin(req'[p])
                    /\ p \notin disturbed' => Fits(req'[p], row')
  BY DEF CheckedInv, OwnLogin, Fits
<1>5. CASE p = r
  BY <1>2, <1>3, <1>5
<1>6. CASE p # r
  BY <1>3, <1>4, <1>6 DEF CheckedInv
<1> QED  BY <1>5, <1>6

\* A write whose answer is lost concerns the others as any write.
LEMMA AnswerLostChecked ==
  ASSUME TypeOK, CheckedInv, NEW r \in Requests, AnswerLost(r)
  PROVE  CheckedInv'
<1>1. \E x \in Ids, b \in Row : WriteRow(r, x, b, {r})
  <2>1. /\ req[r].target \in Ids /\ row[req[r].target] \in Row
        /\ req[r].seen \in BOOLEAN /\ req[r].sub \in Subdomains
    BY DEF TypeOK, Req
  <2>2. Toggled(row[req[r].target], req[r].seen) \in Row
    BY <2>1, ToggledRow
  <2>3. ARow("deleted", AnySubdomain) \in Row /\ ARow("here", req[r].sub) \in Row
    BY <2>1, AnySubdomainType, ValueTypes DEF Presence
  <2> QED  BY <2>1, <2>2, <2>3 DEF AnswerLost
<1>2. Continue(r, Answered("error"))
  BY DEF AnswerLost, Answer
<1>3. Answered("error") \in Req /\ Answered("error").phase = "done"
  BY ValueTypes
<1>4. OwnLogin(Answered("error"))
  BY AnswerFits
<1> QED  BY <1>1, <1>2, <1>3, <1>4, WritingChecked

-----------------------------------------------------------------------------
(* Theorems                                                                *)

\* What an undisturbed request has checked is so until it writes.
THEOREM CheckedHolds == Spec => []CheckedInv
<1>1. TypeOK /\ CheckedInv /\ [Next]_tenantVars => CheckedInv'
  <2> SUFFICES ASSUME TypeOK, CheckedInv, [Next]_tenantVars PROVE CheckedInv'
    OBVIOUS
  <2>1. CASE UNCHANGED tenantVars
    BY <2>1 DEF tenantVars, CheckedInv, Fits, OwnLogin
  <2>2. CASE Next
    <3>1. PICK r \in Requests :
            \/ \E op \in Op, caller, target \in Ids, sub \in Subdomains :
                 Arrive(r, op, caller, target, sub)
            \/ Authenticate(r)
            \/ ReadForCreate(r) \/ Read(r)
            \/ Insert(r) \/ Update(r) \/ Toggle(r) \/ Delete(r) \/ Login(r)
            \/ Reread(r)
            \/ DatabaseFails(r) \/ AnswerLost(r)
      BY <2>2 DEF Next
    <3> QED  BY <3>1, ArriveChecked, AuthenticateChecked, ChecksChecked,
                InsertChecked, UpdateChecked, ToggleDeleteChecked, LoginChecked,
                DatabaseFailsChecked, AnswerLostChecked
  <2> QED  BY <2>1, <2>2
<1> QED  BY CheckedInit, <1>1, TypeCorrect, PTL DEF Spec

\* One request acts, the others stay as they are.
LEMMA OneActs ==
  ASSUME TypeOK, Next
  PROVE  \E r \in Requests :
           /\ \A p \in Requests : p # r => req'[p] = req[p]
           /\ \/ req[r].phase \in {"done", "auth", "read"}
              \/ Insert(r) \/ Update(r) \/ Toggle(r) \/ Delete(r) \/ Login(r)
              \/ Reread(r) \/ DatabaseFails(r) \/ AnswerLost(r)
<1>1. PICK r \in Requests :
        \/ \E op \in Op, caller, target \in Ids, sub \in Subdomains :
             Arrive(r, op, caller, target, sub)
        \/ Authenticate(r)
        \/ ReadForCreate(r) \/ Read(r)
        \/ Insert(r) \/ Update(r) \/ Toggle(r) \/ Delete(r) \/ Login(r)
        \/ Reread(r)
        \/ DatabaseFails(r) \/ AnswerLost(r)
  BY DEF Next
<1>2. \E q : req' = [req EXCEPT ![r] = q]
  BY <1>1 DEF Arrive, Authenticate, ReadForCreate, Read, Insert, Update, Toggle,
              Delete, Login, Reread, DatabaseFails, AnswerLost, NoSuchRow, Answer,
              Continue
<1>3. \A p \in Requests : p # r => req'[p] = req[p]
  BY <1>2 DEF TypeOK
<1>4. \/ req[r].phase \in {"done", "auth", "read"}
      \/ Insert(r) \/ Update(r) \/ Toggle(r) \/ Delete(r) \/ Login(r)
      \/ Reread(r) \/ DatabaseFails(r) \/ AnswerLost(r)
  BY <1>1 DEF Arrive, Authenticate, ReadForCreate, Read
<1> QED  BY <1>3, <1>4

\* A request that has passed its check fails afterwards only because another
\* request changed the tenant, or for the database.
THEOREM FailsOnlyIfDisturbedHolds == Spec => FailsOnlyIfDisturbed
<1> DEFINE Good == \A r \in Requests :
                     req[r].phase \in {"write", "reread"} /\ req'[r].phase = "done"
                       => req'[r].answer = "ok" \/ r \in disturbed'
<1>1. TypeOK /\ CheckedInv /\ [Next]_tenantVars => [Good]_tenantVars
  <2> SUFFICES ASSUME TypeOK, CheckedInv, Next, NEW p \in Requests,
                      req[p].phase \in {"write", "reread"}, req'[p].phase = "done",
                      p \notin disturbed'
               PROVE  req'[p].answer = "ok"
    OBVIOUS
  <2>1. \/ Insert(p) \/ Update(p) \/ Toggle(p) \/ Delete(p) \/ Login(p)
        \/ Reread(p) \/ DatabaseFails(p) \/ AnswerLost(p)
    BY OneActs
  <2>2. ~DatabaseFails(p) /\ ~AnswerLost(p)
    BY DEF DatabaseFails, AnswerLost, WriteRow
  <2>3. disturbed \subseteq disturbed'
    BY <2>1, <2>2 DEF Insert, Update, Toggle, Delete, Login, Reread, NoSuchRow,
                      Unwritten, WriteRow
  <2>4. Fits(req[p], row)
    BY <2>3 DEF CheckedInv
  <2>5. ~NoSuchRow(p) \/ ~(Update(p) \/ Toggle(p) \/ Delete(p) \/ Login(p))
    BY <2>4 DEF NoSuchRow, Here, Fits, Update, Toggle, Delete, Login, Writing
  <2>6. Insert(p) => ~ViolatesUnique(req[p].sub)
    BY <2>4 DEF Fits, Insert, Writing, ViolatesUnique, Here
  <2>7. /\ req[p] \in Req
        /\ \A q : Continue(p, q) => req'[p] = q
    BY DEF TypeOK, Continue
  <2>8. ~Insert(p) /\ ~Update(p)
    <3>1. /\ \A x \in Ids :
               [req[p] EXCEPT !.phase = "reread", !.target = x].phase = "reread"
          /\ [req[p] EXCEPT !.phase = "reread"].phase = "reread"
      BY <2>7 DEF Req
    <3>2. Insert(p) => req'[p].phase = "reread"
      BY <2>6, <2>7, <3>1 DEF Insert
    <3>3. Update(p) => req'[p].phase = "reread"
      BY <2>5, <2>7, <3>1 DEF Update
    <3> QED  BY <3>2, <3>3
  <2>9. Answer(p, "ok")
    BY <2>1, <2>2, <2>4, <2>5, <2>8 DEF Toggle, Delete, Login, Reread, Fits, Here
  <2> QED  BY <2>7, <2>9, ValueTypes DEF Answer
<1> QED  BY TypeCorrect, CheckedHolds, <1>1, PTL DEF Spec, FailsOnlyIfDisturbed

\* A toggle that is answered with success leaves the status as it was only when
\* another request changed the tenant between its read and its write.
THEOREM LostTogglesOverlapHolds == Spec => LostTogglesOverlap
<1> DEFINE Good == \A r \in Requests :
                     Writing(r, "toggle") /\ req'[r].answer = "ok" /\ req'[r].phase = "done"
                       => \/ row'[req[r].target].isActive # row[req[r].target].isActive
                          \/ r \in disturbed
<1>1. TypeOK /\ CheckedInv /\ [Next]_tenantVars => [Good]_tenantVars
  <2> SUFFICES ASSUME TypeOK, CheckedInv, Next, NEW p \in Requests,
                      Writing(p, "toggle"), req'[p].answer = "ok",
                      req'[p].phase = "done", p \notin disturbed
               PROVE  row'[req[p].target].isActive # row[req[p].target].isActive
    OBVIOUS
  <2> DEFINE x == req[p].target
  <2>1. /\ x \in Ids /\ row[x] \in Row /\ req[p].seen \in BOOLEAN
        /\ \A q : Continue(p, q) => req'[p] = q
    BY DEF TypeOK, Req, Continue
  <2>2. \A a \in {"refused", "rejected", "error"} : ~Answer(p, a)
    BY <2>1, ValueTypes DEF Answer
  <2>3. Toggle(p) /\ ~NoSuchRow(p)
    BY <2>2, OneActs DEF Writing, Insert, Update, Delete, Login, Reread,
                         DatabaseFails, AnswerLost, NoSuchRow
  <2>4. WriteRow(p, x, Toggled(row[x], req[p].seen), {})
    BY <2>3 DEF Toggle
  <2>5. req[p].seen = row[x].isActive
    BY DEF CheckedInv, Fits, Writing
  <2>6. Toggled(row[x], req[p].seen).isActive = ~req[p].seen
    BY <2>1, ToggledRow DEF Toggled, Row
  <2>7. row'[x] = Toggled(row[x], req[p].seen)
    BY <2>1, <2>4 DEF WriteRow, TypeOK
  <2> QED  BY <2>1, <2>5, <2>6, <2>7
<1> QED  BY TypeCorrect, CheckedHolds, <1>1, PTL DEF Spec, LostTogglesOverlap

=============================================================================
