------------------------------- MODULE Tenants -------------------------------
(***************************************************************************)
(* The tenants table and the requests that change it:                      *)
(* modules/tenants/tenant.service.ts behind the authenticate hook of       *)
(* plugins/auth.plugin.ts and middleware/tenant.middleware.ts, and the     *)
(* login of modules/auth/auth.service.ts.                                  *)
(*                                                                         *)
(* Every request is a sequence of single database statements: nothing runs *)
(* in a transaction, so other requests run between any two of them.  What  *)
(* a request has read is kept and written back later; the database checks  *)
(* only that the row is there and that subdomains are unique.              *)
(*                                                                         *)
(* Of a row, its existence, its subdomain and the two columns that say     *)
(* whether the tenant may use the gateway are kept.  The other columns are *)
(* only written by update(), from the request's own body.                  *)
(***************************************************************************)
EXTENDS Integers, FiniteSets

CONSTANTS
  Ids,         \* tenant ids: uuids, each given to a row once
  Subdomains,  \* tenants.subdomain, which the schema declares @unique
  Requests,    \* slots for the requests in progress
  Seeded       \* the tenant that prisma/seed.ts creates

ASSUME TenantsAssumption == Seeded \in Ids /\ Subdomains # {}

VARIABLES
  row,        \* row[x]: the row of tenant x
  req,        \* req[r]: the request in slot r
  disturbed,  \* history: the requests whose tenant another request changed
              \* since they checked it, or to whom the database failed
  barred      \* history: the requests whose caller's tenant has not been
              \* active at any time since they arrived

tenantVars == <<row, req, disturbed, barred>>

-----------------------------------------------------------------------------
(* State                                                                   *)

Presence == {"never", "here", "deleted"}

Row == [presence  : Presence,
        subdomain : Subdomains,
        isActive  : BOOLEAN,
        status    : {"active", "inactive"}]

ARow(presence, sub) ==
  [presence |-> presence, subdomain |-> sub, isActive |-> TRUE, status |-> "active"]

Op    == {"create", "update", "toggle", "delete", "login"}
Phase == {"auth", "read", "write", "reread", "done"}
Busy  == Phase \ {"done"}

\* seen: isActive as the request has read it.  "refused": 401 or 403;
\* "rejected": 404 or 409; "error": 500, an error nobody has foreseen.
Req == [op : Op, caller : Ids, target : Ids, sub : Subdomains, phase : Phase,
        seen : BOOLEAN, answer : {"ok", "refused", "rejected", "error"}]

AnySubdomain == CHOOSE s \in Subdomains : TRUE

NewReq(op, caller, target, sub) ==
  [op |-> op, caller |-> caller, target |-> target, sub |-> sub,
   phase |-> "auth", seen |-> FALSE, answer |-> "ok"]

\* A request that is over keeps its answer only.
Answered(answer) ==
  [NewReq("login", Seeded, Seeded, AnySubdomain) EXCEPT !.phase = "done",
                                                         !.answer = answer]

Init ==
  /\ row = [x \in Ids |-> ARow(IF x = Seeded THEN "here" ELSE "never", AnySubdomain)]
  /\ req = [r \in Requests |-> Answered("ok")]
  /\ disturbed = {}
  /\ barred = {}

Here(x)   == row[x].presence = "here"
Active(x) == Here(x) /\ row[x].isActive

\* Mutant: the tenant of the token need only exist.
AdmissibleIfHere(x) == Here(x)

\* resolveTenant() and login() let the tenant through.
Admissible(x) == Active(x)

\* Mutant: create() leaves the check to the database.
ExistingNever(sub) == FALSE

\* create() finds the subdomain in use.
Existing(sub) == \E x \in Ids : Here(x) /\ row[x].subdomain = sub

\* Mutant: the column is not declared unique.
ViolatesUniqueNever(sub) == FALSE

\* The database finds the subdomain in use.
ViolatesUnique(sub) == \E x \in Ids : Here(x) /\ row[x].subdomain = sub

\* Mutant: toggling switches the tenant on.
ToggledOn(b, seen) == [b EXCEPT !.isActive = TRUE, !.status = "active"]

\* Mutant: status is computed from the row, not from what was read.
ToggledHalfFresh(b, seen) ==
  [b EXCEPT !.isActive = ~seen, !.status = IF b.isActive THEN "inactive" ELSE "active"]

\* Mutant: the third status of the schema is used.
ToggledSuspended(b, seen) ==
  [b EXCEPT !.isActive = ~seen, !.status = IF seen THEN "suspended" ELSE "active"]

\* What toggleStatus() makes of row b when it has read isActive as `seen`.
Toggled(b, seen) ==
  [b EXCEPT !.isActive = ~seen, !.status = IF seen THEN "inactive" ELSE "active"]

-----------------------------------------------------------------------------
(* History                                                                 *)

\* Request q has checked what row b of tenant x makes different.
Concerned(q, x, b) ==
  /\ req[q].phase \in {"write", "reread"}
  /\ IF req[q].op = "create" /\ req[q].phase = "write"
     THEN req[q].sub = b.subdomain
     ELSE req[q].target = x

\* Request r writes b as the row of tenant x; `failed` is {r} if r is told that
\* it did not.
WriteRow(r, x, b, failed) ==
  /\ row' = [row EXCEPT ![x] = b]
  /\ disturbed' = failed \cup disturbed \cup
       {q \in Requests \ {r} : b # row[x] /\ Concerned(q, x, b)}
  /\ barred' = {q \in barred : ~(b.presence = "here" /\ b.isActive /\ req[q].caller = x)}

Unwritten == UNCHANGED <<row, disturbed, barred>>

\* Request r goes on as q.
Continue(r, q) == req' = [req EXCEPT ![r] = q]

Answer(r, answer) == Continue(r, Answered(answer))

-----------------------------------------------------------------------------
(* Requests                                                                *)

\* A request arrives.  It carries the token of a tenant that there is or was;
\* a login carries the credentials of one of its users.
Arrive(r, op, caller, target, sub) ==
  /\ req[r].phase = "done"
  /\ row[caller].presence # "never"
  /\ op = "login" => target = caller
  /\ op = "create" => target = caller
  /\ op # "create" => sub = AnySubdomain
  /\ Continue(r, NewReq(op, caller, target, sub))
  /\ disturbed' = disturbed \ {r}
  /\ barred' = IF Active(caller) THEN barred \ {r} ELSE barred \cup {r}
  /\ UNCHANGED row

\* authenticate(), or the first statement of login() and the password check.
\* Who the caller is does not matter afterwards.
Authenticate(r) ==
  /\ req[r].phase = "auth"
  /\ IF Admissible(req[r].caller)
     THEN Continue(r, [req[r] EXCEPT
                         !.phase = IF req[r].op = "login" THEN "write" ELSE "read",
                         !.caller = Seeded])
     ELSE Answer(r, "refused")
  /\ Unwritten

\* create() looks for the subdomain.
ReadForCreate(r) ==
  /\ req[r].phase = "read" /\ req[r].op = "create"
  /\ IF Existing(req[r].sub)
     THEN Answer(r, "rejected")
     ELSE Continue(r, [req[r] EXCEPT !.phase = "write"])
  /\ Unwritten

\* update(), toggleStatus() and delete() look for the tenant.
Read(r) ==
  /\ req[r].phase = "read" /\ req[r].op # "create"
  /\ IF Here(req[r].target)
     THEN Continue(r, [req[r] EXCEPT
                         !.phase = "write",
                         !.seen = req[r].op = "toggle" /\ row[req[r].target].isActive])
     ELSE Answer(r, "rejected")
  /\ Unwritten

Writing(r, op) == req[r].phase = "write" /\ req[r].op = op

\* Prisma's update() and delete() throw when the row is gone.
NoSuchRow(r) ==
  /\ ~Here(req[r].target)
  /\ Answer(r, "error")
  /\ Unwritten

\* create() inserts the row.
Insert(r) ==
  /\ Writing(r, "create")
  /\ \/ /\ ViolatesUnique(req[r].sub)
        /\ Answer(r, "error")
        /\ Unwritten
     \/ /\ ~ViolatesUnique(req[r].sub)
        /\ \E x \in Ids :
             /\ row[x].presence = "never"
             /\ WriteRow(r, x, ARow("here", req[r].sub), {})
             /\ Continue(r, [req[r] EXCEPT !.phase = "reread", !.target = x])

\* Mutant: update() is an upsert.
UpdateAsUpsert(r) ==
  /\ Writing(r, "update")
  /\ WriteRow(r, req[r].target, [row[req[r].target] EXCEPT !.presence = "here"], {})
  /\ Continue(r, [req[r] EXCEPT !.phase = "reread"])

\* update() writes the columns of the body, which has neither isActive nor
\* status nor subdomain.
Update(r) ==
  /\ Writing(r, "update")
  /\ \/ NoSuchRow(r)
     \/ /\ Here(req[r].target)
        /\ Continue(r, [req[r] EXCEPT !.phase = "reread"])
        /\ Unwritten

\* toggleStatus() writes the opposite of what it has read.
Toggle(r) ==
  /\ Writing(r, "toggle")
  /\ \/ NoSuchRow(r)
     \/ /\ Here(req[r].target)
        /\ WriteRow(r, req[r].target, Toggled(row[req[r].target], req[r].seen), {})
        /\ Answer(r, "ok")

\* delete(), with the users, API keys and audit rows of the tenant.
Delete(r) ==
  /\ Writing(r, "delete")
  /\ \/ NoSuchRow(r)
     \/ /\ Here(req[r].target)
        /\ WriteRow(r, req[r].target, ARow("deleted", AnySubdomain), {})
        /\ Answer(r, "ok")

\* login() sets lastLoginAt of the user, who is gone with the tenant.
Login(r) ==
  /\ Writing(r, "login")
  /\ \/ NoSuchRow(r)
     \/ Here(req[r].target) /\ Answer(r, "ok") /\ Unwritten

\* create() and update() read the row again for their answer.
Reread(r) ==
  /\ req[r].phase = "reread"
  /\ Answer(r, IF Here(req[r].target) THEN "ok" ELSE "rejected")
  /\ Unwritten

\* The database fails a statement and nothing is written.  authenticate() takes
\* that for a bad token.
DatabaseFails(r) ==
  /\ req[r].phase \in Busy
  /\ Answer(r, IF req[r].phase = "auth" /\ req[r].op # "login"
               THEN "refused" ELSE "error")
  /\ disturbed' = disturbed \cup {r}
  /\ UNCHANGED <<row, barred>>

\* The database carries the statement out and its answer is lost.
AnswerLost(r) ==
  /\ \/ /\ Writing(r, "create")
        /\ ~ViolatesUnique(req[r].sub)
        /\ \E x \in Ids :
             /\ row[x].presence = "never"
             /\ WriteRow(r, x, ARow("here", req[r].sub), {r})
     \/ /\ Here(req[r].target)
        /\ \/ /\ Writing(r, "toggle")
              /\ WriteRow(r, req[r].target,
                          Toggled(row[req[r].target], req[r].seen), {r})
           \/ /\ Writing(r, "delete")
              /\ WriteRow(r, req[r].target, ARow("deleted", AnySubdomain), {r})
  /\ Answer(r, "error")

Next ==
  \E r \in Requests :
    \/ \E op \in Op, caller, target \in Ids, sub \in Subdomains :
         Arrive(r, op, caller, target, sub)
    \/ Authenticate(r)
    \/ ReadForCreate(r) \/ Read(r)
    \/ Insert(r) \/ Update(r) \/ Toggle(r) \/ Delete(r) \/ Login(r)
    \/ Reread(r)
    \/ DatabaseFails(r) \/ AnswerLost(r)

Spec == Init /\ [][Next]_tenantVars

-----------------------------------------------------------------------------
(* Properties                                                              *)

\* Types.  The third TenantStatus of the schema, suspended, is never stored.
TypeOK ==
  /\ row \in [Ids -> Row]
  /\ req \in [Requests -> Req]
  /\ disturbed \subseteq Requests
  /\ barred \subseteq Requests

\* The two columns that say whether a tenant is in service never disagree,
\* whatever toggles overlap: resolveTenant() and the ONU worker read the one,
\* cache-warmer.job.ts:8 reads both.
StatusMatchesActive ==
  \A x \in Ids : row[x].isActive <=> row[x].status = "active"

\* No two tenants share a SmartOLT subdomain, and so a circuit.
SubdomainsUnique ==
  \A x, y \in Ids :
    Here(x) /\ Here(y) /\ row[x].subdomain = row[y].subdomain => x = y

\* A tenant that is out of service when a request of its own arrives, and
\* stays so, gets nothing done: the token outlives the suspension, but every
\* request looks the tenant up again.
BarredGetNothingDone ==
  \A r \in barred : req[r].phase \notin {"read", "write", "reread"}

\* No request brings a deleted tenant back, also not one that found the
\* tenant before it was deleted.
DeletedStaysDeleted ==
  [][\A x \in Ids :
       row[x].presence = "deleted" => row'[x].presence = "deleted"]_tenantVars

\* A request that has passed its own check fails afterwards only because
\* another request changed the tenant meanwhile, or for the database: these
\* are the 500s (and 404s of a PATCH that was carried out) a caller can get.
\* A failure does not mean that nothing was written (AnswerLost).
FailsOnlyIfDisturbed ==
  [][\A r \in Requests :
       req[r].phase \in {"write", "reread"} /\ req'[r].phase = "done"
         => req'[r].answer = "ok" \/ r \in disturbed']_tenantVars

\* tenant.routes.ts:39 calls it "Toggle tenant active status": a toggle
\* leaves the status as it is only when another request changed the tenant
\* between the read and the write of toggleStatus().
LostTogglesOverlap ==
  [][\A r \in Requests :
       Writing(r, "toggle") /\ req'[r].answer = "ok" /\ req'[r].phase = "done"
         => \/ row'[req[r].target].isActive # row[req[r].target].isActive
            \/ r \in disturbed]_tenantVars

\* Nobody can use the gateway, and no request is past authenticate() that could
\* change that.
LockedOut ==
  /\ \A x \in Ids : ~Active(x)
  /\ \A r \in Requests :
       req[r].op \in {"create", "toggle"} => req[r].phase \notin {"read", "write"}

\* Toggling or deleting the last active tenant locks everybody out for good:
\* what could let somebody in again has to pass authenticate() itself.
LockoutIsFinal == [][LockedOut => LockedOut']_tenantVars
=============================================================================
