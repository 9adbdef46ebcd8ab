------------------------------ MODULE ApiSuite ------------------------------
(* One case of the API suite (goal_api_suite.cjs, verifyOneCase): hooks, the *)
(* database snapshots around all requests of the case, the requests one at a *)
(* time (requestOnce), and what is judged of their responses.  The server is *)
(* external: serving a request may change the one value of its database, and *)
(* a response shows it.  What it does for a request may go on after the      *)
(* client has its answer, or has given the request up.                       *)
EXTENDS Naturals, FiniteSets

CONSTANTS MaxRepeat, MaxRows, MaxRetries   \* bounds of what a case declares

ASSUME ApiAssumption == MaxRepeat \in Nat \ {0} /\ MaxRows \in Nat /\ MaxRetries \in Nat

VARIABLES
  api,        \* what the case declares
  part,       \* the part of verifyOneCase that is next
  sent,       \* requests of this part that were answered
  wire,       \* the request under way
  store,      \* the server's database
  shots,      \* the snapshots before and after
  start,      \* the database when the first was taken
  first,      \* the first response
  refused,    \* obligations that failed
  untouched,  \* db_side_effects passed for a case that declares `unchanged`
  afloat,     \* work of the server that may still go on: of requests whose failure was
              \* "judged", and of ones nobody saw fail, "unseen"
  late        \* which of it changed the database after the second snapshot

apiVars == <<api, part, sent, wire, store, shots, start, first, refused, untouched, afloat, late>>

Parts == <<"setup", "before", "main", "auth", "matrix", "again", "retry", "after", "teardown", "done">>
Requesting == {"main", "auth", "matrix", "again", "retry"}
Blank == 2       \* null, beside the values 0 and 1: not taken, no JSON, or the command failed
NoResponse == [status |-> 0, shows |-> Blank]

ApiCases ==
  [db : {"none", "any", "unchanged"}, repeat : 1 .. MaxRepeat, auth : BOOLEAN,
   rows : 0 .. MaxRows, idempotent : BOOLEAN, retries : 0 .. MaxRetries]

ApiInit ==
  /\ api \in ApiCases
  /\ part = "setup" /\ sent = 0 /\ wire = "idle"
  /\ store = 0 /\ start = 0 /\ shots = [before |-> Blank, after |-> Blank]
  /\ first = NoResponse /\ refused = {} /\ untouched = FALSE
  /\ afloat = {} /\ late = {}

\* Mutant: the snapshot after the request is taken before the retries.
FollowingEarly(p) ==
  CASE p = "again" -> "after" [] p = "after" -> "retry" [] p = "retry" -> "teardown"
    [] OTHER -> LET i == CHOOSE k \in 1 .. 9 : Parts[k] = p IN Parts[i + 1]
Following(p) == LET i == CHOOSE k \in 1 .. 9 : Parts[k] = p IN Parts[i + 1]
Quota(p) ==
  CASE p = "main" -> api.repeat
    [] p = "auth" -> IF api.auth THEN 1 ELSE 0
    [] p = "matrix" -> api.rows
    [] p = "again" -> IF api.idempotent THEN 1 ELSE 0
    [] p = "retry" -> api.retries

Refuse(obligation) == refused' = refused \cup {obligation}
Judged(obligation, ok) == IF ok THEN UNCHANGED refused ELSE Refuse(obligation)

\* The hooks: commands that may do anything to the database.  No failing one ends the case.
Hook ==
  /\ part \in {"setup", "teardown"} /\ part' = Following(part)
  /\ UNCHANGED refused \/ Refuse("state_hooks")
  /\ store' \in {0, 1}
  /\ UNCHANGED <<api, sent, wire, shots, start, first, untouched, afloat, late>>

\* snapshotDatabase: a failing command is a failure, output that is no JSON is null.
Shoots(p) ==
  IF api.db = "none" THEN UNCHANGED <<shots, refused>>
  ELSE \/ shots' = [shots EXCEPT ![p] = store] /\ UNCHANGED refused
       \/ UNCHANGED <<shots, refused>>
       \/ UNCHANGED shots /\ Refuse("db_side_effects")

SnapshotFirst ==
  /\ part = "before" /\ Shoots("before") /\ start' = store
  /\ part' = Following(part)
  /\ UNCHANGED <<api, sent, wire, store, first, untouched, afloat, late>>

SnapshotLast ==
  /\ part = "after" /\ part' = Following(part)
  /\ \E shot \in {store, Blank}, exit \in {0, 1} :
       /\ api.db = "none" => shot = Blank /\ exit = 0
       /\ exit # 0 => shot = Blank
       /\ shots' = [shots EXCEPT !.after = shot]
       /\ LET compared == api.db = "unchanged"
              differs == compared /\ shots.before # shot
          IN /\ Judged("db_side_effects", exit = 0 /\ ~differs)
             /\ untouched' = (compared /\ ~differs)
  /\ UNCHANGED <<api, sent, wire, store, start, first, afloat, late>>

(********************************* requestOnce ******************************)

Send ==
  /\ part \in Requesting /\ sent < Quota(part) /\ wire = "idle" /\ wire' = "sent"
  /\ UNCHANGED <<api, part, sent, store, shots, start, first, refused, untouched, afloat, late>>

\* The server works the request and begins its response.
Serve ==
  /\ wire = "sent" /\ wire' = "begun" /\ store' \in {0, 1}
  /\ UNCHANGED <<api, part, sent, shots, start, first, refused, untouched, afloat, late>>

\* The server goes on with a request that the case is through with.
ServeLate ==
  /\ part # "done" /\ store' = 1 - store
  /\ \E work \in afloat : late' = IF part = "teardown" THEN late \cup {work} ELSE late
  /\ UNCHANGED <<api, part, sent, wire, shots, start, first, refused, untouched, afloat>>

\* What each part looks at in the response it gets; of the repeated requests of
\* "main" only the first is judged.
Uses(r) ==
  CASE part = "main" ->
         IF sent = 0 THEN first' = r /\ Judged("status_code", r.status = 200)
                     ELSE UNCHANGED <<first, refused>>
    [] part = "auth" -> UNCHANGED first /\ Judged("auth_invariant", r.status = 403)
    [] part = "matrix" -> UNCHANGED first /\ Judged("auth_matrix", r.status \in {200, 403})
    [] part = "again" -> UNCHANGED first /\ Judged("idempotency", r = first)
    [] part = "retry" -> UNCHANGED first /\ Judged("retry_behavior", r.status = 200)
Resolve(r) == wire' = "idle" /\ sent' = sent + 1 /\ Uses(r)

EndResponse ==
  /\ wire = "begun"
  /\ \E status \in {200, 403, 500} : Resolve([status |-> status, shows |-> store])
  /\ afloat' \in {afloat, afloat \cup {"unseen"}}
  /\ UNCHANGED <<api, part, store, shots, start, untouched, late>>

\* 'error', and 'timeout' by destroying the request, while no response has begun.  The
\* server may have the request all the same.
RequestFails ==
  /\ wire = "sent" /\ Resolve(NoResponse)
  /\ afloat' = afloat \cup {IF part = "main" /\ sent > 0 THEN "unseen" ELSE "judged"}
  /\ UNCHANGED <<api, part, store, shots, start, untouched, late>>

\* A response that breaks off, or is destroyed by the timeout, ends with 'aborted'
\* on the response, to which nobody listens: the promise stays pending.
BreakOff ==
  /\ wire = "begun" /\ wire' = "cut"
  /\ UNCHANGED <<api, part, sent, store, shots, start, first, refused, untouched, afloat, late>>

NextPart ==
  /\ part \in Requesting /\ sent = Quota(part) /\ wire = "idle"
  /\ part' = Following(part) /\ sent' = 0
  /\ UNCHANGED <<api, wire, store, shots, start, first, refused, untouched, afloat, late>>

ApiStep ==
  \/ Hook \/ SnapshotFirst \/ SnapshotLast
  \/ Send \/ Serve \/ ServeLate \/ EndResponse \/ RequestFails \/ BreakOff \/ NextPart
ApiSpec == ApiInit /\ [][ApiStep]_apiVars

(******************************** properties ********************************)

\* The verdict on a database declared `unchanged` is about every request of the case, the
\* denied, matrix, repeated and retried ones too: where both snapshots were read and the
\* database is not what it was at the start, the server changed it after the second
\* snapshot, and did so for a request that it had answered, for a repeated one, whose
\* failure nobody judges, or for one that failed the case (verifyOneCase, requestOnce).
NoWriteEscapes ==
  /\ part = "teardown" /\ untouched /\ Blank \notin {shots.before, shots.after} /\ store # start
  => "unseen" \in late \/ ("judged" \in late /\ refused # {})

\* Not so in the code: a case without failures leaves a database that passed as unchanged
\* unchanged.  A repeated request times out, and is worked after the second snapshot.
QuietCaseIsUnchanged ==
  /\ part = "teardown" /\ untouched /\ Blank \notin {shots.before, shots.after} /\ refused = {}
  => store = start

\* Not so in the code: a database passes as unchanged when there are two snapshots to
\* compare.  Two commands that print no JSON give null twice.
PassComparedSnapshots == untouched => Blank \notin {shots.before, shots.after}
=============================================================================
