------------------------------- MODULE Delivery -------------------------------
(***************************************************************************)
(* What the server sends: notifications of announcements and class group   *)
(* messages, the reminders of a background scan                            *)
(* (src/src/modules/announcements, class-groups, notifications,            *)
(* src/src/queue), and webhooks (src/src/modules/webhooks).                *)
(*                                                                         *)
(* Everything is sent inline by the handler or the scan that caused it,    *)
(* one query at a time; nothing is queued but the scan itself, which       *)
(* BullMQ starts again and again.  An audience is whoever belongs to it as *)
(* it is resolved (Audience says who does): students and faculty come and   *)
(* go.  EMAIL stands for every channel that needs an integration.          *)
(***************************************************************************)
EXTENDS Naturals, FiniteSets, Requests, Rows

CONSTANTS
    Users,
    Anns,        \* ids of announcements, never reused (cuid)
    Messages,    \* ids of class group messages, never reused
    Endpoints,   \* ids of webhook endpoints, never reused
    Events,      \* occasions on which webhooks are triggered
    MaxCrashes   \* bound: a crash or a failed query happens finitely often

Areas == {"reminder", "notice", "webhook"}

ASSUME DeliveryAssumption ==
    /\ \A m \in Modes : m.area \in Areas /\ m.scope \subseteq Anns
    /\ MaxCrashes \in Nat /\ "NONE" \notin Users

VARIABLES
    crashes,   \* how many requests died
    ann,       \* ann[a]: the announcement row
    covered,   \* history: covered[a], whom a scan had resolved when it wrote reminderSentAt
    posted,    \* the class group messages that exist
    muted,     \* users who opted out of EMAIL
    mail,      \* whether the EMAIL integration is enabled
    notes,     \* notes[t, x, u]: how many Notification rows tell u of x, and their deliveries
    endpoint,  \* endpoint[e]: the WebhookEndpoint row
    hook,      \* hook[v, e]: the WebhookDelivery row
    received   \* history: <<v, e>> that reached the endpoint

people == <<muted, mail>>
hooks  == <<endpoint, hook, received>>
deliveryVars == <<mode, crashes, ann, covered, posted, people, notes, hooks, req>>

Area       == mode.area

Topics   == {"published", "reminder", "message"}
Told     == {"published", "reminder"} \X Anns \X Users \cup {"message"} \X Messages \X Users

\* soon: expiryAt is within the next 24 hours; sent: reminderSentAt.
AnnRow  == [soon : BOOLEAN, sent : BOOLEAN]
\* in_app, email: how many of the rows have a delivery by that channel.
Notes   == [rows : Nat, in_app : Nat, email : Nat]
HookRow == [status : {"PENDING", "DELIVERED", "FAILED"}, attempts : 0..1]
\* What is left to do for an endpoint: see the webhooks below.
Stage   == {"row", "post", "answered", "refused", "error", "end"}

Dispatch(q) ==
    /\ q.topic \in Topics /\ q.of \in Anns \cup Messages /\ q.rest \subseteq Anns
    /\ q.but \subseteq Users /\ q.to \subseteq Users
    /\ q.left \subseteq q.to /\ q.mail \subseteq q.to /\ q.now \in Users \cup {"NONE"}

DeliveryTypeOK ==
    /\ crashes \in 0..MaxCrashes
    /\ ann \in [Anns -> AnnRow \cup {NoRow, Deleted}]
    /\ covered \in [Anns -> SUBSET Users]
    /\ posted \subseteq Messages
    /\ muted \subseteq Users /\ mail \in BOOLEAN
    /\ notes \in [Told -> Notes]
    /\ endpoint \in [Endpoints -> {NoRow, Deleted} \cup [enabled : BOOLEAN]]
    /\ hook \in [Events \X Endpoints -> HookRow \cup {NoRow, Deleted}]
    /\ received \subseteq Events \X Endpoints
    /\ \A r \in Reqs :
         \/ req[r] = Idle
         \/ req[r].pc \in {"resolve", "dispatch", "notify", "deliver", "stamp"} /\ Dispatch(req[r])
         \/ req[r].pc = "fire" /\ req[r].v \in Events /\ req[r].stage \in [Endpoints -> Stage]

DeliveryInit ==
    /\ mode \in Modes
    /\ crashes = 0
    /\ ann = [a \in Anns |-> NoRow]
    /\ covered = [a \in Anns |-> {}]
    /\ posted = {}
    /\ muted = {} /\ mail = (Area = "notice")
    /\ notes = [k \in Told |-> [rows |-> 0, in_app |-> 0, email |-> 0]]
    /\ endpoint = [e \in Endpoints |-> NoRow]
    /\ hook = [d \in Events \X Endpoints |-> NoRow]
    /\ received = {}
    /\ req = [r \in Reqs |-> Idle]

-----------------------------------------------------------------------------
\* Request bookkeeping.

AtWorkOn(q) ==
    CASE req[q].pc \in {"resolve", "dispatch", "notify", "deliver", "stamp"} -> Anns \cup Users
      [] OTHER -> {}

\* The code serialises nothing (MayOverlap); otherwise requests
\* that touch the same thing take turns.
MayStartOn(r, things) ==
    /\ req[r] = Idle
    /\ MayOverlap \/ \A q \in Reqs : AtWorkOn(q) \cap things = {}

\* The server stops, or a query fails: earlier queries of r stay committed.
DeliveryDie(r) ==
    /\ Faults /\ req[r] # Idle
    /\ crashes < MaxCrashes
    /\ crashes' = crashes + 1
    /\ Done(r)
    /\ UNCHANGED <<ann, covered, posted, people, notes, hooks>>

-----------------------------------------------------------------------------
\* dispatchNotification and who it is for.

\* To all who belong but some; rest: the announcements a scan goes on to.
ResolveFor(topic, of, but, rest) ==
    [pc |-> "resolve", topic |-> topic, of |-> of, but |-> but, rest |-> rest,
     to |-> {}, left |-> {}, mail |-> {}, now |-> "NONE"]

\* Nobody left to tell; a scan writes reminderSentAt only now.
AllTold(r, q) ==
    IF q.topic = "reminder" THEN Goto(r, [q EXCEPT !.pc = "stamp", !.now = "NONE"]) ELSE Done(r)

\* resolveAudienceUserIds, resolveClassGroupRecipients
Resolve(r) ==
    /\ At(r, "resolve")
    /\ \E to \in SUBSET (Users \ req[r].but) :
         LET q == [req[r] EXCEPT !.to = to, !.left = to, !.pc = "dispatch"]
         IN  IF to = {} THEN AllTold(r, q) ELSE Goto(r, q)
    /\ UNCHANGED <<crashes, ann, covered, posted, people, notes, hooks>>

\* Whose preferences allow EMAIL; the mutant ignores them.
Mutant_Reachable(to) == IF mail THEN to ELSE {}
Reachable(to) == IF mail THEN to \ muted ELSE {}

\* Integrations and preferences are read once, for all recipients (the two reads are
\* taken as one).
ReadPreferences(r) ==
    /\ At(r, "dispatch")
    /\ Goto(r, [req[r] EXCEPT !.pc = "notify", !.mail = Reachable(req[r].to)])
    /\ UNCHANGED <<crashes, ann, covered, posted, people, notes, hooks>>

\* For each recipient a row, then its deliveries; the order is that of the query.
CreateNotification(r, u) ==
    /\ At(r, "notify") /\ u \in req[r].left
    /\ notes' = [notes EXCEPT ![<<req[r].topic, req[r].of, u>>].rows = @ + 1]
    /\ Goto(r, [req[r] EXCEPT !.pc = "deliver", !.left = @ \ {u}, !.now = u])
    /\ UNCHANGED <<crashes, ann, covered, posted, people, hooks>>

\* One createMany.
Delivered(row, byMail) ==
    [row EXCEPT !.in_app = @ + 1, !.email = IF byMail THEN @ + 1 ELSE @]

\* The mutant returns after the first recipient.
Mutant_LoopEnds(q) == TRUE
LoopEnds(q) == q.left = {}

CreateDeliveries(r) ==
    /\ At(r, "deliver")
    /\ LET q == req[r] IN
         /\ notes' = [notes EXCEPT ![<<q.topic, q.of, q.now>>] = Delivered(@, q.now \in q.mail)]
         /\ IF LoopEnds(q) THEN AllTold(r, q) ELSE Goto(r, [q EXCEPT !.pc = "notify", !.now = "NONE"])
    /\ UNCHANGED <<crashes, ann, covered, posted, people, hooks>>

-----------------------------------------------------------------------------
\* Announcements and class group messages.

\* The department, program, batch or section it names is taken to exist; only
\* what is live now is told at once.
CreateAnnouncement(r, u, a, soon, live) ==
    /\ MayStartOn(r, Anns \cup Users)
    /\ Area = (IF live THEN "notice" ELSE "reminder")
    /\ a \in mode.scope /\ ann[a] = NoRow
    /\ ann' = [ann EXCEPT ![a] = [soon |-> soon, sent |-> FALSE]]
    /\ IF live THEN Goto(r, ResolveFor("published", a, {u}, {})) ELSE UNCHANGED req
    /\ UNCHANGED <<crashes, covered, posted, people, notes, hooks>>

\* The row is read before, which only tells a 404 from a query that fails;
\* reminderSentAt is not part of the input.
UpdateAnnouncement(r, a, soon) ==
    /\ MayStartOn(r, {a}) /\ Area = "reminder"
    /\ Exists(ann[a])                             \* else 404
    /\ ann' = [ann EXCEPT ![a].soon = soon]
    /\ UNCHANGED <<crashes, covered, posted, people, notes, hooks, req>>

DeleteAnnouncement(r, a) ==
    /\ MayStartOn(r, {a}) /\ Area = "reminder"
    /\ Exists(ann[a])                             \* else 404
    /\ ann' = [ann EXCEPT ![a] = Deleted]
    /\ UNCHANGED <<crashes, covered, posted, people, notes, hooks, req>>

\* By someone assertAccess lets through.
PostMessage(r, u, m) ==
    /\ MayStartOn(r, Anns \cup Users) /\ Area = "notice"
    /\ m \notin posted
    /\ posted' = posted \cup {m}
    /\ Goto(r, ResolveFor("message", m, {u}, {}))
    /\ UNCHANGED <<crashes, ann, covered, people, notes, hooks>>

\* Time passes: an expiryAt comes near, or is past.
TimePasses(a) ==
    /\ Area = "reminder" /\ Exists(ann[a])
    /\ ann' = [ann EXCEPT ![a].soon = ~@]
    /\ UNCHANGED <<crashes, covered, posted, people, notes, hooks, req>>

SetPreference(r, u) ==
    /\ MayStartOn(r, {u}) /\ Area = "notice"
    /\ muted' = IF u \in muted THEN muted \ {u} ELSE muted \cup {u}
    /\ UNCHANGED <<crashes, ann, covered, posted, mail, notes, hooks, req>>

UpsertIntegration(r, on) ==
    /\ MayStartOn(r, Users) /\ Area = "notice"
    /\ mail' = on
    /\ UNCHANGED <<crashes, ann, covered, posted, muted, notes, hooks, req>>

-----------------------------------------------------------------------------
\* The reminder scan.

Due(a) == Exists(ann[a]) /\ ann[a].soon /\ ~ann[a].sent

\* BullMQ starts a run every 15 minutes.
StartScan(r) ==
    /\ MayStartOn(r, Anns \cup Users) /\ Area = "reminder"
    /\ \E a \in {b \in Anns : Due(b)} :
         Goto(r, ResolveFor("reminder", a, {}, {b \in Anns : Due(b)} \ {a}))
    /\ UNCHANGED <<crashes, ann, covered, posted, people, notes, hooks>>

\* The update of an announcement deleted since fails, and ends the run.
StampReminder(r) ==
    /\ At(r, "stamp")
    /\ LET q == req[r] IN
         IF Exists(ann[q.of])
         THEN /\ ann' = [ann EXCEPT ![q.of].sent = TRUE]
              /\ covered' = [covered EXCEPT ![q.of] = q.to]
              /\ \/ q.rest = {} /\ Done(r)
                 \/ \E a \in q.rest : Goto(r, ResolveFor("reminder", a, {}, q.rest \ {a}))
         ELSE Done(r) /\ UNCHANGED <<ann, covered>>
    /\ UNCHANGED <<crashes, posted, people, notes, hooks>>

-----------------------------------------------------------------------------
\* Webhooks.  For each endpoint: a row, a request, and the answer written to the row.

CreateEndpoint(r, e) ==
    /\ req[r] = Idle /\ Area = "webhook"
    /\ endpoint[e] = NoRow
    /\ endpoint' = [endpoint EXCEPT ![e] = [enabled |-> TRUE]]
    /\ UNCHANGED <<crashes, ann, covered, posted, people, notes, hook, received, req>>

UpdateEndpoint(r, e, on) ==
    /\ req[r] = Idle /\ Area = "webhook"
    /\ Exists(endpoint[e])                        \* else 404
    /\ endpoint' = [endpoint EXCEPT ![e].enabled = on]
    /\ UNCHANGED <<crashes, ann, covered, posted, people, notes, hook, received, req>>

\* Its deliveries go with it (CASCADE).
DeleteEndpoint(r, e) ==
    /\ req[r] = Idle /\ Area = "webhook"
    /\ Exists(endpoint[e])                        \* else 404
    /\ endpoint' = [endpoint EXCEPT ![e] = Deleted]
    /\ hook' = [d \in Events \X Endpoints |-> IF d[2] = e /\ Exists(hook[d]) THEN Deleted ELSE hook[d]]
    /\ UNCHANGED <<crashes, ann, covered, posted, people, notes, received, req>>

Fired(v) == \/ \E e \in Endpoints : hook[v, e] # NoRow
            \/ \E q \in Reqs : req[q].pc = "fire" /\ req[q].v = v

TriggerWebhooks(r, v) ==
    /\ req[r] = Idle /\ Area = "webhook"
    /\ ~Fired(v)
    /\ LET on == {e \in Endpoints : Exists(endpoint[e]) /\ endpoint[e].enabled} IN
         /\ on # {}
         /\ Goto(r, [pc |-> "fire", v |-> v,
                     stage |-> [e \in Endpoints |-> IF e \in on THEN "row" ELSE "end"]])
    /\ UNCHANGED <<crashes, ann, covered, posted, people, notes, hooks>>

Stands(r, e, stage) == At(r, "fire") /\ req[r].stage[e] = stage
GoOn(r, e, stage) ==
    LET next == [req[r].stage EXCEPT ![e] = stage] IN
      IF \A f \in Endpoints : next[f] = "end" THEN Done(r) ELSE Goto(r, [req[r] EXCEPT !.stage = next])

NewHook == [status |-> "PENDING", attempts |-> 0]

\* An endpoint deleted since has no deliveries.
HookInsert(r, e) ==
    /\ Stands(r, e, "row")
    /\ IF Exists(endpoint[e])
       THEN /\ hook' = [hook EXCEPT ![<<req[r].v, e>>] = NewHook]
            /\ GoOn(r, e, "post")
       ELSE UNCHANGED hook /\ GoOn(r, e, "end")
    /\ UNCHANGED <<crashes, ann, covered, posted, people, notes, endpoint, received>>

\* The request arrives or not; the answer is good, is not, or never comes (the url no
\* longer passes, the connection fails, DELIVERY_TIMEOUT_MS).
Post(r, e) ==
    /\ Stands(r, e, "post")
    /\ \E outcome \in {"answered", "refused", "error"}, arrives \in BOOLEAN :
         /\ outcome # "error" => arrives
         /\ received' = IF arrives THEN received \cup {<<req[r].v, e>>} ELSE received
         /\ GoOn(r, e, outcome)
    /\ UNCHANGED <<crashes, ann, covered, posted, people, notes, endpoint, hook>>

\* The answer decides; the mutant takes an error for one.
Mutant_Verdict(stage) == IF stage = "refused" THEN "FAILED" ELSE "DELIVERED"
Verdict(stage) == IF stage = "answered" THEN "DELIVERED" ELSE "FAILED"

\* The update after the answer, or the one that catches an error; the mutant only logs
\* errors.
Mutant_Settled(row, stage) ==
    IF stage = "error" THEN row ELSE [status |-> Verdict(stage), attempts |-> row.attempts + 1]
Settled(row, stage) == [status |-> Verdict(stage), attempts |-> row.attempts + 1]

HookWrite(r, e) ==
    /\ \E stage \in {"answered", "refused", "error"} :
         /\ Stands(r, e, stage)
         /\ hook' = IF Exists(hook[req[r].v, e])
                    THEN [hook EXCEPT ![<<req[r].v, e>>] = Settled(@, stage)] ELSE hook
    /\ GoOn(r, e, "end")
    /\ UNCHANGED <<crashes, ann, covered, posted, people, notes, endpoint, received>>

\* The first update fails and is caught: the second says FAILED.
AnswerLost(r, e) ==
    /\ Faults /\ crashes < MaxCrashes
    /\ Stands(r, e, "answered") \/ Stands(r, e, "refused")
    /\ crashes' = crashes + 1
    /\ GoOn(r, e, "error")
    /\ UNCHANGED <<ann, covered, posted, people, notes, hooks>>

-----------------------------------------------------------------------------
DeliveryBegin(r) ==
    \/ \E u \in Users :
         \/ \E a \in Anns, soon \in BOOLEAN, live \in BOOLEAN :
              CreateAnnouncement(r, u, a, soon, live)
         \/ \E m \in Messages : PostMessage(r, u, m)
         \/ SetPreference(r, u)
    \/ \E a \in Anns : DeleteAnnouncement(r, a) \/ \E soon \in BOOLEAN : UpdateAnnouncement(r, a, soon)
    \/ \E on \in BOOLEAN : UpsertIntegration(r, on)
    \/ \E e \in Endpoints :
         CreateEndpoint(r, e) \/ DeleteEndpoint(r, e) \/ \E on \in BOOLEAN : UpdateEndpoint(r, e, on)
    \/ \E v \in Events : TriggerWebhooks(r, v)

DeliveryContinue(r) ==
    \/ Resolve(r) \/ ReadPreferences(r) \/ CreateDeliveries(r) \/ StampReminder(r)
    \/ \E u \in Users : CreateNotification(r, u)
    \/ \E e \in Endpoints : HookInsert(r, e) \/ Post(r, e) \/ HookWrite(r, e)

DeliveryNext ==
    /\ \/ \E r \in Reqs :
            \/ DeliveryBegin(r) \/ StartScan(r) \/ DeliveryContinue(r) \/ DeliveryDie(r)
            \/ \E e \in Endpoints : AnswerLost(r, e)
       \/ \E a \in Anns : TimePasses(a)
    /\ UNCHANGED mode

\* A handler that waits for nothing but its own queries, and for an answer at most
\* DELIVERY_TIMEOUT_MS, goes on; the scan is started for ever.
Fairness ==
    \A r \in Reqs : /\ WF_deliveryVars(DeliveryContinue(r) /\ UNCHANGED mode)
                    /\ WF_deliveryVars(StartScan(r) /\ UNCHANGED mode)

DeliverySpec == DeliveryInit /\ [][DeliveryNext]_deliveryVars /\ Fairness

-----------------------------------------------------------------------------
\* Properties.

\* The requests about to deliver a row they created.
Underway(k) == {r \in Reqs : At(r, "deliver") /\ <<req[r].topic, req[r].of, req[r].now>> = k}

\* However scans overlap and die, reminderSentAt is only there when everyone the scan
\* resolved has been reminded: a reminder may be repeated, never skipped.
RemindedAtLeastOnce ==
    \A a \in Anns : \A u \in covered[a] : notes["reminder", a, u].rows > 0

\* Unless a request dies, every notification is delivered IN_APP, and as long as
\* requests take turns nobody is told the same thing twice.
NoticesWhole ==
    ~Faults =>
      \A k \in Told :
        /\ notes[k].rows = notes[k].in_app + Cardinality(Underway(k))
        /\ ~MayOverlap => notes[k].rows <= 1

\* DELIVERED is only written of a webhook the endpoint received, however requests
\* overlap and die, and unless one dies PENDING means that a request is at it.
WebhooksHonest ==
    /\ \A d \in Events \X Endpoints :
         Exists(hook[d]) /\ hook[d].status = "DELIVERED" => d \in received
    /\ ~Faults => \A d \in Events \X Endpoints :
         Exists(hook[d]) /\ hook[d].status = "PENDING" =>
           \E r \in Reqs : req[r].pc = "fire" /\ req[r].v = d[1] /\ req[r].stage[d[2]] # "end"

\* As long as requests take turns, EMAIL is only attempted for who has not opted out,
\* while the integration is enabled.
OptOutsRespected ==
    [][~MayOverlap =>
         \A k \in Told : notes'[k].email > notes[k].email => mail /\ k[3] \notin muted]_deliveryVars

\* Crashes are survived: an announcement that stays within its last 24 hours is
\* reminded of in the end, and unless a request dies every webhook is settled.
EverythingGoesOut ==
    /\ \A a \in Anns : Area = "reminder" /\ Due(a) ~> ~Due(a)
    /\ \A d \in Events \X Endpoints :
         ~Faults /\ Exists(hook[d]) /\ hook[d].status = "PENDING" ~>
           ~(Exists(hook[d]) /\ hook[d].status = "PENDING")

\* Nobody is forgotten and nobody told half.
NotificationsSound == DeliveryTypeOK /\ RemindedAtLeastOnce /\ NoticesWhole

=============================================================================
