----------------------------- MODULE HubRequest -----------------------------
(***************************************************************************)
(* One request after the other of a page through the browser hub: the page *)
(* adds its selected host, the HTTP route admits and reads it, the hub     *)
(* finds the host the identities in it belong to (or asks all hosts, each  *)
(* for a bounded time), and waits.  The file proxy does the same for       *)
(* requests that name a session in a header, the query or the body.  The   *)
(* hosts may be reconfigured at any time, and a host need not answer.      *)
(***************************************************************************)
EXTENDS Integers, FiniteSets, FiniteSetsExt

CONSTANTS Carriers,                  \* hosts a hub may have
          NoCarrier, RawIds,
          MaxRequests                \* bound

ASSUME RequestAssumption == IsFiniteSet(Carriers) /\ IsFiniteSet(RawIds)

VARIABLES
  perHost,         \* the hosts that are configured
  pageSelected,    \* the page's selectedHost
  hubSelected,     \* the hub's, which only an embedding sets
  request,         \* the present request as the page made it
  stage,           \* idle, reading, calling
  asked,           \* where the calls to the hosts stand
  status,          \* the status written last
  requests

reqVars == <<perHost, pageSelected, hubSelected, request, stage, asked, status, requests>>

Identity == [form : {"raw", "malformed"}, host : {NoCarrier}, raw : RawIds]
              \cup [form : {"composite"}, host : Carriers, raw : RawIds]

\* By the table the endpoint is in: "child" is a field that is mapped although it
\* is not looked at to find the host, as childSessionId of the session endpoints.
Kinds == {"rpc", "search", "file"}
Requests == [kind : Kinds, ids : {S \in SUBSET Identity : Cardinality(S) <= 2},
             child : {S \in SUBSET Identity : Cardinality(S) <= 1},
             selector : Carriers \cup {NoCarrier}]
NoRequest == [kind |-> "none", ids |-> {}, child |-> {}, selector |-> NoCarrier]

-----------------------------------------------------------------------------
(* The page. *)

\* normalizeHosts and mount of the selector: a known selection stays.
Mount(local) ==
  /\ local \in Carriers
  /\ pageSelected' = IF pageSelected \in perHost THEN pageSelected ELSE local
  /\ UNCHANGED <<perHost, hubSelected, request, stage, asked, status, requests>>

SelectHost(h) ==
  /\ h \in perHost \cup {NoCarrier}
  /\ pageSelected' = h
  /\ UNCHANGED <<perHost, hubSelected, request, stage, asked, status, requests>>

\* decorate: the page's host unless the request names one.
Decorated(r) ==
  IF r.selector = NoCarrier THEN [r EXCEPT !.selector = pageSelected] ELSE r

\* fileProxyBootstrap: only what names a remote session goes to the proxy.
Hooked(r) == r.child = {} /\ r.selector = NoCarrier /\ \E i \in r.ids : i.form # "raw"

Send(r) ==
  /\ stage = "idle" /\ requests < MaxRequests
  /\ r.kind = "file" => Hooked(r)
  /\ r.kind = "search" => r.ids = {} /\ r.child = {}
  /\ request' = IF r.kind = "file" THEN r ELSE Decorated(r)
  /\ requests' = requests + 1
  /\ stage' = "reading" /\ status' = 0
  /\ asked' = [h \in Carriers |-> "no"]
  /\ UNCHANGED <<perHost, pageSelected, hubSelected>>

Reconfigure(hosts) ==
  /\ hosts # perHost
  /\ perHost' = hosts
  /\ UNCHANGED <<pageSelected, hubSelected, request, stage, asked, status, requests>>

-----------------------------------------------------------------------------
(* Where a request goes. *)

\* identityHostIds, of the fields identityReferences lists; a malformed one throws.
IdentityHosts(r) == {i.host : i \in {j \in r.ids : j.form = "composite"}}
Malformed(ids) == \E i \in ids : i.form = "malformed"

\* #selectHost; NoCarrier is a refusal.
Selected(r) ==
  IF Malformed(r.ids) \/ Cardinality(IdentityHosts(r)) > 1 THEN NoCarrier
  ELSE IF Cardinality(IdentityHosts(r)) = 1 THEN CHOOSE h \in IdentityHosts(r) : TRUE
  ELSE IF r.selector # NoCarrier THEN r.selector
  ELSE hubSelected

\* rawIdentity and mapPayloadForHost: whether all of them may go to h.
MayGo(h, ids) == \A i \in ids : i.form = "raw" \/ (i.form = "composite" /\ i.host = h)

-----------------------------------------------------------------------------
(* The routes. *)

AnswerOf(code) ==
  /\ stage' = "idle" /\ status' = code /\ request' = NoRequest
  /\ UNCHANGED <<perHost, pageSelected, hubSelected, requests>>

\* Not admitted, an unknown endpoint, another method or content type.
Rejected ==
  /\ stage = "reading"
  /\ \E code \in {401, 403, 503, 404, 405, 415} : AnswerOf(code)
  /\ UNCHANGED asked

\* readBffBody and the decoder: too long, not JSON, or the client has left.
BodyFails ==
  /\ stage = "reading"
  /\ \E code \in {413, 400, 502} : AnswerOf(code)
  /\ UNCHANGED asked

\* call with one host.  A refusal is an answer of the RPC, with status 200.
CallOne ==
  /\ stage = "reading" /\ request.kind = "rpc"
  /\ LET h == Selected(request) IN
     IF h \in perHost /\ MayGo(h, request.ids \cup request.child)
     THEN /\ asked' = [asked EXCEPT ![h] = "asked"]
          /\ stage' = "calling"
          /\ UNCHANGED <<perHost, pageSelected, hubSelected, request, status, requests>>
     ELSE AnswerOf(200) /\ UNCHANGED asked

\* createFileProxyHandler: the places that name the session must agree.
CallFile ==
  /\ stage = "reading" /\ request.kind = "file"
  /\ IF Cardinality(request.ids) # 1 \/ \E i \in request.ids : i.form # "composite"
     THEN AnswerOf(400) /\ UNCHANGED asked
     ELSE LET h == CHOOSE h \in IdentityHosts(request) : TRUE IN
          IF h \notin perHost
          THEN AnswerOf(503) /\ UNCHANGED asked
          ELSE /\ asked' = [asked EXCEPT ![h] = "asked"]
               /\ stage' = "calling"
               /\ UNCHANGED <<perHost, pageSelected, hubSelected, request, status, requests>>

\* #aggregateCall: every host gets a bounded call.
CallAll ==
  /\ stage = "reading" /\ request.kind = "search"
  /\ asked' = [h \in Carriers |-> IF h \in perHost THEN "asked" ELSE "no"]
  /\ IF perHost = {} THEN AnswerOf(200)
     ELSE /\ stage' = "calling"
          /\ UNCHANGED <<perHost, pageSelected, hubSelected, request, status, requests>>

\* A host answers; the last one that is waited for lets the answer go.
Done(h, how) ==
  /\ stage = "calling" /\ asked[h] = "asked"
  /\ asked' = [asked EXCEPT ![h] = how]
  /\ IF \E g \in Carriers \ {h} : asked[g] = "asked"
     THEN UNCHANGED <<perHost, pageSelected, hubSelected, request, stage, status, requests>>
     ELSE AnswerOf(IF request.kind = "file" /\ how # "ok" THEN 502 ELSE 200)

HostAnswers(h) == Done(h, "ok") \/ Done(h, "failed")

\* Variant, not the code: the timer goes with the entry of a host that is removed.
TimesOutConfigured(h) == h \in perHost /\ request.kind = "search" /\ Done(h, "timeout")

\* #boundedAggregateHostCall: the timer of one host, also of one that was removed.
TimesOut(h) == request.kind = "search" /\ Done(h, "timeout")

\* The page leaves: all that is waited for is given up.
PageLeaves ==
  /\ stage = "calling"
  /\ asked' = [h \in Carriers |-> IF asked[h] = "asked" THEN "failed" ELSE asked[h]]
  /\ AnswerOf(0)

-----------------------------------------------------------------------------
ReqInit ==
  /\ perHost \in SUBSET Carriers /\ pageSelected = NoCarrier
  /\ hubSelected \in Carriers \cup {NoCarrier}
  /\ request = NoRequest /\ stage = "idle" /\ asked = [h \in Carriers |-> "no"]
  /\ status = 0 /\ requests = 0

ReqNext ==
  \/ \E h \in Carriers \cup {NoCarrier} : SelectHost(h) \/ Mount(h)
  \/ \E r \in Requests : Send(r)
  \/ \E hosts \in SUBSET Carriers : Reconfigure(hosts)
  \/ Rejected \/ BodyFails \/ CallOne \/ CallFile \/ CallAll \/ PageLeaves
  \/ \E h \in Carriers : HostAnswers(h) \/ TimesOut(h)

\* Only the timers of the hub are fair; a host may hang, and a page may stay.
TimersRun == \A h \in Carriers : WF_reqVars(TimesOut(h))
ReqSpec == ReqInit /\ [][ReqNext]_reqVars /\ TimersRun

-----------------------------------------------------------------------------
(* What makes it correct. *)

\* A call to all hosts ends, although some of them hang or fail, and although hosts that
\* are waited for are removed from the settings, or come back, meanwhile
\* (#aggregateCall, #boundedAggregateHostCall, #entries).
SearchesEnd == request.kind = "search" /\ stage = "calling" ~> stage = "idle"
=============================================================================
