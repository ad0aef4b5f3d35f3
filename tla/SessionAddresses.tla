--------------------------- MODULE SessionAddresses ---------------------------
(***************************************************************************)
(* How the mobile stream service finds the address of a session: the list  *)
(* tells if it is a child and of whom, the catalog of the parent if it can *)
(* be talked to.  Both are kept, both are asked for once however many wait.*)
(***************************************************************************)
EXTENDS Integers, FiniteSets, Sequences

CONSTANTS Parents, Lookups

VARIABLES
  tree,           \* of the host: what the session is, "unlisted", "session" or its parent
  entries,        \* of the host: what the catalog of each parent says of it
  summary,        \* what the book has it for, "unlisted" if it never heard
  catalogs,       \* the catalogs that were got, "none" for none
  ttl,            \* parents whose catalog has not expired
  catalogFailures,  \* parents whose catalog is known to be corrupt, for a shorter time
  listLoads,      \* calls of list in flight: of refresh and of the background poll
  catalogLoads,   \* calls of remoteExportList in flight, one a parent
  lookups         \* calls of resolve

bookVars == <<tree, entries, summary, catalogs, ttl, catalogFailures, listLoads, catalogLoads, lookups>>
hostTree == <<tree, entries>>

\* A call of the host: none, sent, or answered with what the host had by then.
NotSent == <<>>
Sent == <<"sent">>
Got(answer) == <<"got", answer>>
Settled(call) == Len(call) = 2
Joined(call) == IF call = NotSent THEN Sent ELSE call

NoLookup == [stage |-> "idle", on |-> "none", result |-> "none"]
Finish(r, result) == [lookups EXCEPT ![r].stage = "done", ![r].result = result]

-----------------------------------------------------------------------------
(* The host: a session appears, then it is known to be a child, then the   *)
(* catalog of its parent has it, if without a diagnostic.                  *)

Lists ==
  /\ tree \notin Parents /\ tree' \in ({"session"} \cup Parents) \ {tree}
  /\ UNCHANGED <<entries, summary, catalogs, ttl, catalogFailures, listLoads, catalogLoads, lookups>>

Catalogs(p) ==
  /\ tree = p /\ entries[p] # "child" /\ \E e \in {"diagnostic", "child"} : entries' = [entries EXCEPT ![p] = e]
  /\ UNCHANGED <<tree, summary, catalogs, ttl, catalogFailures, listLoads, catalogLoads, lookups>>

-----------------------------------------------------------------------------
(* What is kept. *)

Invalidated(s) == {s, summary} \cap Parents

\* Variant, not the code: a list only tells more of what is known already.
KnownOnly(s) ==
  IF s \in {"unlisted", summary} \/ summary = "unlisted" THEN UNCHANGED <<summary, catalogs, ttl, catalogFailures>>
  ELSE summary' = s /\ UNCHANGED <<catalogs, ttl, catalogFailures>>

\* registerSummaries, of a list without or with the session.
registerSummaries(s) ==
  IF s \in {"unlisted", summary} THEN UNCHANGED <<summary, catalogs, ttl, catalogFailures>>
  ELSE /\ summary' = s
       /\ catalogs' = [p \in Parents |-> IF p \in Invalidated(s) THEN "none" ELSE catalogs[p]]
       /\ ttl' = ttl \ Invalidated(s) /\ catalogFailures' = catalogFailures \ Invalidated(s)

Usable(p) == catalogs[p] # "none" /\ p \in ttl

CatalogExpires(p) ==
  /\ p \in ttl /\ ttl' = ttl \ {p}
  /\ UNCHANGED <<hostTree, summary, catalogs, catalogFailures, listLoads, catalogLoads, lookups>>

FailureExpires(p) ==
  /\ p \in catalogFailures /\ catalogFailures' = catalogFailures \ {p}
  /\ UNCHANGED <<hostTree, summary, catalogs, ttl, listLoads, catalogLoads, lookups>>

-----------------------------------------------------------------------------
(* Calls of the host. *)

\* The answer is what the host has at some moment before it arrives.
ListAnswered(by) ==
  /\ listLoads[by] = Sent /\ listLoads' = [listLoads EXCEPT ![by] = Got(tree)]
  /\ UNCHANGED <<hostTree, summary, catalogs, ttl, catalogFailures, catalogLoads, lookups>>

CatalogAnswered(p) ==
  /\ catalogLoads[p] = Sent /\ catalogLoads' = [catalogLoads EXCEPT ![p] = Got(entries[p])]
  /\ UNCHANGED <<hostTree, summary, catalogs, ttl, catalogFailures, listLoads, lookups>>

\* runSessionCatalog, refreshSessionSummariesFromList: they share a call too.
Poll ==
  /\ listLoads["poll"] = NotSent /\ listLoads' = [listLoads EXCEPT !["poll"] = Sent]
  /\ UNCHANGED <<hostTree, summary, catalogs, ttl, catalogFailures, catalogLoads, lookups>>

PollSettles ==
  /\ Settled(listLoads["poll"]) /\ listLoads' = [listLoads EXCEPT !["poll"] = NotSent]
  /\ registerSummaries(listLoads["poll"][2])
  /\ UNCHANGED <<hostTree, catalogLoads, lookups>>

\* The call fails or takes longer than its limit.
PollFails ==
  /\ listLoads["poll"] # NotSent /\ listLoads' = [listLoads EXCEPT !["poll"] = NotSent]
  /\ UNCHANGED <<hostTree, summary, catalogs, ttl, catalogFailures, catalogLoads, lookups>>

-----------------------------------------------------------------------------
(* resolve. *)

\* What is known of the session decides; a parent's catalog may be there, or known to be
\* corrupt, or on its way.
FromEntry(p, entry) == IF entry = "child" THEN p ELSE "unavailable"

Known(r, s) ==
  IF s \notin Parents THEN lookups' = Finish(r, "session") /\ UNCHANGED catalogLoads
  ELSE IF Usable(s) THEN lookups' = Finish(r, FromEntry(s, catalogs[s])) /\ UNCHANGED catalogLoads
  ELSE IF s \in catalogFailures THEN lookups' = Finish(r, "unavailable") /\ UNCHANGED catalogLoads
  ELSE /\ lookups' = [lookups EXCEPT ![r].stage = "catalog", ![r].on = s]
       /\ catalogLoads' = [catalogLoads EXCEPT ![s] = Joined(@)]

Resolve(r) ==
  /\ lookups[r].stage \in {"idle", "done"}
  /\ \/ /\ summary = "unlisted" /\ UNCHANGED catalogLoads
        /\ lookups' = [lookups EXCEPT ![r] = [NoLookup EXCEPT !.stage = "list"]]
        /\ listLoads' = [listLoads EXCEPT !["refresh"] = Joined(@)]
     \/ summary # "unlisted" /\ Known(r, summary) /\ UNCHANGED listLoads
  /\ UNCHANGED <<hostTree, summary, catalogs, ttl, catalogFailures>>

\* The list is registered, and those that wait for it go on, one after the other.
RefreshSettles ==
  /\ Settled(listLoads["refresh"]) /\ listLoads' = [listLoads EXCEPT !["refresh"] = NotSent]
  /\ registerSummaries(listLoads["refresh"][2])
  /\ lookups' = [r \in Lookups |-> IF lookups[r].stage = "list" THEN [lookups[r] EXCEPT !.stage = "listed"]
                                   ELSE lookups[r]]
  /\ UNCHANGED <<hostTree, catalogLoads>>

\* A list that fails fails the lookup, unless the host has no list at all.
RefreshFails ==
  /\ listLoads["refresh"] # NotSent /\ listLoads' = [listLoads EXCEPT !["refresh"] = NotSent]
  /\ \E failed \in {[NoLookup EXCEPT !.stage = "listed"], [NoLookup EXCEPT !.stage = "done", !.result = "unavailable"]} :
       lookups' = [r \in Lookups |-> IF lookups[r].stage = "list" THEN failed ELSE lookups[r]]
  /\ UNCHANGED <<hostTree, summary, catalogs, ttl, catalogFailures, catalogLoads>>

GoesOn(r) ==
  /\ lookups[r].stage = "listed" /\ Known(r, summary)
  /\ UNCHANGED <<hostTree, summary, catalogs, ttl, catalogFailures, listLoads>>

WaitFor(p) == {r \in Lookups : lookups[r].stage = "catalog" /\ lookups[r].on = p}
AllWaiting(p, result) == [r \in Lookups |-> IF r \in WaitFor(p) THEN Finish(r, result)[r] ELSE lookups[r]]

CatalogSettles(p) ==
  /\ Settled(catalogLoads[p]) /\ catalogLoads' = [catalogLoads EXCEPT ![p] = NotSent]
  /\ catalogs' = [catalogs EXCEPT ![p] = catalogLoads[p][2]]
  /\ ttl' = ttl \cup {p} /\ catalogFailures' = catalogFailures \ {p}
  /\ lookups' = AllWaiting(p, FromEntry(p, catalogLoads[p][2]))
  /\ UNCHANGED <<hostTree, summary, listLoads>>

\* Only that it is corrupt is kept.
CatalogFails(p) ==
  /\ catalogLoads[p] # NotSent /\ catalogLoads' = [catalogLoads EXCEPT ![p] = NotSent]
  /\ catalogFailures' \in {catalogFailures, catalogFailures \cup {p}}
  /\ lookups' = AllWaiting(p, "unavailable")
  /\ UNCHANGED <<hostTree, summary, catalogs, ttl, listLoads>>

\* raceAbort: the call that others share goes on.
Abandon(r) ==
  /\ lookups[r].stage \in {"list", "catalog"} /\ lookups' = [lookups EXCEPT ![r] = NoLookup]
  /\ UNCHANGED <<hostTree, summary, catalogs, ttl, catalogFailures, listLoads, catalogLoads>>

-----------------------------------------------------------------------------
BookInit ==
  /\ tree = "unlisted" /\ entries = [p \in Parents |-> "absent"] /\ summary = "unlisted"
  /\ catalogs = [p \in Parents |-> "none"] /\ ttl = {} /\ catalogFailures = {}
  /\ listLoads = [by \in {"refresh", "poll"} |-> NotSent] /\ catalogLoads = [p \in Parents |-> NotSent]
  /\ lookups = [r \in Lookups |-> NoLookup]

BookNext ==
  \/ Lists \/ Poll \/ PollSettles \/ PollFails \/ RefreshSettles \/ RefreshFails
  \/ \E by \in {"refresh", "poll"} : ListAnswered(by)
  \/ \E p \in Parents :
       \/ Catalogs(p) \/ CatalogExpires(p) \/ FailureExpires(p)
       \/ CatalogAnswered(p) \/ CatalogSettles(p) \/ CatalogFails(p)
  \/ \E r \in Lookups : Resolve(r) \/ GoesOn(r) \/ Abandon(r)

\* A call of the host is not made in vain for ever.
CallsSettle ==
  /\ SF_bookVars(PollSettles) /\ SF_bookVars(ListAnswered("poll"))
  /\ WF_bookVars(ListAnswered("refresh")) /\ WF_bookVars(RefreshSettles)
  /\ \A p \in Parents :
       WF_bookVars(CatalogExpires(p)) /\ WF_bookVars(CatalogAnswered(p)) /\ WF_bookVars(CatalogSettles(p))

BookFairness == WF_bookVars(Poll) /\ CallsSettle

BookSpec == BookInit /\ [][BookNext]_bookVars /\ BookFairness

-----------------------------------------------------------------------------
(* What makes it correct. *)

\* An old answer may be taken after a newer one, and a catalog that was asked for before
\* it was invalidated is kept: both are right again at last.
AddressesHeal == <>[](summary = tree /\ \A p \in Parents : Usable(p) => catalogs[p] = entries[p])
=============================================================================
